------------------------------- MODULE Session -------------------------------
(***************************************************************************)
(* The connections of the proxy (server/server.go, protocol/handshake.go): *)
(* for each one a goroutine that greets, authenticates and then reads and  *)
(* answers commands, packet by packet; clients that send, stay silent or   *)
(* go; and the map of prepared statements that all goroutines use without  *)
(* a lock.  Go stops the process, or not, when a goroutine touches a map   *)
(* that another one is writing.                                            *)
(*                                                                         *)
(* RouteAndExecuteSQLWithResult is one step that ends with an error, with  *)
(* counts, or with columns and rows: QueryPath and FanOut have its parts.  *)
(***************************************************************************)
EXTENDS Naturals, Sequences, FiniteSets

CONSTANTS
  Conns,         \* TCP connections
  Logins,        \* what clients log in with: [user, proof]; proof is the password
                 \* from which the token was computed
  Authority,     \* the authority's users, a sequence of [user, anyHost, password]
  ProxyUser,     \* the proxyUser: [user, password]
  Commands,      \* command packets: [op, arg, id, seq]
  Sends,         \* connection -> the logins and commands its client may send
  Databases,     \* the configured database and information_schema
  Placeholders,  \* text of a statement -> the question marks in it
  Results,       \* text of a statement -> the results it may have
  SeqSize,       \* packet numbers are bytes, 256
  MaxColumns,    \* bound: columns of a result
  MaxRows,       \* bound: rows of a result
  MaxPrepares,   \* bound: statements prepared
  Nothing        \* neither a packet nor a login

ASSUME SessionAssumption ==
  /\ Nothing \notin Commands \cup Logins
  /\ Commands \cap Logins = {}
  /\ Sends \in [Conns -> SUBSET (Commands \cup Logins)]
  /\ SeqSize \in Nat \ {0}
  /\ MaxColumns \in Nat /\ MaxRows \in Nat
  /\ \A k \in Commands : k.seq \in 0 .. SeqSize - 1
  /\ \A k \in Commands : k.op = "stmtPrepare" => Placeholders[k.arg] \in Nat
  /\ \A k \in Commands : k.op \in {"query", "stmtPrepare"} =>
       \A r \in Results[k.arg] :
         ~r.error => r.columns \in 0 .. MaxColumns /\ r.rows \in 0 .. MaxRows

VARIABLES
  net,         \* connection -> [open, packet]: whether the client is there, what it sent
  pc,          \* connection -> where its goroutine is
  loop,        \* connection -> 0 in the handshake, then the number of the RunSession
  deadline,    \* connection -> whether reads have a deadline
  login,       \* connection -> who was authenticated
  local,       \* connection -> the locals of RunSession and its handlers
  sent,        \* connection -> the packets of the latest answer
  statements,  \* preparedStatements: id -> SQL
  history,     \* history variable: what was stored in it
  disturbed    \* history variable: a statement was closed or two PREPAREs overlapped

store == <<statements, history, disturbed>>
vars == <<net, pc, loop, deadline, login, local, sent, store>>

NoLocals == [cmd |-> Nothing, seq |-> 0, left |-> 0, rows |-> 0, id |-> 0,
             reply |-> <<"OK", 0>>]

Init ==
  /\ net = [c \in Conns |-> [open |-> TRUE, packet |-> Nothing]]
  /\ pc = [c \in Conns |-> "listening"]
  /\ loop = [c \in Conns |-> 0]
  /\ deadline = [c \in Conns |-> FALSE]
  /\ login = [c \in Conns |-> Nothing]
  /\ local = [c \in Conns |-> NoLocals]
  /\ sent = [c \in Conns |-> <<>>]
  /\ statements = [i \in {} |-> Nothing]
  /\ history = <<>>
  /\ disturbed = FALSE
-----------------------------------------------------------------------------
(* Users *)

matchUserPattern(entry, user) == entry.anyHost /\ entry.user \in {"%", user}

Matching(user) ==
  {i \in DOMAIN Authority :
     Authority[i].user = user \/ matchUserPattern(Authority[i], user)}

(* The passwords that are accepted for a name: that of the first matching *)
(* user of the authority, and of the proxyUser only where there is none.  *)
PasswordsOf(user) ==
  LET found == Matching(user) IN
  IF found # {}
  THEN {Authority[i].password : i \in {j \in found : \A k \in found : j <= k}}
  ELSE IF user = ProxyUser.user THEN {ProxyUser.password} ELSE {}

(* Fault variant: the proxyUser's password is tried for every name. *)
ProxyForAll(l) == l.proof \in PasswordsOf(l.user) \cup {ProxyUser.password}

authenticateNative(l) == l.proof \in PasswordsOf(l.user)
-----------------------------------------------------------------------------
Goto(c, from, to) ==
  /\ pc[c] = from
  /\ pc' = [pc EXCEPT ![c] = to]

(* handleConnection returns and its deferred conn.Close runs. *)
Close(c) ==
  /\ pc' = [pc EXCEPT ![c] = "closed"]
  /\ loop' = [loop EXCEPT ![c] = 0]
  /\ deadline' = [deadline EXCEPT ![c] = FALSE]
  /\ login' = [login EXCEPT ![c] = Nothing]
  /\ local' = [local EXCEPT ![c] = NoLocals]
  /\ sent' = [sent EXCEPT ![c] = <<>>]
  /\ net' = [net EXCEPT ![c].packet = Nothing]
  /\ UNCHANGED store

(* Clients.  A client sends its next command when the last one is answered. *)

Login(c) ==
  /\ pc[c] = "authenticating" /\ net[c] = [open |-> TRUE, packet |-> Nothing]
  /\ \E l \in Sends[c] \cap Logins : net' = [net EXCEPT ![c].packet = l]
  /\ UNCHANGED <<login, pc, loop, deadline, local, sent, store>>

Preparing == {"assigned", "storing"}

Prepares ==
  Len(history) + Cardinality({c \in Conns : pc[c] \in Preparing})
    + Cardinality({c \in Conns : net[c].packet \in Commands /\ net[c].packet.op = "stmtPrepare"})

Send(c) ==
  /\ pc[c] = "reading" /\ net[c] = [open |-> TRUE, packet |-> Nothing]
  /\ \E k \in Sends[c] \cap Commands :
       /\ k.op = "stmtPrepare" => Prepares < MaxPrepares
       /\ net' = [net EXCEPT ![c].packet = k]
  /\ UNCHANGED <<login, pc, loop, deadline, local, sent, store>>

(* What was sent last may be lost with the connection. *)
Depart(c) ==
  /\ pc[c] # "listening" /\ net[c].open
  /\ \E p \in {net[c].packet, Nothing} : net' = [net EXCEPT ![c] = [open |-> FALSE, packet |-> p]]
  /\ UNCHANGED <<login, pc, loop, deadline, local, sent, store>>
-----------------------------------------------------------------------------
(* Handshake *)

(* Fault variant: no read deadline is set. *)
AcceptWithoutDeadline(c) ==
  /\ Goto(c, "listening", "greeting")
  /\ UNCHANGED <<login, net, loop, deadline, local, sent, store>>

Accept(c) ==
  /\ Goto(c, "listening", "greeting")
  /\ deadline' = [deadline EXCEPT ![c] = TRUE]
  /\ UNCHANGED <<login, net, loop, local, sent, store>>

Greet(c) ==
  /\ Goto(c, "greeting", "authenticating")
  /\ UNCHANGED <<login, net, loop, deadline, local, sent, store>>

Admit(c) ==
  /\ Goto(c, "authenticating", "welcoming")
  /\ net[c].packet \in Logins /\ authenticateNative(net[c].packet)
  /\ login' = [login EXCEPT ![c] = net[c].packet]
  /\ net' = [net EXCEPT ![c].packet = Nothing]
  /\ UNCHANGED <<loop, deadline, local, sent, store>>

Refuse(c) ==
  /\ pc[c] = "authenticating"
  /\ net[c].packet \in Logins /\ ~authenticateNative(net[c].packet)
  /\ Close(c)

(* Fault variant: the deadline of the handshake stays. *)
WelcomeKeepsDeadline(c) ==
  /\ Goto(c, "welcoming", "reading")
  /\ loop' = [loop EXCEPT ![c] = 1]
  /\ UNCHANGED <<login, net, deadline, local, sent, store>>

Welcome(c) ==
  /\ Goto(c, "welcoming", "reading")
  /\ loop' = [loop EXCEPT ![c] = 1]
  /\ deadline' = [deadline EXCEPT ![c] = FALSE]
  /\ UNCHANGED <<login, net, local, sent, store>>

(* readPacket fails: the deadline has passed, or the client has gone. *)
Expire(c) ==
  /\ pc[c] \in {"authenticating", "reading"} /\ deadline[c]
  /\ Close(c)

(* Fault variant: the end of the stream is taken for an empty packet. *)
ReadOn(c) ==
  /\ pc[c] \in {"authenticating", "reading"}
  /\ net[c] = [open |-> FALSE, packet |-> Nothing]
  /\ UNCHANGED vars

(* Clients send packets that are not empty. *)
HangUp(c) ==
  /\ pc[c] \in {"authenticating", "reading"}
  /\ net[c] = [open |-> FALSE, packet |-> Nothing]
  /\ Close(c)
-----------------------------------------------------------------------------
(* RunSession *)

Take(c, ops) ==
  /\ pc[c] = "reading"
  /\ net[c].packet \in Commands /\ net[c].packet.op \in ops
  /\ net' = [net EXCEPT ![c].packet = Nothing]
  /\ UNCHANGED <<login, deadline>>

(* The answer to the command just taken begins, with these locals. *)
Answer(c, to, left, rows, id, reply) ==
  /\ pc' = [pc EXCEPT ![c] = to]
  /\ local' = [local EXCEPT ![c] = [cmd |-> net[c].packet, seq |-> net[c].packet.seq,
                  left |-> left, rows |-> rows, id |-> id, reply |-> reply]]
  /\ sent' = [sent EXCEPT ![c] = <<>>]

Acknowledge(c, kind, arg) == Answer(c, "single", 0, 0, 0, <<kind, arg>>)

(* COM_QUIT and COM_SHUTDOWN: RunSession returns nil, and so does       *)
(* HandleHandshake; handleConnection then calls RunSession once more.   *)
ReturnToServer(c) ==
  /\ Take(c, {"quit", "shutdown"}) /\ loop[c] = 1
  /\ loop' = [loop EXCEPT ![c] = 2]
  /\ UNCHANGED <<pc, local, sent, store>>

EndSecondSession(c) ==
  /\ pc[c] = "reading" /\ loop[c] = 2
  /\ net[c].packet \in Commands /\ net[c].packet.op \in {"quit", "shutdown"}
  /\ Close(c)

(* Commands that are answered by one packet and change nothing, when they   *)
(* are well formed: a COM_SET_OPTION has its two bytes, a COM_STMT_RESET an  *)
(* id and a COM_FIELD_LIST a name.                                          *)

PlainOK == {"ping", "setOption", "setVariable", "createDB", "dropDB", "reload", "debug",
            "time", "connect", "processKill", "stmtReset"}
Texts == {"statistics", "processInfo"}

AnswerPlain(c) ==
  LET k == net[c].packet IN
  /\ Take(c, PlainOK \cup Texts \cup {"initDB", "fieldList", "unsupported"})
  /\ CASE k.op \in PlainOK     -> Acknowledge(c, "OK", 0)
       [] k.op \in Texts       -> Acknowledge(c, "TEXT", 0)
       [] k.op = "initDB"      -> Acknowledge(c, IF k.arg \in Databases THEN "OK" ELSE "ERR", 0)
       [] k.op = "fieldList"   -> Acknowledge(c, "COUNT", 0)
       [] k.op = "unsupported" -> Acknowledge(c, "ERR", 0)
  /\ UNCHANGED <<loop, store>>

(* RouteAndExecuteSQLWithResult, with what follows it in RunSession and *)
(* handleExecute alike.                                                 *)
Execute(c, sql) ==
  \E r \in Results[sql] :
    IF r.error THEN Acknowledge(c, "ERR", 0)
    ELSE IF r.columns = 0 THEN Acknowledge(c, "OK", 0)
    ELSE Answer(c, "count", r.columns, r.rows, 0, <<"OK", 0>>)

Query(c) ==
  /\ Take(c, {"query"})
  /\ Execute(c, net[c].packet.arg)
  /\ UNCHANGED <<loop, store>>

(* handleExecute *)
StmtExecute(c) ==
  LET id == net[c].packet.id IN
  /\ Take(c, {"stmtExecute"})
  /\ IF id \in DOMAIN statements THEN Execute(c, statements[id]) ELSE Acknowledge(c, "ERR", 1)
  /\ UNCHANGED <<loop, store>>

(* Fault variant: every connection counts its own statements. *)
CountsItsOwn(c) == Cardinality({i \in 1 .. Len(history) : history[i].by = c}) + 1

(* handlePrepare: the id is the length of the map plus one. *)
NewId(c) == Cardinality(DOMAIN statements) + 1

StmtPrepare(c) ==
  /\ Take(c, {"stmtPrepare"})
  /\ Answer(c, "assigned", 0, 0, NewId(c), <<"OK", 0>>)
  /\ disturbed' = (disturbed \/ \E d \in Conns : pc[d] \in Preparing)
  /\ UNCHANGED <<loop, statements, history>>

(* The write of the map entry has begun; then it is done. *)
BeginStore(c) ==
  /\ Goto(c, "assigned", "storing")
  /\ UNCHANGED <<login, net, loop, deadline, local, sent, store>>

EndStore(c) ==
  LET id == local[c].id
      sql == local[c].cmd.arg IN
  /\ Goto(c, "storing", "prepared")
  /\ statements' = [i \in DOMAIN statements \cup {id} |-> IF i = id THEN sql ELSE statements[i]]
  /\ history' = Append(history, [by |-> c, id |-> id, sql |-> sql])
  /\ UNCHANGED <<login, net, loop, deadline, local, sent, disturbed>>

(* COM_STMT_CLOSE has no answer. *)
StmtClose(c) ==
  /\ Take(c, {"stmtClose"})
  /\ pc' = [pc EXCEPT ![c] = "deleting"]
  /\ local' = [local EXCEPT ![c] = [NoLocals EXCEPT !.id = net[c].packet.id]]
  /\ UNCHANGED <<loop, sent, store>>

EndDelete(c) ==
  LET id == local[c].id IN
  /\ Goto(c, "deleting", "reading")
  /\ statements' = [i \in DOMAIN statements \ {id} |-> statements[i]]
  /\ disturbed' = (disturbed \/ id \in DOMAIN statements)
  /\ local' = [local EXCEPT ![c] = NoLocals]
  /\ UNCHANGED <<login, net, loop, deadline, sent, history>>

(* Fatal error: concurrent map read and map write, or two writes. *)
MapRace(c) ==
  /\ \E d \in Conns \ {c} : pc[d] \in {"storing", "deleting"}
  /\ \/ pc[c] = "assigned"
     \/ /\ pc[c] = "reading" /\ net[c].packet \in Commands
        /\ net[c].packet.op \in {"stmtExecute", "stmtClose", "stmtReset"}
  /\ pc' = [d \in Conns |-> "dead"]
  /\ local' = [d \in Conns |-> NoLocals]
  /\ sent' = [d \in Conns |-> <<>>]
  /\ loop' = [d \in Conns |-> 0]
  /\ deadline' = [d \in Conns |-> FALSE]
  /\ UNCHANGED <<login, net, store>>
-----------------------------------------------------------------------------
(* Packets of an answer *)

Number(c) == (local[c].seq + 1) % SeqSize

Write(c, from, to, kind, arg) ==
  /\ Goto(c, from, to)
  /\ sent' = [sent EXCEPT ![c] = Append(@, [kind |-> kind, arg |-> arg, seq |-> Number(c)])]
  /\ UNCHANGED <<login, net, loop, deadline, store>>

(* A packet after which the code increments seq. *)
Advance(c) == [local[c] EXCEPT !.seq = Number(c)]

WriteSingle(c) ==
  /\ Write(c, "single", "reading", local[c].reply[1], local[c].reply[2])
  /\ local' = [local EXCEPT ![c] = NoLocals]

WriteCount(c) ==
  /\ Write(c, "count", "columns", "COUNT", local[c].left)
  /\ local' = [local EXCEPT ![c] = Advance(c)]

WriteColumn(c) ==
  /\ local[c].left > 0
  /\ Write(c, "columns", "columns", "DEF", 0)
  /\ local' = [local EXCEPT ![c] = [Advance(c) EXCEPT !.left = @ - 1]]

(* Fault variant: the EOF packet is not counted. *)
ColumnsEOFUncounted(c) ==
  /\ local[c].left = 0
  /\ Write(c, "columns", "rows", "EOF", 0)
  /\ UNCHANGED local

WriteColumnsEOF(c) ==
  /\ local[c].left = 0
  /\ Write(c, "columns", "rows", "EOF", 0)
  /\ local' = [local EXCEPT ![c] = Advance(c)]

WriteRow(c) ==
  /\ local[c].rows > 0
  /\ Write(c, "rows", "rows", "ROW", 0)
  /\ local' = [local EXCEPT ![c] = [Advance(c) EXCEPT !.rows = @ - 1]]

WriteRowsEOF(c) ==
  /\ local[c].rows = 0
  /\ Write(c, "rows", "reading", "EOF", 0)
  /\ local' = [local EXCEPT ![c] = NoLocals]

(* The reply to COM_STMT_PREPARE; seq is not incremented after it, and the *)
(* packets behind it all have the same number.                             *)
WritePrepared(c) ==
  LET n == Placeholders[local[c].cmd.arg] IN
  /\ Write(c, "prepared", IF n = 0 THEN "reading" ELSE "parameters", "PREPARED", n)
  /\ local' = [local EXCEPT ![c] = IF n = 0 THEN NoLocals ELSE [Advance(c) EXCEPT !.left = n]]

WriteParameter(c) ==
  /\ local[c].left > 0
  /\ Write(c, "parameters", "parameters", "DEF", 0)
  /\ local' = [local EXCEPT ![c].left = @ - 1]

WriteParametersEOF(c) ==
  /\ local[c].left = 0
  /\ Write(c, "parameters", "reading", "EOF", 0)
  /\ local' = [local EXCEPT ![c] = NoLocals]

Writing == {"greeting", "welcoming", "single", "count", "columns", "rows", "prepared", "parameters"}

(* RunSession returns the error, and the connection is closed.  When the    *)
(* error comes out of handlePrepare or handleExecute, RunSession tries to   *)
(* send an error packet first and ends when that fails as well; a           *)
(* connection that has refused one write refuses the next, so the two are   *)
(* one step.                                                                *)
WriteFails(c) ==
  /\ pc[c] \in Writing /\ ~net[c].open
  /\ Close(c)
-----------------------------------------------------------------------------
Handshake(c) == Greet(c) \/ Admit(c) \/ Refuse(c) \/ Welcome(c)

Handle(c) ==
  \/ ReturnToServer(c) \/ EndSecondSession(c)
  \/ AnswerPlain(c) \/ Query(c) \/ StmtExecute(c)
  \/ StmtPrepare(c) \/ BeginStore(c) \/ EndStore(c) \/ StmtClose(c) \/ EndDelete(c)

WritePacket(c) ==
  \/ WriteSingle(c) \/ WriteCount(c) \/ WriteColumn(c) \/ WriteColumnsEOF(c)
  \/ WriteRow(c) \/ WriteRowsEOF(c)
  \/ WritePrepared(c) \/ WriteParameter(c) \/ WriteParametersEOF(c)

Serve(c) == Handshake(c) \/ Handle(c) \/ WritePacket(c) \/ WriteFails(c) \/ HangUp(c)

Next ==
  \E c \in Conns :
    \/ Login(c) \/ Send(c) \/ Depart(c)
    \/ Accept(c) \/ Serve(c) \/ Expire(c) \/ MapRace(c)

Spec == Init /\ [][Next]_vars

(* Goroutines run, and a deadline that is not lifted passes.  Nothing makes *)
(* a client dial, send or go.                                               *)
FairSpec == Spec /\ \A c \in Conns : WF_vars(Serve(c)) /\ WF_vars(Expire(c))
-----------------------------------------------------------------------------
(* The connections that are answering a command; "deleting" answers nothing. *)
Answering == (Writing \ {"greeting", "welcoming"}) \cup Preparing

D == INSTANCE Dialogue WITH
       Asks  <- Commands,
       on    <- [c \in Conns |-> loop[c] > 0],
       asked <- [c \in Conns |-> IF pc[c] \in Answering THEN local[c].cmd ELSE Nothing],
       heard <- sent

TypeOK ==
  /\ net \in [Conns -> [open : BOOLEAN, packet : Commands \cup Logins \cup {Nothing}]]
  /\ pc \in [Conns -> Writing \cup Preparing \cup
       {"listening", "authenticating", "reading", "deleting", "closed", "dead"}]
  /\ loop \in [Conns -> 0 .. 2]
  /\ deadline \in [Conns -> BOOLEAN]
  /\ login \in [Conns -> Logins \cup {Nothing}]
  /\ DOMAIN local = Conns
  /\ sent \in [Conns -> Seq(D!Packets)]
  /\ DOMAIN statements \subseteq Nat
  /\ disturbed \in BOOLEAN

(* Every command but COM_STMT_CLOSE and those that end a session is answered *)
(* once, before the next, by all packets of one of its answers, numbered     *)
(* without a gap also where the byte wraps; whatever the other connections do.*)
ImplementsDialogue == D!Spec

(* "Clear read deadline for session to avoid unintended timeouts"          *)
(* (handshake.go:119): a session ends only because its client asked for it *)
(* or has gone, or because the process stops.                              *)
SessionsEndByClient ==
  [][\A c \in Conns :
       loop[c] > 0 /\ pc'[c] = "closed" /\ pc[c] # "closed" =>
         \/ ~net[c].open
         \/ net[c].packet \in Commands /\ net[c].packet.op \in {"quit", "shutdown"}]_vars

OwnAccount(l) ==
  LET own == {a \in {Authority[i] : i \in DOMAIN Authority} :
                a.user = l.user \/ (a.anyHost /\ a.user = "%")} IN
  IF own # {} THEN \E a \in own : a.password = l.proof
  ELSE l.user = ProxyUser.user /\ l.proof = ProxyUser.password

(* Who is served has given the password of an account that its name matches, *)
(* and an account of the authority where there is one: the proxyUser's       *)
(* password opens no account of the authority.                               *)
ServedByOwnAccount == \A c \in Conns : loop[c] > 0 => OwnAccount(login[c])

(* Ids are the length of a shared map plus one.  They name what was prepared *)
(* under them, for every connection, as long as no statement has been closed *)
(* and no two PREPAREs have overlapped; after either, one may replace        *)
(* another connection's statement.                                           *)
IdsHoldUntilDisturbed ==
  ~disturbed =>
    \A i \in 1 .. Len(history) :
      /\ history[i].id \in DOMAIN statements
      /\ statements[history[i].id] = history[i].sql

(* "Prepared Statement" support (README.md:12): an EXECUTE with the id that  *)
(* the answer to its connection's PREPARE named, 0 (handshake.go:635), finds *)
(* a statement.                                                              *)
ToldId == 0

ToldIdIsKnown ==
  [][\A c \in Conns :
       /\ StmtExecute(c) /\ net[c].packet.id = ToldId
       /\ \E i \in 1 .. Len(history) : history[i].by = c
       => local'[c].reply # <<"ERR", 1>>]_vars

(* A client that sends nothing does not keep its goroutine: the handshake *)
(* ends, with a session or without, whatever the client does.             *)
HandshakeEnds ==
  \A c \in Conns :
    pc[c] \in {"greeting", "authenticating", "welcoming"} ~> loop[c] > 0 \/ pc[c] \in {"closed", "dead"}

(* When a client has gone, its connection is closed, in the handshake, in  *)
(* the middle of an answer, and in the second RunSession after a COM_QUIT. *)
GoneIsClosed ==
  \A c \in Conns : ~net[c].open ~> pc[c] \in {"closed", "dead"}
=============================================================================
