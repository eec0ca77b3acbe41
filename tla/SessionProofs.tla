---------------------------- MODULE SessionProofs ----------------------------
(***************************************************************************)
(* Proofs about Session for any connections, accounts and commands: who is *)
(* served, what ends a session, how long statement ids can be trusted, and *)
(* that the answers are those of Dialogue.                                 *)
(***************************************************************************)
EXTENDS Session, FiniteSetTheorems, SequenceTheorems, TLAPS

Shapes ==
  /\ net \in [Conns -> [open : BOOLEAN, packet : Commands \cup Logins \cup {Nothing}]]
  /\ pc \in [Conns -> Writing \cup Preparing \cup
       {"listening", "authenticating", "reading", "deleting", "closed", "dead"}]
  /\ loop \in [Conns -> 0 .. 2]
  /\ deadline \in [Conns -> BOOLEAN]
  /\ login \in [Conns -> Logins \cup {Nothing}]
  /\ local = [c \in Conns |-> local[c]]
  /\ \E S : history \in Seq(S)

Outside == {"listening", "greeting", "authenticating", "welcoming", "closed", "dead"}

(* Only in the handshake do reads have a deadline. *)
PlaceInv ==
  \A c \in Conns : (pc[c] \in Outside => loop[c] = 0) /\ (loop[c] > 0 => ~deadline[c])

AccountInv ==
  \A c \in Conns : pc[c] = "welcoming" \/ loop[c] > 0 => OwnAccount(login[c])

(* As long as nothing has disturbed them, the ids are 1, 2, 3 and so on, and *)
(* the one PREPARE that may be under way has the next.                       *)
IdInv ==
  ~disturbed =>
    /\ DOMAIN statements = 1 .. Len(history)
    /\ \A i \in 1 .. Len(history) : history[i].id = i /\ statements[i] = history[i].sql
    /\ \A c \in Conns : pc[c] \in Preparing =>
         /\ local[c].id = Len(history) + 1
         /\ \A d \in Conns \ {c} : pc[d] \notin Preparing

IInv == Shapes /\ PlaceInv /\ AccountInv /\ IdInv
-----------------------------------------------------------------------------
LEMMA InitInv == Init => IInv
<1> SUFFICES ASSUME Init PROVE IInv
  OBVIOUS
<1>1. history \in Seq({})
  BY DEF Init
<1>2. Shapes
  BY <1>1 DEF Init, Shapes
<1>3. DOMAIN statements = 1 .. Len(history)
  BY DEF Init
<1> QED
  BY <1>2, <1>3 DEF Init, IInv, PlaceInv, AccountInv, IdInv, Preparing

(* A password that is accepted is that of an account of one's own. *)
LEMMA AcceptedIsOwn ==
  ASSUME NEW l, authenticateNative(l)
  PROVE  OwnAccount(l)
<1> DEFINE own == {a \in {Authority[i] : i \in DOMAIN Authority} :
                     a.user = l.user \/ (a.anyHost /\ a.user = "%")}
           found == Matching(l.user)
<1>1. \A i \in DOMAIN Authority : i \in found <=> Authority[i] \in own
  BY DEF Matching, matchUserPattern
<1>2. CASE found = {}
  BY <1>1, <1>2 DEF authenticateNative, PasswordsOf, OwnAccount, Matching
<1>3. CASE found # {}
  <2>1. PICK i \in found : Authority[i].password = l.proof
    BY <1>3 DEF authenticateNative, PasswordsOf
  <2>2. Authority[i] \in own
    BY <1>1, <2>1 DEF Matching
  <2> QED BY <2>1, <2>2 DEF OwnAccount
<1> QED
  BY <1>2, <1>3

(* How an answer to a command begins. *)
Answers(c, to, id) ==
  /\ pc[c] = "reading" /\ pc' = [pc EXCEPT ![c] = to]
  /\ \E l : local' = [local EXCEPT ![c] = l] /\ l.id = id
  /\ UNCHANGED <<login, deadline, loop>>

LEMMA AnswerBegins ==
  ASSUME NEW c \in Conns, NEW to, NEW left, NEW rows, NEW id, NEW reply,
         Answer(c, to, left, rows, id, reply), pc[c] = "reading",
         UNCHANGED <<login, deadline, loop>>
  PROVE  Answers(c, to, id)
<1> DEFINE l == [cmd |-> net[c].packet, seq |-> net[c].packet.seq,
                 left |-> left, rows |-> rows, id |-> id, reply |-> reply]
<1>1. l.id = id
  OBVIOUS
<1>2. local' = [local EXCEPT ![c] = l] /\ pc' = [pc EXCEPT ![c] = to]
  BY DEF Answer
<1> HIDE DEF l
<1> QED
  BY <1>1, <1>2 DEF Answers

LEMMA AnswerSteps ==
  ASSUME NEW c \in Conns, AnswerPlain(c) \/ Query(c) \/ StmtExecute(c)
  PROVE  /\ \E to \in {"single", "count"} : Answers(c, to, 0)
         /\ UNCHANGED store
         /\ \E ops : Take(c, ops)
<1>1. ASSUME NEW kind, NEW arg, Acknowledge(c, kind, arg), pc[c] = "reading", UNCHANGED <<login, deadline, loop>>
      PROVE  Answers(c, "single", 0)
  BY <1>1, AnswerBegins DEF Acknowledge
<1>2. ASSUME NEW sql, Execute(c, sql), pc[c] = "reading", UNCHANGED <<login, deadline, loop>>
      PROVE  \E to \in {"single", "count"} : Answers(c, to, 0)
  <2>1. ASSUME NEW n, NEW m, Answer(c, "count", n, m, 0, <<"OK", 0>>)
        PROVE  Answers(c, "count", 0)
    BY <1>2, <2>1, AnswerBegins
  <2> QED BY <1>1, <1>2, <2>1 DEF Execute
<1>3. CASE AnswerPlain(c)
  BY <1>1, <1>3 DEF AnswerPlain, Take
<1>4. CASE Query(c)
  BY <1>2, <1>4 DEF Query, Take
<1>5. CASE StmtExecute(c)
  BY <1>1, <1>2, <1>5 DEF StmtExecute, Take
<1> QED
  BY <1>3, <1>4, <1>5

LEMMA PlaceStep ==
  ASSUME IInv, NEW c \in Conns,
         \/ Login(c) \/ Send(c) \/ Depart(c) \/ Accept(c) \/ Serve(c) \/ Expire(c) \/ MapRace(c)
  PROVE  PlaceInv' /\ AccountInv'
<1> USE DEF IInv, Shapes, PlaceInv, AccountInv, Outside
<1>1. CASE Login(c) \/ Send(c) \/ Depart(c)
  BY <1>1 DEF Login, Send, Depart
<1>2. CASE Accept(c)
  BY <1>2 DEF Accept, Goto
<1>3. CASE Greet(c)
  BY <1>3 DEF Greet, Goto
<1>4. CASE Admit(c)
  BY <1>4, AcceptedIsOwn DEF Admit, Goto
<1>5. CASE Welcome(c)
  BY <1>5 DEF Welcome, Goto
<1>6. CASE Refuse(c) \/ EndSecondSession(c) \/ WriteFails(c) \/ HangUp(c) \/ Expire(c)
  <2>1. Close(c)
    BY <1>6 DEF Refuse, EndSecondSession, WriteFails, HangUp, Expire
  <2> QED BY <2>1 DEF Close
<1>7. CASE ReturnToServer(c)
  BY <1>7 DEF ReturnToServer, Take
<1>8. CASE AnswerPlain(c) \/ Query(c) \/ StmtExecute(c)
  BY <1>8, AnswerSteps DEF Answers
<1>9. CASE StmtPrepare(c)
  BY <1>9 DEF StmtPrepare, Take, Answer
<1>10. CASE BeginStore(c) \/ EndStore(c) \/ EndDelete(c)
  BY <1>10 DEF BeginStore, EndStore, EndDelete, Goto
<1>11. CASE StmtClose(c)
  BY <1>11 DEF StmtClose, Take
<1>12. CASE MapRace(c)
  BY <1>12 DEF MapRace
<1>13. CASE WritePacket(c)
  BY <1>13 DEF WritePacket, WriteSingle, WriteCount, WriteColumn, WriteColumnsEOF, WriteRow, WriteRowsEOF,
     WritePrepared, WriteParameter, WriteParametersEOF, Write, Goto
<1> QED
  BY <1>1, <1>2, <1>3, <1>4, <1>5, <1>6, <1>7, <1>8, <1>9, <1>10, <1>11, <1>12, <1>13
     DEF Serve, Handshake, Handle

LEMMA NetShape ==
  ASSUME net \in [Conns -> [open : BOOLEAN, packet : Commands \cup Logins \cup {Nothing}]],
         NEW c \in Conns, NEW p \in Commands \cup Logins \cup {Nothing},
         net' = [net EXCEPT ![c].packet = p]
  PROVE  net' \in [Conns -> [open : BOOLEAN, packet : Commands \cup Logins \cup {Nothing}]]
<1> DEFINE r == [net[c] EXCEPT !.packet = p]
<1>1. r \in [open : BOOLEAN, packet : Commands \cup Logins \cup {Nothing}]
  OBVIOUS
<1>2. net' = [net EXCEPT ![c] = r]
  OBVIOUS
<1> HIDE DEF r
<1> QED
  BY <1>1, <1>2

LEMMA ShapeStep ==
  ASSUME Shapes, NEW c \in Conns,
         \/ Login(c) \/ Send(c) \/ Depart(c) \/ Accept(c) \/ Serve(c) \/ Expire(c) \/ MapRace(c)
  PROVE  Shapes'
<1> USE DEF Shapes
<1>1. CASE Login(c) \/ Send(c)
  <2>1. PICK p \in Commands \cup Logins : net' = [net EXCEPT ![c].packet = p]
    BY <1>1 DEF Login, Send
  <2>2. net' \in [Conns -> [open : BOOLEAN, packet : Commands \cup Logins \cup {Nothing}]]
    BY <2>1, NetShape
  <2>3. UNCHANGED <<login, pc, loop, deadline, local, store>>
    BY <1>1 DEF Login, Send
  <2> QED BY <2>2, <2>3 DEF store
<1>3. CASE Depart(c)
  <2>1. PICK p \in {net[c].packet, Nothing} : net' = [net EXCEPT ![c] = [open |-> FALSE, packet |-> p]]
    BY <1>3 DEF Depart
  <2>2. p \in Commands \cup Logins \cup {Nothing}
    OBVIOUS
  <2>3. [open |-> FALSE, packet |-> p] \in [open : BOOLEAN, packet : Commands \cup Logins \cup {Nothing}]
    BY <2>2
  <2> QED BY <1>3, <2>1, <2>3 DEF Depart, store
<1>2. CASE Accept(c) \/ Greet(c)
  BY <1>2 DEF Accept, Greet, Goto, store, Writing
<1>4. CASE Admit(c)
  BY <1>4, NetShape DEF Admit, Goto, store, Writing
<1>5. CASE Welcome(c)
  BY <1>5 DEF Welcome, Goto, store
<1>6. CASE Refuse(c) \/ EndSecondSession(c) \/ WriteFails(c) \/ HangUp(c) \/ Expire(c)
  <2>1. Close(c)
    BY <1>6 DEF Refuse, EndSecondSession, WriteFails, HangUp, Expire
  <2>2. net' \in [Conns -> [open : BOOLEAN, packet : Commands \cup Logins \cup {Nothing}]]
    BY <2>1, NetShape DEF Close
  <2>3. /\ pc' = [pc EXCEPT ![c] = "closed"] /\ loop' = [loop EXCEPT ![c] = 0]
        /\ deadline' = [deadline EXCEPT ![c] = FALSE] /\ login' = [login EXCEPT ![c] = Nothing]
        /\ local' = [local EXCEPT ![c] = NoLocals] /\ history' = history
    BY <2>1 DEF Close, store
  <2>4. local' = [d \in Conns |-> local'[d]]
    BY <2>3
  <2>5. /\ pc' \in [Conns -> Writing \cup Preparing \cup
             {"listening", "authenticating", "reading", "deleting", "closed", "dead"}]
        /\ loop' \in [Conns -> 0 .. 2] /\ deadline' \in [Conns -> BOOLEAN]
    BY <2>3
  <2>6. login' \in [Conns -> Logins \cup {Nothing}]
    BY <2>3
  <2>7. \E S : history' \in Seq(S)
    BY <2>3
  <2> QED BY <2>2, <2>4, <2>5, <2>6, <2>7
<1>7. CASE ReturnToServer(c)
  BY <1>7, NetShape DEF ReturnToServer, Take, store
<1>8. CASE AnswerPlain(c) \/ Query(c) \/ StmtExecute(c)
  <2>1. /\ \E p \in Writing : \E l : pc' = [pc EXCEPT ![c] = p] /\ local' = [local EXCEPT ![c] = l]
        /\ UNCHANGED <<login, deadline, loop, store>>
    BY <1>8, AnswerSteps DEF Answers, Writing
  <2>2. net' \in [Conns -> [open : BOOLEAN, packet : Commands \cup Logins \cup {Nothing}]]
    BY <1>8, AnswerSteps, NetShape DEF Take
  <2>3. local' = [d \in Conns |-> local'[d]]
    BY <2>1
  <2>4. pc' \in [Conns -> Writing \cup Preparing \cup
          {"listening", "authenticating", "reading", "deleting", "closed", "dead"}]
    BY <2>1
  <2>5. \E S : history' \in Seq(S)
    BY <2>1 DEF store
  <2> QED BY <2>1, <2>2, <2>3, <2>4, <2>5
<1>9. CASE StmtPrepare(c)
  BY <1>9, NetShape DEF StmtPrepare, Take, Answer, Preparing
<1>10. CASE BeginStore(c) \/ EndDelete(c)
  BY <1>10 DEF BeginStore, EndDelete, Goto, store, Preparing
<1>11. CASE EndStore(c)
  <2>1. PICK S : history \in Seq(S)
    OBVIOUS
  <2> DEFINE h == [by |-> c, id |-> local[c].id, sql |-> local[c].cmd.arg]
  <2>2. history' = Append(history, h)
    BY <1>11 DEF EndStore
  <2>3. history' \in Seq(S \cup {h})
    <3> HIDE DEF h
    <3>1. history \in Seq(S \cup {h})
      BY <2>1, SeqMonotonic
    <3> QED BY <2>2, <3>1, AppendProperties
  <2>4. \E S2 : history' \in Seq(S2)
    BY <2>3
  <2> QED BY <1>11, <2>4 DEF EndStore, Goto, Writing
<1>12. CASE StmtClose(c)
  BY <1>12, NetShape DEF StmtClose, Take, store
<1>13. CASE MapRace(c)
  BY <1>13 DEF MapRace, store
<1>14. CASE WritePacket(c)
  BY <1>14 DEF WritePacket, WriteSingle, WriteCount, WriteColumn, WriteColumnsEOF, WriteRow, WriteRowsEOF,
     WritePrepared, WriteParameter, WriteParametersEOF, Write, Goto, store, Writing
<1> QED
  BY <1>1, <1>2, <1>3, <1>4, <1>5, <1>6, <1>7, <1>8, <1>9, <1>10, <1>11, <1>12, <1>13, <1>14
     DEF Serve, Handshake, Handle

LEMMA IdStep ==
  ASSUME IInv, NEW c \in Conns,
         \/ Login(c) \/ Send(c) \/ Depart(c) \/ Accept(c) \/ Serve(c) \/ Expire(c) \/ MapRace(c)
  PROVE  IdInv'
<1> USE DEF IInv, Shapes, IdInv, store
<1>0. ASSUME UNCHANGED store, NEW p, p \notin Preparing, pc' = [pc EXCEPT ![c] = p],
             \A d \in Conns \ {c} : local'[d].id = local[d].id
      PROVE  IdInv'
  BY <1>0
<1>1. CASE Login(c) \/ Send(c) \/ Depart(c)
  BY <1>1 DEF Login, Send, Depart
<1>2. CASE Accept(c) \/ Greet(c) \/ Admit(c) \/ Welcome(c)
  <2>1. CASE Accept(c)
    BY <2>1, <1>0 DEF Accept, Goto, Preparing
  <2>2. CASE Greet(c)
    BY <2>2, <1>0 DEF Greet, Goto, Preparing
  <2>3. CASE Admit(c)
    BY <2>3, <1>0 DEF Admit, Goto, Preparing
  <2>4. CASE Welcome(c)
    BY <2>4, <1>0 DEF Welcome, Goto, Preparing
  <2> QED BY <1>2, <2>1, <2>2, <2>3, <2>4
<1>3. CASE Refuse(c) \/ EndSecondSession(c) \/ WriteFails(c) \/ HangUp(c) \/ Expire(c)
  <2>1. Close(c)
    BY <1>3 DEF Refuse, EndSecondSession, WriteFails, HangUp, Expire
  <2> QED BY <2>1 DEF Close, Preparing
<1>4. CASE ReturnToServer(c)
  BY <1>4 DEF ReturnToServer, Take, Preparing
<1>5. CASE AnswerPlain(c) \/ Query(c) \/ StmtExecute(c)
  <2>1. \E p \in {"single", "count"} : \E l : pc' = [pc EXCEPT ![c] = p] /\ local' = [local EXCEPT ![c] = l]
    BY <1>5, AnswerSteps DEF Answers
  <2>2. UNCHANGED store
    BY <1>5, AnswerSteps
  <2> QED BY <1>0, <2>1, <2>2 DEF Preparing
<1>6. CASE StmtPrepare(c)
  <2> SUFFICES ASSUME ~disturbed' PROVE IdInv'
    OBVIOUS
  <2>1. ~disturbed /\ \A d \in Conns : pc[d] \notin Preparing
    BY <1>6 DEF StmtPrepare
  <2>2. Cardinality(1 .. Len(history)) = Len(history) /\ Len(history) \in Nat
    <3>1. PICK S : history \in Seq(S)
      OBVIOUS
    <3>2. Len(history) \in Nat
      BY <3>1
    <3> DEFINE n == Len(history)
    <3>3. n \in Int /\ 1 \in Int
      BY <3>2
    <3> HIDE DEF n
    <3>4. Cardinality(1 .. n) = IF 1 > n THEN 0 ELSE n - 1 + 1
      BY <3>3, FS_Interval
    <3>5. n \in Nat
      BY <3>2 DEF n
    <3>6. Cardinality(1 .. n) = n
      BY <3>4, <3>5
    <3> QED BY <3>2, <3>6 DEF n
  <2>3. local'[c].id = Len(history) + 1 /\ pc' = [pc EXCEPT ![c] = "assigned"]
    BY <1>6, <2>1, <2>2 DEF StmtPrepare, Answer, NewId
  <2> QED BY <1>6, <2>1, <2>3 DEF StmtPrepare
<1>7. CASE BeginStore(c)
  BY <1>7 DEF BeginStore, Goto, Preparing
<1>8. CASE EndStore(c)
  <2> SUFFICES ASSUME ~disturbed' PROVE IdInv'
    OBVIOUS
  <2> DEFINE n == Len(history)
             h == [by |-> c, id |-> local[c].id, sql |-> local[c].cmd.arg]
  <2>1. n \in Nat /\ ~disturbed /\ pc[c] = "storing" /\ pc' = [pc EXCEPT ![c] = "prepared"]
    BY <1>8 DEF EndStore, Goto
  <2>2. h.id = n + 1 /\ \A d \in Conns \ {c} : pc[d] \notin Preparing
    BY <2>1 DEF Preparing
  <2>3. /\ Len(history') = n + 1 /\ history'[n + 1] = h
        /\ \A i \in 1 .. n : history'[i] = history[i]
    <3>1. PICK S : history \in Seq(S)
      OBVIOUS
    <3>2. history' = Append(history, h)
      BY <1>8 DEF EndStore
    <3> HIDE DEF h
    <3>3. history \in Seq(S \cup {h})
      BY <3>1, SeqMonotonic
    <3> QED BY <3>2, <3>3, AppendProperties
  <2>4. /\ DOMAIN statements' = 1 .. n + 1
        /\ statements'[n + 1] = h.sql
        /\ \A i \in 1 .. n : statements'[i] = statements[i]
    <3>1. statements' = [i \in DOMAIN statements \cup {n + 1} |->
                          IF i = n + 1 THEN h.sql ELSE statements[i]]
      BY <1>8, <2>2 DEF EndStore
    <3> HIDE DEF h
    <3> QED BY <2>1, <3>1
  <2> HIDE DEF h
  <2>5. DOMAIN statements' = 1 .. Len(history')
    BY <2>3, <2>4
  <2>6. ASSUME NEW i \in 1 .. n + 1
        PROVE  history'[i].id = i /\ statements'[i] = history'[i].sql
    BY <2>1, <2>2, <2>3, <2>4
  <2>7. \A d \in Conns : pc'[d] \notin Preparing
    BY <2>1, <2>2 DEF Preparing
  <2> QED BY <2>3, <2>5, <2>6, <2>7
<1>9. CASE StmtClose(c)
  BY <1>9 DEF StmtClose, Take, Preparing
<1>10. CASE EndDelete(c)
  <2> SUFFICES ASSUME ~disturbed' PROVE IdInv'
    OBVIOUS
  <2>1. ~disturbed /\ local[c].id \notin DOMAIN statements
    BY <1>10 DEF EndDelete
  <2>2. /\ DOMAIN statements' = DOMAIN statements
        /\ \A i \in DOMAIN statements : statements'[i] = statements[i]
    BY <1>10, <2>1 DEF EndDelete
  <2> QED BY <1>10, <2>1, <2>2 DEF EndDelete, Goto, Preparing
<1>11. CASE MapRace(c)
  BY <1>11 DEF MapRace, Preparing
<1>12. CASE WritePacket(c)
  <2>1. UNCHANGED store /\ \E p, l : p \notin Preparing /\ pc' = [pc EXCEPT ![c] = p] /\ local' = [local EXCEPT ![c] = l]
    BY <1>12 DEF WritePacket, WriteSingle, WriteCount, WriteColumn, WriteColumnsEOF, WriteRow, WriteRowsEOF,
       WritePrepared, WriteParameter, WriteParametersEOF, Write, Goto, Preparing
  <2> QED BY <1>0, <2>1
<1> QED
  BY <1>1, <1>2, <1>3, <1>4, <1>5, <1>6, <1>7, <1>8, <1>9, <1>10, <1>11, <1>12
     DEF Serve, Handshake, Handle

THEOREM Inductive == IInv /\ [Next]_vars => IInv'
<1> SUFFICES ASSUME IInv, [Next]_vars PROVE IInv'
  OBVIOUS
<1>1. CASE UNCHANGED vars
  BY <1>1 DEF vars, store, IInv, Shapes, PlaceInv, AccountInv, IdInv
<1>2. CASE Next
  <2>1. PICK c \in Conns :
          Login(c) \/ Send(c) \/ Depart(c) \/ Accept(c) \/ Serve(c) \/ Expire(c) \/ MapRace(c)
    BY <1>2 DEF Next
  <2>2. Shapes
    BY DEF IInv
  <2> QED BY <2>1, <2>2, ShapeStep, PlaceStep, IdStep DEF IInv
<1> QED
  BY <1>1, <1>2
-----------------------------------------------------------------------------
(* The inductive invariant holds. *)
THEOREM Invariance == Spec => []IInv
<1> QED
  BY InitInv, Inductive, PTL DEF Spec

(* Nobody is served (handshake.go: authenticateNative, before RunSession)  *)
(* who has not given the password of an account of one's own, whatever the *)
(* list of users is and in whatever order.                                 *)
THEOREM OwnAccountsOnly == Spec => []ServedByOwnAccount
<1>1. IInv => ServedByOwnAccount
  BY DEF IInv, AccountInv, ServedByOwnAccount
<1> QED
  BY Invariance, <1>1, PTL

(* The ids that handlePrepare takes from the length of the map name what   *)
(* was stored under them for as long as no statement was closed and no two *)
(* PREPAREs have overlapped, for any number of connections and statements. *)
THEOREM IdsHold == Spec => []IdsHoldUntilDisturbed
<1>1. IInv => IdsHoldUntilDisturbed
  <2> SUFFICES ASSUME IInv, ~disturbed, NEW i \in 1 .. Len(history)
               PROVE  /\ history[i].id \in DOMAIN statements
                      /\ statements[history[i].id] = history[i].sql
    BY DEF IdsHoldUntilDisturbed
  <2> QED BY DEF IInv, IdInv
<1> QED
  BY Invariance, <1>1, PTL

(* Once RunSession has begun, no deadline of the handshake (handshake.go:   *)
(* SetReadDeadline) and no other connection closes a connection whose       *)
(* client is there and has not asked for it.                                *)
THEOREM ClientsEndSessions == Spec => SessionsEndByClient
<1>1. ASSUME IInv, [Next]_vars, NEW c \in Conns, loop[c] > 0, pc'[c] = "closed", pc[c] # "closed"
      PROVE  ~net[c].open \/ (net[c].packet \in Commands /\ net[c].packet.op \in {"quit", "shutdown"})
  <2>1. PICK d \in Conns :
          Login(d) \/ Send(d) \/ Depart(d) \/ Accept(d) \/ Serve(d) \/ Expire(d) \/ MapRace(d)
    BY <1>1 DEF Next, vars
  <2> USE <1>1 DEF IInv, Shapes, PlaceInv, Outside
  <2>2. CASE Login(d) \/ Send(d) \/ Depart(d) \/ Accept(d) \/ Greet(d) \/ Admit(d) \/ Welcome(d)
    BY <2>2 DEF Login, Send, Depart, Accept, Greet, Admit, Welcome, Goto
  <2>3. CASE Refuse(d) \/ EndSecondSession(d) \/ WriteFails(d) \/ HangUp(d) \/ Expire(d)
    BY <2>3 DEF Refuse, EndSecondSession, WriteFails, HangUp, Expire, Close
  <2>4. CASE AnswerPlain(d) \/ Query(d) \/ StmtExecute(d)
    BY <2>4, AnswerSteps DEF Answers
  <2>5. CASE ReturnToServer(d) \/ StmtPrepare(d) \/ BeginStore(d) \/ EndStore(d) \/ StmtClose(d) \/ EndDelete(d)
    BY <2>5 DEF ReturnToServer, StmtPrepare, BeginStore, EndStore, StmtClose, EndDelete, Answer, Goto
  <2>6. CASE MapRace(d)
    BY <2>6 DEF MapRace
  <2>7. CASE WritePacket(d)
    BY <2>7 DEF WritePacket, WriteSingle, WriteCount, WriteColumn, WriteColumnsEOF, WriteRow, WriteRowsEOF,
       WritePrepared, WriteParameter, WriteParametersEOF, Write, Goto
  <2> QED BY <2>1, <2>2, <2>3, <2>4, <2>5, <2>6, <2>7 DEF Serve, Handshake, Handle
<1>2. IInv /\ [Next]_vars =>
        [\A c \in Conns :
           loop[c] > 0 /\ pc'[c] = "closed" /\ pc[c] # "closed" =>
             \/ ~net[c].open
             \/ net[c].packet \in Commands /\ net[c].packet.op \in {"quit", "shutdown"}]_vars
  BY <1>1
<1> QED
  BY Invariance, <1>2, PTL DEF Spec, SessionsEndByClient
-----------------------------------------------------------------------------
(* Packet numbers go on from the last one also where the byte wraps. *)
LEMMA Division ==
  ASSUME NEW a \in Int, NEW S \in Int, S > 0
  PROVE  \E q \in Int : a = S * q + (a % S)
  BY SMTT(30)

LEMMA RemainderIs ==
  ASSUME NEW q \in Int, NEW S \in Nat \ {0}, NEW r \in 0 .. S - 1
  PROVE  (S * q + r) % S = r
  OBVIOUS

LEMMA NextNumber ==
  ASSUME NEW a \in Nat, NEW S \in Nat \ {0}
  PROVE  ((a % S) + 1) % S = (a + 1) % S
<1> DEFINE r == a % S
<1>1. PICK q \in Int : a = S * q + r
  <2>1. a \in Int /\ S \in Int /\ S > 0
    OBVIOUS
  <2> QED BY <2>1, Division
<1>2. r \in 0 .. S - 1
  OBVIOUS
<1> HIDE DEF r
<1>3. CASE r + 1 < S
  <2>1. r + 1 \in 0 .. S - 1
    BY <1>2, <1>3
  <2>2. (S * q + (r + 1)) % S = r + 1
    BY <2>1, RemainderIs
  <2>3. (S * 0 + (r + 1)) % S = r + 1
    BY <2>1, RemainderIs
  <2>4. a + 1 = S * q + (r + 1) /\ S * 0 + (r + 1) = r + 1
    BY <1>1, <1>2
  <2>5. (r + 1) % S = (a + 1) % S
    BY <2>2, <2>3, <2>4
  <2> QED BY <2>5 DEF r
<1>4. CASE r + 1 = S
  <2>1. 0 \in 0 .. S - 1
    OBVIOUS
  <2>2. (S * (q + 1) + 0) % S = 0
    BY <2>1, RemainderIs
  <2>3. (S * 1 + 0) % S = 0
    BY <2>1, RemainderIs
  <2>4. a + 1 = S * (q + 1) + 0
    BY <1>1, <1>2, <1>4
  <2>5. r + 1 = S * 1 + 0
    BY <1>2, <1>4
  <2>6. (r + 1) % S = (a + 1) % S
    BY <2>2, <2>3, <2>4, <2>5
  <2> QED BY <2>6 DEF r
<1> QED BY <1>2, <1>3, <1>4

(* The packets of the answers, by their places. *)
LEMMA ResultSetIs ==
  ASSUME NEW n \in Nat, NEW m \in Nat
  PROVE  LET answer == D!ResultSet(n, m) IN
         /\ Len(answer) = n + m + 3
         /\ answer[1] = <<"COUNT", n>>
         /\ \A i \in 2 .. n + 1 : answer[i] = <<"DEF", 0>>
         /\ answer[n + 2] = <<"EOF", 0>>
         /\ \A i \in n + 3 .. n + m + 2 : answer[i] = <<"ROW", 0>>
         /\ answer[n + m + 3] = <<"EOF", 0>>
<1> DEFINE answer == D!ResultSet(n, m)
           packet(i) == CASE i = 1 -> <<"COUNT", n>>
                          [] i \in 2 .. n + 1 -> <<"DEF", 0>>
                          [] i \in n + 3 .. n + m + 2 -> <<"ROW", 0>>
                          [] i \in {n + 2, n + m + 3} -> <<"EOF", 0>>
<1>1. /\ packet(1) = <<"COUNT", n>>
      /\ \A i \in 2 .. n + 1 : packet(i) = <<"DEF", 0>>
      /\ packet(n + 2) = <<"EOF", 0>>
      /\ \A i \in n + 3 .. n + m + 2 : packet(i) = <<"ROW", 0>>
      /\ packet(n + m + 3) = <<"EOF", 0>>
  OBVIOUS
<1>2. answer = [i \in 1 .. n + m + 3 |-> packet(i)]
  BY DEF D!ResultSet
<1> HIDE DEF packet, answer
<1>3. Len(answer) = n + m + 3 /\ \A i \in 1 .. n + m + 3 : answer[i] = packet(i)
  BY <1>2
<1> QED BY <1>1, <1>3 DEF answer

LEMMA PreparationIs ==
  ASSUME NEW n \in Nat
  PROVE  LET answer == D!Preparation(n) IN
         /\ Len(answer) = IF n = 0 THEN 1 ELSE n + 2
         /\ answer[1] = <<"PREPARED", n>>
         /\ n > 0 => (\A i \in 2 .. n + 1 : answer[i] = <<"DEF", 0>>) /\ answer[n + 2] = <<"EOF", 0>>
<1> DEFINE answer == D!Preparation(n)
           size == IF n = 0 THEN 1 ELSE n + 2
           packet(i) == CASE i = 1 -> <<"PREPARED", n>>
                          [] i \in 2 .. n + 1 -> <<"DEF", 0>>
                          [] i = n + 2 -> <<"EOF", 0>>
<1>1. /\ packet(1) = <<"PREPARED", n>>
      /\ \A i \in 2 .. n + 1 : packet(i) = <<"DEF", 0>>
      /\ packet(n + 2) = <<"EOF", 0>>
  OBVIOUS
<1>2. answer = [i \in 1 .. size |-> packet(i)]
  BY DEF D!Preparation
<1>3. size \in Nat /\ (n = 0 => size = 1) /\ (n > 0 => size = n + 2)
  OBVIOUS
<1> HIDE DEF packet, answer, size
<1>4. Len(answer) = size /\ \A i \in 1 .. size : answer[i] = packet(i)
  BY <1>2, <1>3
<1> QED BY <1>1, <1>3, <1>4 DEF answer

Heard(k, h, answer) ==
  /\ h \in Seq(D!Packets)
  /\ \A i \in 1 .. Len(h) :
       IF k.op = "stmtPrepare" /\ i > 1 THEN h[i].kind = answer[i][1]
       ELSE h[i] = D!Numbered(k, answer)[i]

(* Where a goroutine is in the answer it is giving, by what it still has to *)
(* write; p is its place, l its locals and h what it wrote.                 *)
Place(p, l, h, answer) ==
  \/ p = "single" /\ h = <<>> /\ answer = <<l.reply>>
  \/ /\ p = "count" /\ h = <<>> /\ answer = D!ResultSet(l.left, l.rows)
     /\ l.left \in 1 .. MaxColumns /\ l.rows \in 0 .. MaxRows
  \/ /\ p = "columns" /\ l.rows \in 0 .. MaxRows
     /\ \E n \in 1 .. MaxColumns :
          /\ answer = D!ResultSet(n, l.rows) /\ l.left \in 0 .. n
          /\ Len(h) = 1 + n - l.left
  \/ /\ p = "rows"
     /\ \E n \in 1 .. MaxColumns, m \in 0 .. MaxRows :
          /\ answer = D!ResultSet(n, m) /\ l.rows \in 0 .. m
          /\ Len(h) = 2 + n + m - l.rows
  \/ p \in Preparing \cup {"prepared"} /\ h = <<>> /\ answer = D!Preparation(Placeholders[l.cmd.arg])
  \/ /\ p = "parameters" /\ answer = D!Preparation(Placeholders[l.cmd.arg])
     /\ Placeholders[l.cmd.arg] > 0 /\ l.left \in 0 .. Placeholders[l.cmd.arg]
     /\ Len(h) = 1 + Placeholders[l.cmd.arg] - l.left

Preparatory == Preparing \cup {"prepared", "parameters"}

Saying(p, l, h, answer) ==
  /\ l = [cmd |-> l.cmd, seq |-> l.seq, left |-> l.left, rows |-> l.rows, id |-> l.id,
          reply |-> l.reply]
  /\ l.cmd \in Commands /\ l.seq \in Nat
  /\ p \in Preparatory <=> l.cmd.op = "stmtPrepare"
  /\ p # "parameters" => l.seq = (l.cmd.seq + Len(h)) % SeqSize
  /\ Heard(l.cmd, h, answer)
  /\ Place(p, l, h, answer)

Talking(p, l, h) == p \in Answering => \E answer \in D!Answers(l.cmd) : Saying(p, l, h, answer)

TalkInv ==
  /\ sent = [c \in Conns |-> sent[c]]
  /\ \A c \in Conns : pc[c] \notin Outside => loop[c] > 0
  /\ \A i \in DOMAIN statements :
       \E k \in Commands : k.op = "stmtPrepare" /\ statements[i] = k.arg
  /\ \A c \in Conns : Talking(pc[c], local[c], sent[c])

Part(k, h)  == D!Begins(k, h, FALSE)
Whole(k, h) == D!Begins(k, h, TRUE)

(* One more packet of an answer. *)
LEMMA Continues ==
  ASSUME NEW k \in Commands, NEW answer \in D!Answers(k), NEW h, Heard(k, h, answer),
         NEW i, i = Len(h) + 1, i <= Len(answer), Len(answer) \in Nat,
         NEW p \in D!Packets, p.kind = answer[i][1],
         (k.op = "stmtPrepare" /\ i > 1) \/ p = D!Numbered(k, answer)[i],
         NEW g, g = Append(h, p)
  PROVE  /\ Heard(k, g, answer) /\ Len(g) = i
         /\ i = Len(answer) => Whole(k, g)
         /\ i < Len(answer) => Part(k, g)
<1>1. h \in Seq(D!Packets) /\ Len(h) \in Nat
  BY DEF Heard
<1>2. g \in Seq(D!Packets) /\ Len(g) = i /\ g[i] = p /\ \A j \in 1 .. Len(h) : g[j] = h[j]
  BY <1>1, AppendProperties
<1>4. ASSUME NEW j \in 1 .. Len(g)
      PROVE  IF k.op = "stmtPrepare" /\ j > 1 THEN g[j].kind = answer[j][1]
             ELSE g[j] = D!Numbered(k, answer)[j]
  <2>1. CASE j = i
    BY <1>2, <2>1
  <2>2. CASE j # i
    <3>1. j \in 1 .. Len(h)
      BY <1>1, <1>2, <2>2
    <3> QED BY <1>2, <3>1 DEF Heard
  <2> QED BY <2>1, <2>2
<1>5. Heard(k, g, answer)
  BY <1>2, <1>4 DEF Heard
<1>6. i = Len(answer) => Whole(k, g)
  BY <1>2, <1>4 DEF D!Begins, Whole
<1>7. i < Len(answer) => Part(k, g)
  BY <1>2, <1>4 DEF D!Begins, Part
<1> QED BY <1>2, <1>5, <1>6, <1>7
-----------------------------------------------------------------------------
(* A step that writes a packet of an answer. *)
Spoken(c, answer) ==
  /\ pc[c] \in Answering /\ local[c].cmd \in Commands
  /\ sent' = [sent EXCEPT ![c] = Append(@, sent'[c][Len(sent'[c])])]
  /\ sent'[c][Len(sent'[c])] \in D!Packets /\ Len(sent'[c]) = Len(sent[c]) + 1
  /\ pc' = [pc EXCEPT ![c] = pc'[c]] /\ local' = [local EXCEPT ![c] = local'[c]]
  /\ UNCHANGED <<loop, store>>
  /\ \/ pc'[c] = "reading" /\ Whole(local[c].cmd, sent'[c])
     \/ /\ pc'[c] \in Answering /\ local'[c].cmd = local[c].cmd
        /\ Part(local[c].cmd, sent'[c])
        /\ Saying(pc'[c], local'[c], sent'[c], answer)

LEMMA NumberIs ==
  ASSUME NEW c \in Conns, NEW answer, Saying(pc[c], local[c], sent[c], answer)
  PROVE  /\ Number(c) \in 0 .. SeqSize - 1
         /\ pc[c] # "parameters" =>
              Number(c) = (local[c].cmd.seq + (Len(sent[c]) + 1)) % SeqSize
<1> DEFINE l == local[c]
           n == Len(sent[c])
<1>1. l.seq \in Nat /\ l.cmd \in Commands /\ sent[c] \in Seq(D!Packets)
  BY DEF Saying, Heard
<1>2. n \in Nat /\ SeqSize \in Nat \ {0} /\ l.cmd.seq \in Nat
  BY <1>1, SessionAssumption DEF SessionAssumption
<1>3. Number(c) \in 0 .. SeqSize - 1
  BY <1>1, <1>2 DEF Number
<1>4. ASSUME pc[c] # "parameters" PROVE Number(c) = (l.cmd.seq + (n + 1)) % SeqSize
  <2>1. l.seq = (l.cmd.seq + n) % SeqSize
    BY <1>4 DEF Saying
  <2> DEFINE a == l.cmd.seq + n
  <2>2. a \in Nat /\ a + 1 = l.cmd.seq + (n + 1)
    BY <1>2
  <2> HIDE DEF a
  <2>3. ((a % SeqSize) + 1) % SeqSize = (a + 1) % SeqSize
    BY <1>2, <2>2, NextNumber
  <2> QED BY <2>1, <2>2, <2>3 DEF Number, a
<1> QED BY <1>3, <1>4

(* The step of a goroutine that has written the next packet of an answer, *)
(* after which what it has left to write is right again.                   *)
Kinds == {"OK", "ERR", "TEXT", "COUNT", "DEF", "ROW", "EOF", "PREPARED"}

Coming(c, answer) == answer[Len(sent[c]) + 1]

Comes(c, answer) ==
  /\ Len(sent[c]) \in Nat /\ Len(answer) \in Nat /\ Len(sent[c]) + 1 <= Len(answer)
  /\ Coming(c, answer) = <<Coming(c, answer)[1], Coming(c, answer)[2]>>
  /\ Coming(c, answer)[1] \in Kinds /\ Coming(c, answer)[2] \in Nat
  /\ pc[c] = "parameters" => Len(sent[c]) > 0

Ends(c, answer) == pc'[c] = "reading" /\ Len(sent[c]) + 1 = Len(answer)

Remains(c, answer) ==
  LET to == pc'[c]  l == local'[c] IN
  /\ to \in Answering /\ Len(sent[c]) + 1 < Len(answer)
  /\ l = [cmd |-> local[c].cmd, seq |-> l.seq, left |-> l.left, rows |-> l.rows,
          id |-> l.id, reply |-> l.reply]
  /\ to \in Preparatory <=> pc[c] \in Preparatory
  /\ l.seq \in Nat
  /\ to # "parameters" => pc[c] # "parameters" /\ l.seq = Number(c)
  /\ Len(sent'[c]) = Len(sent[c]) + 1 => Place(to, l, sent'[c], answer)

Wrote(c, answer) ==
  /\ pc[c] \in Answering /\ Saying(pc[c], local[c], sent[c], answer) /\ Comes(c, answer)
  /\ sent' = [sent EXCEPT ![c] = Append(@, [kind |-> Coming(c, answer)[1],
                                            arg |-> Coming(c, answer)[2], seq |-> Number(c)])]
  /\ pc' = [pc EXCEPT ![c] = pc'[c]] /\ local' = [local EXCEPT ![c] = local'[c]]
  /\ UNCHANGED <<loop, store>>
  /\ Ends(c, answer) \/ Remains(c, answer)

LEMMA Speaks ==
  ASSUME TalkInv, NEW c \in Conns, NEW answer \in D!Answers(local[c].cmd), Wrote(c, answer)
  PROVE  Spoken(c, answer)
<1>1. PICK n, kind, arg, to, l :
        n = Len(sent[c]) /\ kind = answer[n + 1][1] /\ arg = answer[n + 1][2]
          /\ to = pc'[c] /\ l = local'[c]
  OBVIOUS
<1> DEFINE k == local[c].cmd
           h == sent[c]
           p == [kind |-> kind, arg |-> arg, seq |-> Number(c)]
<1>2. pc[c] \in Answering /\ Saying(pc[c], local[c], h, answer)
  BY DEF Wrote
<1>3. /\ Len(h) = n /\ n \in Nat /\ Len(answer) \in Nat /\ n + 1 <= Len(answer)
      /\ answer[n + 1] = <<kind, arg>> /\ kind \in Kinds /\ arg \in Nat
      /\ pc[c] = "parameters" => n > 0
  BY <1>1 DEF Wrote, Comes, Coming
<1>4. /\ k \in Commands /\ Heard(k, h, answer) /\ h \in Seq(D!Packets)
      /\ pc[c] \in Preparatory <=> k.op = "stmtPrepare"
  BY <1>2 DEF Saying, Heard
<1>5. Number(c) \in 0 .. SeqSize - 1 /\ SeqSize \in Nat
  BY <1>2, NumberIs, SessionAssumption DEF SessionAssumption
<1>6. p \in D!Packets /\ p.kind = answer[n + 1][1]
  BY <1>3, <1>5 DEF D!Packets, Kinds
<1>7. (k.op = "stmtPrepare" /\ n + 1 > 1) \/ p = D!Numbered(k, answer)[n + 1]
  <2>1. CASE pc[c] = "parameters"
    BY <1>3, <1>4, <2>1 DEF Preparatory
  <2>2. CASE pc[c] # "parameters"
    <3>1. Number(c) = (k.seq + (n + 1)) % SeqSize
      BY <1>2, <1>3, <2>2, NumberIs
    <3>2. n + 1 \in 1 .. Len(answer) /\ answer[n + 1][1] = kind /\ answer[n + 1][2] = arg
      BY <1>3
    <3>3. D!Numbered(k, answer)[n + 1] = p
      BY <3>1, <3>2 DEF D!Numbered
    <3> QED BY <3>3
  <2> QED BY <2>1, <2>2
<1>8. sent' = [sent EXCEPT ![c] = Append(h, p)] /\ sent'[c] = Append(h, p)
  <2>1. sent' = [sent EXCEPT ![c] = Append(h, p)]
    BY <1>1 DEF Wrote, Coming
  <2> HIDE DEF p
  <2> QED BY <2>1 DEF TalkInv
<1>9. /\ Heard(k, sent'[c], answer) /\ Len(sent'[c]) = n + 1
      /\ n + 1 = Len(answer) => Whole(k, sent'[c])
      /\ n + 1 < Len(answer) => Part(k, sent'[c])
  <2>1. PICK kk, hh, pp, g, i :
          kk = k /\ hh = h /\ pp = p /\ g = Append(h, p) /\ i = n + 1
    OBVIOUS
  <2>2. /\ kk \in Commands /\ answer \in D!Answers(kk) /\ Heard(kk, hh, answer)
        /\ i = Len(hh) + 1 /\ i <= Len(answer) /\ pp \in D!Packets /\ pp.kind = answer[i][1]
        /\ (kk.op = "stmtPrepare" /\ i > 1) \/ pp = D!Numbered(kk, answer)[i]
        /\ g = Append(hh, pp) /\ Len(answer) \in Nat
    BY <1>3, <1>4, <1>6, <1>7, <2>1
  <2>3. Heard(kk, g, answer)
    BY <2>2, Continues
  <2>4. Len(g) = i
    BY <2>2, Continues
  <2>5. i = Len(answer) => Whole(kk, g)
    BY <2>2, Continues
  <2>6. i < Len(answer) => Part(kk, g)
    BY <2>2, Continues
  <2>7. sent'[c] = g
    BY <1>8, <2>1
  <2> HIDE DEF h, p
  <2> QED BY <2>1, <2>3, <2>4, <2>5, <2>6, <2>7
<1>10. sent'[c][Len(sent'[c])] = p
  <2> HIDE DEF p
  <2> QED BY <1>3, <1>4, <1>6, <1>8, <1>9, AppendProperties
<1>11. pc[c] # "parameters" => Number(c) = (k.seq + Len(sent'[c])) % SeqSize
  BY <1>2, <1>3, <1>9, NumberIs
<1>12. /\ sent' = [sent EXCEPT ![c] = Append(@, sent'[c][Len(sent'[c])])]
       /\ sent'[c][Len(sent'[c])] \in D!Packets
  <2> HIDE DEF p
  <2> QED BY <1>6, <1>8, <1>10
<1>13. /\ pc' = [pc EXCEPT ![c] = pc'[c]] /\ local' = [local EXCEPT ![c] = local'[c]]
       /\ UNCHANGED <<loop, store>>
  BY DEF Wrote
<1>14. \/ to = "reading" /\ n + 1 = Len(answer)
       \/ /\ to \in Answering /\ n + 1 < Len(answer)
          /\ l = [cmd |-> k, seq |-> l.seq, left |-> l.left, rows |-> l.rows,
                  id |-> l.id, reply |-> l.reply]
          /\ to \in Preparatory <=> pc[c] \in Preparatory
          /\ l.seq \in Nat
          /\ to # "parameters" => pc[c] # "parameters" /\ l.seq = Number(c)
          /\ Place(to, l, sent'[c], answer)
  <2>1. CASE Ends(c, answer)
    BY <1>1, <2>1 DEF Ends
  <2>2. CASE Remains(c, answer)
    BY <1>1, <1>9, <2>2 DEF Remains
  <2> QED BY <2>1, <2>2 DEF Wrote
<1>15. CASE to = "reading" /\ n + 1 = Len(answer)
  BY <1>1, <1>2, <1>3, <1>4, <1>9, <1>12, <1>13, <1>15 DEF Spoken
<1>16. CASE ~(to = "reading" /\ n + 1 = Len(answer))
  <2>1. Part(k, sent'[c]) /\ to \in Answering
    BY <1>9, <1>14, <1>16
  <2>2. l.cmd = k
    BY <1>14, <1>16
  <2>3. Saying(to, l, sent'[c], answer)
    BY <1>4, <1>9, <1>11, <1>14, <1>16, <2>2 DEF Saying
  <2> QED BY <1>1, <1>2, <1>3, <1>4, <1>9, <1>12, <1>13, <2>1, <2>2, <2>3 DEF Spoken
<1> QED BY <1>15, <1>16

LEMMA PreparedNumber ==
  ASSUME NEW k \in Commands, k.op = "stmtPrepare" PROVE Placeholders[k.arg] \in Nat
  BY SessionAssumption DEF SessionAssumption

(* Every packet that is written is the next one of an answer. *)
LEMMA WriteSpeaks ==
  ASSUME TalkInv, NEW c \in Conns, WritePacket(c),
         pc = [d \in Conns |-> pc[d]], local = [d \in Conns |-> local[d]]
  PROVE  \E answer \in D!Answers(local[c].cmd) : Spoken(c, answer)
<1> DEFINE k == local[c].cmd
           h == sent[c]
<1>1. pc[c] \in Answering
  BY DEF WritePacket, WriteSingle, WriteCount, WriteColumn, WriteColumnsEOF, WriteRow, WriteRowsEOF,
     WritePrepared, WriteParameter, WriteParametersEOF, Write, Goto, Answering, Writing
<1>2. PICK answer \in D!Answers(k) : Saying(pc[c], local[c], h, answer)
  BY <1>1 DEF TalkInv, Talking
<1>3. /\ Place(pc[c], local[c], h, answer) /\ k \in Commands /\ Len(h) \in Nat
      /\ local[c] = [cmd |-> local[c].cmd, seq |-> local[c].seq, left |-> local[c].left,
                     rows |-> local[c].rows, id |-> local[c].id, reply |-> local[c].reply]
      /\ pc[c] \in Preparatory <=> k.op = "stmtPrepare"
  BY <1>2 DEF Saying, Heard
<1>4. Number(c) \in Nat
  BY <1>2, NumberIs
<1>5. MaxColumns \in Nat /\ MaxRows \in Nat
  BY SessionAssumption DEF SessionAssumption
<1>6. \A i \in Nat, j \in Nat : Len(D!ResultSet(i, j)) = i + j + 3
  BY ResultSetIs
<1>11. CASE WriteSingle(c)
  <2>1. /\ pc[c] = "single" /\ pc'[c] = "reading"
        /\ pc' = [pc EXCEPT ![c] = pc'[c]] /\ local' = [local EXCEPT ![c] = local'[c]]
        /\ UNCHANGED <<loop, store>>
        /\ sent' = [sent EXCEPT ![c] = Append(@, [kind |-> local[c].reply[1], arg |-> local[c].reply[2],
                                                  seq |-> Number(c)])]
    BY <1>11 DEF WriteSingle, Write, Goto
  <2>2. /\ h = <<>> /\ answer = <<local[c].reply>> /\ k.op # "stmtPrepare"
    BY <1>3, <2>1 DEF Place, Preparing, Preparatory
  <2>3. Len(answer) = 1 /\ Len(h) = 0 /\ answer[1] = local[c].reply
    BY <2>2
  <2>4. ASSUME NEW i \in 1 .. MaxColumns, NEW j \in 0 .. MaxRows PROVE answer # D!ResultSet(i, j)
    <3>1. i \in Nat /\ j \in Nat
      BY <1>5
    <3>2. Len(D!ResultSet(i, j)) = i + j + 3
      BY <3>1, ResultSetIs
    <3> QED BY <2>3, <3>1, <3>2
  <2>5. answer \in {<<<<"OK", 0>>>>, <<<<"ERR", 0>>>>, <<<<"TEXT", 0>>>>, <<<<"COUNT", 0>>>>, <<<<"ERR", 1>>>>}
    BY <1>2, <2>2, <2>4 DEF D!Answers, D!OnePacket
  <2>6. /\ answer[1] = <<answer[1][1], answer[1][2]>> /\ answer[1][1] \in Kinds /\ answer[1][2] \in Nat
    BY <2>5 DEF Kinds
  <2>7. Comes(c, answer) /\ Ends(c, answer) /\ Coming(c, answer) = local[c].reply
    BY <2>1, <2>3, <2>6 DEF Comes, Coming, Ends
  <2>8. Wrote(c, answer)
    BY <1>1, <1>2, <2>1, <2>7 DEF Wrote
  <2> QED BY <2>8, Speaks
<1>12. CASE WriteCount(c)
  <2>1. /\ pc[c] = "count" /\ pc'[c] = "columns" /\ local'[c] = Advance(c)
        /\ pc' = [pc EXCEPT ![c] = pc'[c]] /\ local' = [local EXCEPT ![c] = local'[c]]
        /\ UNCHANGED <<loop, store>>
        /\ sent' = [sent EXCEPT ![c] = Append(@, [kind |-> "COUNT", arg |-> local[c].left,
                                                  seq |-> Number(c)])]
    BY <1>12 DEF WriteCount, Write, Goto
  <2>2. PICK i \in 1 .. MaxColumns, j \in 0 .. MaxRows :
          h = <<>> /\ i = local[c].left /\ j = local[c].rows /\ answer = D!ResultSet(i, j)
    BY <1>3, <2>1 DEF Place, Preparing
  <2>3. i \in Nat /\ j \in Nat /\ i > 0
    BY <1>5
  <2>4. Len(answer) = i + j + 3 /\ answer[1] = <<"COUNT", i>> /\ Len(h) = 0
    BY <2>2, <2>3, ResultSetIs
  <2>5. /\ local'[c] = [cmd |-> k, seq |-> Number(c), left |-> i, rows |-> j,
                        id |-> local[c].id, reply |-> local[c].reply]
    BY <1>3, <2>1, <2>2 DEF Advance
  <2>6. ASSUME Len(sent'[c]) = Len(h) + 1 PROVE Place(pc'[c], local'[c], sent'[c], answer)
    <3>1. /\ local'[c].rows = j /\ local'[c].left = i /\ i \in 0 .. i
          /\ Len(sent'[c]) = 1 + i - i
      BY <2>3, <2>4, <2>5, <2>6
    <3> QED BY <2>1, <2>2, <3>1 DEF Place
  <2>7. /\ pc'[c] \in Answering /\ pc'[c] # "parameters" /\ pc[c] # "parameters"
        /\ pc'[c] \in Preparatory <=> pc[c] \in Preparatory
    BY <2>1 DEF Answering, Writing, Preparatory, Preparing
  <2>8. Comes(c, answer) /\ Coming(c, answer) = <<"COUNT", local[c].left>>
    BY <2>2, <2>3, <2>4, <2>7 DEF Comes, Coming, Kinds
  <2>9. Remains(c, answer)
    BY <1>4, <2>3, <2>4, <2>5, <2>6, <2>7 DEF Remains
  <2>10. Wrote(c, answer)
    BY <1>1, <1>2, <2>1, <2>8, <2>9 DEF Wrote
  <2> QED BY <2>10, Speaks
<1>13. CASE WriteColumn(c)
  <2>1. /\ pc[c] = "columns" /\ pc'[c] = "columns" /\ local'[c] = [Advance(c) EXCEPT !.left = @ - 1]
        /\ pc' = [pc EXCEPT ![c] = pc'[c]] /\ local' = [local EXCEPT ![c] = local'[c]]
        /\ UNCHANGED <<loop, store>>
        /\ sent' = [sent EXCEPT ![c] = Append(@, [kind |-> "DEF", arg |-> 0, seq |-> Number(c)])]
    BY <1>13 DEF WriteColumn, Write, Goto
  <2>2. PICK i \in 1 .. MaxColumns, j \in 0 .. MaxRows :
          /\ j = local[c].rows /\ answer = D!ResultSet(i, j) /\ local[c].left \in 0 .. i
          /\ Len(h) = 1 + i - local[c].left
    BY <1>3, <2>1 DEF Place, Preparing
  <2>3. i \in Nat /\ j \in Nat /\ i > 0 /\ local[c].left \in Nat /\ local[c].left > 0
    BY <1>5, <2>2, <1>13 DEF WriteColumn
  <2>4. Len(answer) \in Nat /\ Len(h) + 1 < Len(answer) /\ answer[Len(h) + 1] = <<"DEF", 0>>
    <3>1. Len(h) + 1 \in 2 .. i + 1
      BY <2>2, <2>3
    <3>2. Len(answer) = i + j + 3
      BY <2>2, <2>3, ResultSetIs
    <3>3. answer[Len(h) + 1] = <<"DEF", 0>>
      BY <2>2, <2>3, <3>1, ResultSetIs
    <3> QED BY <2>3, <3>1, <3>2, <3>3
  <2>5. local'[c] = [cmd |-> k, seq |-> Number(c), left |-> local[c].left - 1, rows |-> local[c].rows,
                     id |-> local[c].id, reply |-> local[c].reply]
    BY <1>3, <2>1 DEF Advance
  <2>6. ASSUME Len(sent'[c]) = Len(h) + 1 PROVE Place(pc'[c], local'[c], sent'[c], answer)
    <3>1. /\ local'[c].rows = j /\ local'[c].left \in 0 .. i
          /\ Len(sent'[c]) = 1 + i - local'[c].left
      BY <2>2, <2>3, <2>5, <2>6
    <3> QED BY <2>1, <2>2, <3>1 DEF Place
  <2>7. /\ pc'[c] \in Answering /\ pc[c] # "parameters" /\ pc'[c] # "parameters"
        /\ pc'[c] \in Preparatory <=> pc[c] \in Preparatory
    BY <2>1 DEF Answering, Writing, Preparatory, Preparing
  <2>8. Comes(c, answer) /\ Coming(c, answer) = <<"DEF", 0>>
    BY <1>3, <2>1, <2>4 DEF Comes, Coming, Kinds
  <2>9. Remains(c, answer)
    BY <1>4, <2>4, <2>5, <2>6, <2>7 DEF Remains
  <2>10. Wrote(c, answer)
    BY <1>1, <1>2, <2>1, <2>8, <2>9 DEF Wrote
  <2> QED BY <2>10, Speaks
<1>14. CASE WriteColumnsEOF(c)
  <2>1. /\ pc[c] = "columns" /\ pc'[c] = "rows" /\ local'[c] = Advance(c)
        /\ pc' = [pc EXCEPT ![c] = pc'[c]] /\ local' = [local EXCEPT ![c] = local'[c]]
        /\ UNCHANGED <<loop, store>>
        /\ sent' = [sent EXCEPT ![c] = Append(@, [kind |-> "EOF", arg |-> 0, seq |-> Number(c)])]
    BY <1>14 DEF WriteColumnsEOF, Write, Goto
  <2>2. PICK i \in 1 .. MaxColumns, j \in 0 .. MaxRows :
          /\ j = local[c].rows /\ answer = D!ResultSet(i, j) /\ local[c].left \in 0 .. i
          /\ Len(h) = 1 + i - local[c].left
    BY <1>3, <2>1 DEF Place, Preparing
  <2>3. i \in Nat /\ j \in Nat /\ i > 0 /\ local[c].left = 0
    BY <1>5, <2>2, <1>14 DEF WriteColumnsEOF
  <2>4. Len(answer) \in Nat /\ Len(h) + 1 < Len(answer) /\ answer[Len(h) + 1] = <<"EOF", 0>>
    <3>1. Len(h) + 1 = i + 2
      BY <2>2, <2>3
    <3>2. Len(answer) = i + j + 3
      BY <2>2, <2>3, ResultSetIs
    <3>3. answer[i + 2] = <<"EOF", 0>>
      BY <2>2, <2>3, ResultSetIs
    <3> QED BY <2>3, <3>1, <3>2, <3>3
  <2>5. local'[c] = [cmd |-> k, seq |-> Number(c), left |-> local[c].left, rows |-> local[c].rows,
                     id |-> local[c].id, reply |-> local[c].reply]
    BY <1>3, <2>1 DEF Advance
  <2>6. ASSUME Len(sent'[c]) = Len(h) + 1 PROVE Place(pc'[c], local'[c], sent'[c], answer)
    <3>1. /\ local'[c].rows \in 0 .. j /\ Len(sent'[c]) = 2 + i + j - local'[c].rows
      BY <2>2, <2>3, <2>5, <2>6
    <3> QED BY <2>1, <2>2, <3>1 DEF Place
  <2>7. /\ pc'[c] \in Answering /\ pc[c] # "parameters" /\ pc'[c] # "parameters"
        /\ pc'[c] \in Preparatory <=> pc[c] \in Preparatory
    BY <2>1 DEF Answering, Writing, Preparatory, Preparing
  <2>8. Comes(c, answer) /\ Coming(c, answer) = <<"EOF", 0>>
    BY <1>3, <2>1, <2>4 DEF Comes, Coming, Kinds
  <2>9. Remains(c, answer)
    BY <1>4, <2>4, <2>5, <2>6, <2>7 DEF Remains
  <2>10. Wrote(c, answer)
    BY <1>1, <1>2, <2>1, <2>8, <2>9 DEF Wrote
  <2> QED BY <2>10, Speaks
<1>15. CASE WriteRow(c)
  <2>1. /\ pc[c] = "rows" /\ pc'[c] = "rows" /\ local'[c] = [Advance(c) EXCEPT !.rows = @ - 1]
        /\ pc' = [pc EXCEPT ![c] = pc'[c]] /\ local' = [local EXCEPT ![c] = local'[c]]
        /\ UNCHANGED <<loop, store>>
        /\ sent' = [sent EXCEPT ![c] = Append(@, [kind |-> "ROW", arg |-> 0, seq |-> Number(c)])]
    BY <1>15 DEF WriteRow, Write, Goto
  <2>2. PICK i \in 1 .. MaxColumns, j \in 0 .. MaxRows :
          /\ answer = D!ResultSet(i, j) /\ local[c].rows \in 0 .. j
          /\ Len(h) = 2 + i + j - local[c].rows
    BY <1>3, <2>1 DEF Place, Preparing
  <2>3. i \in Nat /\ j \in Nat /\ i > 0 /\ local[c].rows \in Nat /\ local[c].rows > 0
    BY <1>5, <2>2, <1>15 DEF WriteRow
  <2>4. Len(answer) \in Nat /\ Len(h) + 1 < Len(answer) /\ answer[Len(h) + 1] = <<"ROW", 0>>
    <3>1. Len(h) + 1 \in i + 3 .. i + j + 2
      BY <2>2, <2>3
    <3>2. Len(answer) = i + j + 3
      BY <2>2, <2>3, ResultSetIs
    <3>3. answer[Len(h) + 1] = <<"ROW", 0>>
      BY <2>2, <2>3, <3>1, ResultSetIs
    <3> QED BY <2>3, <3>1, <3>2, <3>3
  <2>5. local'[c] = [cmd |-> k, seq |-> Number(c), left |-> local[c].left, rows |-> local[c].rows - 1,
                     id |-> local[c].id, reply |-> local[c].reply]
    BY <1>3, <2>1 DEF Advance
  <2>6. ASSUME Len(sent'[c]) = Len(h) + 1 PROVE Place(pc'[c], local'[c], sent'[c], answer)
    <3>1. /\ local'[c].rows \in 0 .. j /\ Len(sent'[c]) = 2 + i + j - local'[c].rows
      BY <2>2, <2>3, <2>5, <2>6
    <3> QED BY <2>1, <2>2, <3>1 DEF Place
  <2>7. /\ pc'[c] \in Answering /\ pc[c] # "parameters" /\ pc'[c] # "parameters"
        /\ pc'[c] \in Preparatory <=> pc[c] \in Preparatory
    BY <2>1 DEF Answering, Writing, Preparatory, Preparing
  <2>8. Comes(c, answer) /\ Coming(c, answer) = <<"ROW", 0>>
    BY <1>3, <2>1, <2>4 DEF Comes, Coming, Kinds
  <2>9. Remains(c, answer)
    BY <1>4, <2>4, <2>5, <2>6, <2>7 DEF Remains
  <2>10. Wrote(c, answer)
    BY <1>1, <1>2, <2>1, <2>8, <2>9 DEF Wrote
  <2> QED BY <2>10, Speaks
<1>16. CASE WriteRowsEOF(c)
  <2>1. /\ pc[c] = "rows" /\ pc'[c] = "reading" /\ local'[c] = NoLocals
        /\ pc' = [pc EXCEPT ![c] = pc'[c]] /\ local' = [local EXCEPT ![c] = local'[c]]
        /\ UNCHANGED <<loop, store>>
        /\ sent' = [sent EXCEPT ![c] = Append(@, [kind |-> "EOF", arg |-> 0, seq |-> Number(c)])]
    BY <1>16 DEF WriteRowsEOF, Write, Goto
  <2>2. PICK i \in 1 .. MaxColumns, j \in 0 .. MaxRows :
          /\ answer = D!ResultSet(i, j) /\ local[c].rows \in 0 .. j
          /\ Len(h) = 2 + i + j - local[c].rows
    BY <1>3, <2>1 DEF Place, Preparing
  <2>3. i \in Nat /\ j \in Nat /\ i > 0 /\ local[c].rows = 0
    BY <1>5, <2>2, <1>16 DEF WriteRowsEOF
  <2>4. Len(answer) \in Nat /\ Len(h) + 1 = Len(answer) /\ answer[Len(h) + 1] = <<"EOF", 0>>
    <3>1. Len(h) + 1 = i + j + 3
      BY <2>2, <2>3
    <3>2. Len(answer) = i + j + 3
      BY <2>2, <2>3, ResultSetIs
    <3>3. answer[i + j + 3] = <<"EOF", 0>>
      BY <2>2, <2>3, ResultSetIs
    <3> QED BY <2>3, <3>1, <3>2, <3>3
  <2>8. Comes(c, answer) /\ Coming(c, answer) = <<"EOF", 0>>
    BY <1>3, <2>1, <2>4 DEF Comes, Coming, Kinds
  <2>9. Ends(c, answer)
    BY <2>1, <2>4 DEF Ends
  <2>10. Wrote(c, answer)
    BY <1>1, <1>2, <2>1, <2>8, <2>9 DEF Wrote
  <2> QED BY <2>10, Speaks
<1>17. CASE WritePrepared(c)
  <2> DEFINE i == Placeholders[k.arg]
  <2>1. /\ pc[c] = "prepared" /\ pc'[c] = IF i = 0 THEN "reading" ELSE "parameters"
        /\ local'[c] = IF i = 0 THEN NoLocals ELSE [Advance(c) EXCEPT !.left = i]
        /\ pc' = [pc EXCEPT ![c] = pc'[c]] /\ local' = [local EXCEPT ![c] = local'[c]]
        /\ UNCHANGED <<loop, store>>
        /\ sent' = [sent EXCEPT ![c] = Append(@, [kind |-> "PREPARED", arg |-> i, seq |-> Number(c)])]
    BY <1>17 DEF WritePrepared, Write, Goto
  <2>2. h = <<>> /\ answer = D!Preparation(i) /\ k.op = "stmtPrepare"
    BY <1>3, <2>1 DEF Place, Preparatory
  <2>3. i \in Nat
    BY <1>3, <2>2, PreparedNumber
  <2> HIDE DEF i
  <2>4. /\ Len(answer) = IF i = 0 THEN 1 ELSE i + 2
        /\ answer[1] = <<"PREPARED", i>> /\ Len(h) = 0
    BY <2>2, <2>3, PreparationIs
  <2>5. Comes(c, answer) /\ Coming(c, answer) = <<"PREPARED", i>>
    BY <2>1, <2>3, <2>4 DEF Comes, Coming, Kinds
  <2>6. ASSUME i = 0 PROVE Ends(c, answer)
    BY <2>1, <2>4, <2>6 DEF Ends
  <2>7. ASSUME i # 0 PROVE Remains(c, answer)
    <3>1. local'[c] = [cmd |-> k, seq |-> Number(c), left |-> i, rows |-> local[c].rows,
                       id |-> local[c].id, reply |-> local[c].reply]
      BY <1>3, <2>1, <2>7 DEF Advance
    <3>2. ASSUME Len(sent'[c]) = Len(h) + 1 PROVE Place(pc'[c], local'[c], sent'[c], answer)
      <4>1. /\ local'[c].left = i /\ i \in 0 .. i /\ i > 0 /\ Len(sent'[c]) = 1 + i - i
            /\ Placeholders[local'[c].cmd.arg] = i
        BY <2>3, <2>4, <2>7, <3>1, <3>2 DEF i
      <4> QED BY <2>1, <2>2, <2>7, <4>1 DEF Place
    <3>3. pc'[c] \in Answering /\ pc'[c] \in Preparatory /\ pc[c] \in Preparatory
      BY <2>1, <2>7 DEF Answering, Writing, Preparatory
    <3>4. Len(h) + 1 < Len(answer) /\ pc'[c] = "parameters" /\ pc[c] # "parameters"
      BY <2>1, <2>3, <2>4, <2>7
    <3>5. local'[c].seq = Number(c)
      BY <3>1
    <3> QED BY <1>4, <3>1, <3>2, <3>3, <3>4, <3>5 DEF Remains
  <2>8. Wrote(c, answer)
    BY <1>1, <1>2, <2>1, <2>5, <2>6, <2>7 DEF Wrote
  <2> QED BY <2>8, Speaks
<1>18. CASE WriteParameter(c)
  <2>1. /\ pc[c] = "parameters" /\ pc'[c] = "parameters" /\ local'[c] = [local[c] EXCEPT !.left = @ - 1]
        /\ pc' = [pc EXCEPT ![c] = pc'[c]] /\ local' = [local EXCEPT ![c] = local'[c]]
        /\ UNCHANGED <<loop, store>>
        /\ sent' = [sent EXCEPT ![c] = Append(@, [kind |-> "DEF", arg |-> 0, seq |-> Number(c)])]
    BY <1>18 DEF WriteParameter, Write, Goto
  <2>2. PICK i \in Nat :
          /\ i = Placeholders[k.arg] /\ i > 0 /\ answer = D!Preparation(i)
          /\ local[c].left \in 0 .. i /\ Len(h) = 1 + i - local[c].left
    <3>1. Placeholders[k.arg] \in Nat
      BY <1>3, <2>1, PreparedNumber DEF Preparatory
    <3> QED BY <1>3, <2>1, <3>1 DEF Place, Preparing
  <2>3. local[c].left \in Nat /\ local[c].left > 0
    BY <2>2, <1>18 DEF WriteParameter
  <2>4. Len(answer) \in Nat /\ Len(h) + 1 < Len(answer) /\ answer[Len(h) + 1] = <<"DEF", 0>> /\ Len(h) > 0
    <3>1. Len(h) + 1 \in 2 .. i + 1
      BY <2>2, <2>3
    <3>2. Len(answer) = i + 2
      BY <2>2, PreparationIs
    <3>3. answer[Len(h) + 1] = <<"DEF", 0>>
      BY <2>2, <2>3, <3>1, PreparationIs
    <3> QED BY <2>2, <2>3, <3>1, <3>2, <3>3
  <2>5. local'[c] = [cmd |-> k, seq |-> local[c].seq, left |-> local[c].left - 1, rows |-> local[c].rows,
                     id |-> local[c].id, reply |-> local[c].reply]
    BY <1>3, <2>1 DEF Advance
  <2>6. ASSUME Len(sent'[c]) = Len(h) + 1 PROVE Place(pc'[c], local'[c], sent'[c], answer)
    <3>1. /\ local'[c].left \in 0 .. i /\ Len(sent'[c]) = 1 + i - local'[c].left
          /\ local'[c].cmd = k
      BY <2>2, <2>3, <2>5, <2>6
    <3> QED BY <2>1, <2>2, <3>1 DEF Place
  <2>7. /\ pc'[c] \in Answering
        /\ pc'[c] \in Preparatory <=> pc[c] \in Preparatory
    BY <2>1 DEF Answering, Writing, Preparatory, Preparing
  <2>8. Comes(c, answer) /\ Coming(c, answer) = <<"DEF", 0>>
    BY <1>3, <2>1, <2>4 DEF Comes, Coming, Kinds
  <2>9. Remains(c, answer)
    <3>1. local[c].seq \in Nat
      BY <1>2 DEF Saying
    <3> QED BY <2>1, <2>4, <2>5, <2>6, <2>7, <3>1 DEF Remains
  <2>10. Wrote(c, answer)
    BY <1>1, <1>2, <2>1, <2>8, <2>9 DEF Wrote
  <2> QED BY <2>10, Speaks
<1>19. CASE WriteParametersEOF(c)
  <2>1. /\ pc[c] = "parameters" /\ pc'[c] = "reading" /\ local'[c] = NoLocals
        /\ pc' = [pc EXCEPT ![c] = pc'[c]] /\ local' = [local EXCEPT ![c] = local'[c]]
        /\ UNCHANGED <<loop, store>>
        /\ sent' = [sent EXCEPT ![c] = Append(@, [kind |-> "EOF", arg |-> 0, seq |-> Number(c)])]
    BY <1>19 DEF WriteParametersEOF, Write, Goto
  <2>2. PICK i \in Nat :
          /\ i = Placeholders[k.arg] /\ i > 0 /\ answer = D!Preparation(i)
          /\ local[c].left \in 0 .. i /\ Len(h) = 1 + i - local[c].left
    <3>1. Placeholders[k.arg] \in Nat
      BY <1>3, <2>1, PreparedNumber DEF Preparatory
    <3> QED BY <1>3, <2>1, <3>1 DEF Place, Preparing
  <2>3. local[c].left \in Nat /\ local[c].left = 0
    BY <2>2, <1>19 DEF WriteParametersEOF
  <2>4. Len(answer) \in Nat /\ Len(h) + 1 = Len(answer) /\ answer[Len(h) + 1] = <<"EOF", 0>> /\ Len(h) > 0
    <3>1. Len(h) + 1 = i + 2
      BY <2>2, <2>3
    <3>2. Len(answer) = i + 2
      BY <2>2, PreparationIs
    <3>3. answer[Len(h) + 1] = <<"EOF", 0>>
      BY <2>2, <2>3, <3>1, PreparationIs
    <3> QED BY <2>2, <2>3, <3>1, <3>2, <3>3
  <2>8. Comes(c, answer) /\ Coming(c, answer) = <<"EOF", 0>>
    BY <1>3, <2>1, <2>4 DEF Comes, Coming, Kinds
  <2>9. Ends(c, answer)
    BY <2>1, <2>4 DEF Ends
  <2>10. Wrote(c, answer)
    BY <1>1, <1>2, <2>1, <2>8, <2>9 DEF Wrote
  <2> QED BY <2>10, Speaks
<1> QED
  BY <1>11, <1>12, <1>13, <1>14, <1>15, <1>16, <1>17, <1>18, <1>19 DEF WritePacket
-----------------------------------------------------------------------------
(* A goroutine has taken a command and has all of an answer to write. *)
Begun(c) ==
  /\ pc[c] = "reading" /\ net[c].packet \in Commands
  /\ pc' = [pc EXCEPT ![c] = pc'[c]] /\ pc'[c] \in Answering
  /\ local' = [local EXCEPT ![c] = local'[c]] /\ local'[c].cmd = net[c].packet
  /\ sent' = [sent EXCEPT ![c] = <<>>]
  /\ UNCHANGED <<loop, statements>>
  /\ \E answer \in D!Answers(local'[c].cmd) : Saying(pc'[c], local'[c], <<>>, answer)

Taken(c) ==
  /\ pc[c] = "reading" /\ net[c].packet \in Commands
  /\ pc = [d \in Conns |-> pc[d]] /\ local = [d \in Conns |-> local[d]]
  /\ UNCHANGED <<loop, statements>>

LEMMA SmallNumber ==
  ASSUME NEW k \in Commands PROVE k.seq \in Nat /\ k.seq = (k.seq + 0) % SeqSize
<1>1. SeqSize \in Nat \ {0} /\ k.seq \in 0 .. SeqSize - 1
  BY SessionAssumption DEF SessionAssumption
<1>2. (SeqSize * 0 + k.seq) % SeqSize = k.seq
  BY <1>1, RemainderIs
<1>3. SeqSize * 0 + k.seq = k.seq + 0 /\ k.seq \in Nat
  BY <1>1
<1> QED BY <1>2, <1>3

LEMMA AnswerIsBegun ==
  ASSUME NEW c \in Conns, Taken(c), NEW to, NEW left, NEW rows, NEW id, NEW reply,
         Answer(c, to, left, rows, id, reply),
         to \in {"single", "count", "assigned"},
         to = "assigned" <=> net[c].packet.op = "stmtPrepare",
         NEW answer \in D!Answers(net[c].packet),
         LET l == [cmd |-> net[c].packet, seq |-> net[c].packet.seq, left |-> left, rows |-> rows,
                   id |-> id, reply |-> reply]
         IN Place(to, l, <<>>, answer)
  PROVE  Begun(c)
<1>1. PICK k, l : /\ k = net[c].packet
                  /\ l = [cmd |-> k, seq |-> k.seq, left |-> left, rows |-> rows, id |-> id, reply |-> reply]
  OBVIOUS
<1>2. /\ pc' = [pc EXCEPT ![c] = to] /\ local' = [local EXCEPT ![c] = l]
      /\ sent' = [sent EXCEPT ![c] = <<>>]
  BY <1>1 DEF Answer
<1>3. pc'[c] = to /\ local'[c] = l /\ l.cmd = k /\ l.seq = k.seq
  BY <1>1, <1>2 DEF Taken
<1>4. Place(to, l, <<>>, answer)
  BY <1>1
<1>5. Heard(k, <<>>, answer)
  BY DEF Heard
<1>6. k \in Commands /\ k.seq \in Nat /\ k.seq = (k.seq + 0) % SeqSize
  BY <1>1, SmallNumber DEF Taken
<1>7. to \in Answering /\ (to \in Preparatory <=> to = "assigned")
  BY DEF Answering, Writing, Preparing, Preparatory
<1>8. Len(<<>>) = 0
  OBVIOUS
<1>9. Saying(to, l, <<>>, answer)
  BY <1>1, <1>3, <1>4, <1>5, <1>6, <1>7, <1>8 DEF Saying
<1> QED BY <1>1, <1>2, <1>3, <1>7, <1>9 DEF Begun, Taken

LEMMA Acknowledged ==
  ASSUME NEW c \in Conns, Taken(c), NEW kind, NEW arg, Acknowledge(c, kind, arg),
         net[c].packet.op # "stmtPrepare", <<<<kind, arg>>>> \in D!Answers(net[c].packet)
  PROVE  Begun(c)
<1> DEFINE reply == <<kind, arg>>
           l == [cmd |-> net[c].packet, seq |-> net[c].packet.seq, left |-> 0, rows |-> 0,
                 id |-> 0, reply |-> reply]
<1>1. Answer(c, "single", 0, 0, 0, reply)
  BY DEF Acknowledge
<1>2. Place("single", l, <<>>, <<reply>>)
  BY DEF Place
<1> QED BY <1>1, <1>2, AnswerIsBegun

Suits(sql) ==
  \A r \in Results[sql] : ~r.error => r.columns \in 0 .. MaxColumns /\ r.rows \in 0 .. MaxRows

LEMMA Executed ==
  ASSUME NEW c \in Conns, Taken(c), NEW sql, Execute(c, sql), Suits(sql),
         net[c].packet.op \in {"query", "stmtExecute"}
  PROVE  Begun(c)
<1> DEFINE k == net[c].packet
<1>1. /\ <<<<"OK", 0>>>> \in D!Answers(k) /\ <<<<"ERR", 0>>>> \in D!Answers(k)
      /\ \A n \in 1 .. MaxColumns, m \in 0 .. MaxRows : D!ResultSet(n, m) \in D!Answers(k)
  BY DEF D!Answers
<1>2. k.op # "stmtPrepare"
  OBVIOUS
<1>3. PICK r \in Results[sql] :
        IF r.error THEN Acknowledge(c, "ERR", 0)
        ELSE IF r.columns = 0 THEN Acknowledge(c, "OK", 0)
        ELSE Answer(c, "count", r.columns, r.rows, 0, <<"OK", 0>>)
  BY DEF Execute
<1>4. CASE Acknowledge(c, "ERR", 0)
  BY <1>1, <1>2, <1>4, Acknowledged
<1>5. CASE Acknowledge(c, "OK", 0)
  BY <1>1, <1>2, <1>5, Acknowledged
<1>6. CASE ~r.error /\ r.columns # 0 /\ Answer(c, "count", r.columns, r.rows, 0, <<"OK", 0>>)
  <2>1. MaxColumns \in Nat /\ r.columns \in 0 .. MaxColumns /\ r.rows \in 0 .. MaxRows
    BY <1>6, SessionAssumption DEF Suits, SessionAssumption
  <2>2. r.columns \in 1 .. MaxColumns /\ r.rows \in 0 .. MaxRows
    BY <1>6, <2>1
  <2> DEFINE l == [cmd |-> k, seq |-> k.seq, left |-> r.columns, rows |-> r.rows, id |-> 0,
                   reply |-> <<"OK", 0>>]
             answer == D!ResultSet(r.columns, r.rows)
  <2>3. Place("count", l, <<>>, answer)
    BY <2>2 DEF Place
  <2>4. answer \in D!Answers(k)
    BY <1>1, <2>2
  <2> QED BY <1>2, <1>6, <2>3, <2>4, AnswerIsBegun
<1> QED BY <1>3, <1>4, <1>5, <1>6

(* Every command that is answered by a result or a packet begins an answer. *)
LEMMA AnswersBegin ==
  ASSUME TalkInv, Shapes, NEW c \in Conns,
         AnswerPlain(c) \/ Query(c) \/ StmtExecute(c) \/ StmtPrepare(c)
  PROVE  Begun(c)
<1> DEFINE k == net[c].packet
<1>1. Taken(c)
  BY DEF AnswerPlain, Query, StmtExecute, StmtPrepare, Take, Taken, Shapes, store
<1>2. k \in Commands
  BY <1>1 DEF Taken
<1>3. CASE AnswerPlain(c)
  <2>1. k.op \in PlainOK \cup Texts \cup {"initDB", "fieldList", "unsupported"}
    BY <1>3 DEF AnswerPlain, Take
  <2>2. k.op # "stmtPrepare" /\ k.op \notin {"query", "stmtExecute"}
    BY <2>1 DEF PlainOK, Texts
  <2>3. D!Answers(k) = D!OnePacket
    BY <2>2 DEF D!Answers
  <2>4. PICK kind \in {"OK", "TEXT", "ERR", "COUNT"} : Acknowledge(c, kind, 0)
    <3>1. CASE k.op \in PlainOK
      BY <1>3, <3>1 DEF AnswerPlain, PlainOK, Texts
    <3>2. CASE k.op \in Texts
      BY <1>3, <3>2 DEF AnswerPlain, PlainOK, Texts
    <3>3. CASE k.op = "initDB"
      BY <1>3, <3>3 DEF AnswerPlain, PlainOK, Texts
    <3>4. CASE k.op = "fieldList"
      BY <1>3, <3>4 DEF AnswerPlain, PlainOK, Texts
    <3>5. CASE k.op = "unsupported"
      BY <1>3, <3>5 DEF AnswerPlain, PlainOK, Texts
    <3> QED BY <2>1, <3>1, <3>2, <3>3, <3>4, <3>5
  <2>5. <<<<kind, 0>>>> \in D!Answers(k)
    BY <2>3 DEF D!OnePacket
  <2> QED BY <1>1, <2>2, <2>4, <2>5, Acknowledged
<1>4. CASE Query(c)
  <2>1. k.op = "query"
    BY <1>4 DEF Query, Take
  <2>2. Suits(k.arg)
    BY <1>2, <2>1, SessionAssumption DEF SessionAssumption, Suits
  <2>3. PICK sql : sql = k.arg
    OBVIOUS
  <2>4. Execute(c, sql)
    BY <1>4, <2>3 DEF Query
  <2> QED BY <1>1, <2>1, <2>2, <2>3, <2>4, Executed
<1>5. CASE StmtExecute(c)
  <2> DEFINE id == k.id
  <2>1. k.op = "stmtExecute"
    BY <1>5 DEF StmtExecute, Take
  <2>2. CASE id \in DOMAIN statements
    <3>1. PICK q \in Commands : q.op = "stmtPrepare" /\ statements[id] = q.arg
      BY <2>2 DEF TalkInv
    <3>2. PICK sql : sql = statements[id]
      OBVIOUS
    <3>3. Suits(sql)
      BY <3>1, <3>2, SessionAssumption DEF SessionAssumption, Suits
    <3>4. Execute(c, sql)
      BY <1>5, <2>2, <3>2 DEF StmtExecute
    <3> QED BY <1>1, <2>1, <3>3, <3>4, Executed
  <2>3. CASE id \notin DOMAIN statements
    <3>1. Acknowledge(c, "ERR", 1)
      BY <1>5, <2>3 DEF StmtExecute
    <3>2. <<<<"ERR", 1>>>> \in D!Answers(k)
      BY <2>1 DEF D!Answers
    <3> QED BY <1>1, <2>1, <3>1, <3>2, Acknowledged
  <2> QED BY <2>2, <2>3
<1>6. CASE StmtPrepare(c)
  <2>1. k.op = "stmtPrepare"
    BY <1>6 DEF StmtPrepare, Take
  <2>2. PICK id, reply : id = NewId(c) /\ reply = <<"OK", 0>>
    OBVIOUS
  <2>3. Answer(c, "assigned", 0, 0, id, reply)
    BY <1>6, <2>2 DEF StmtPrepare
  <2>4. PICK answer : answer = D!Preparation(Placeholders[k.arg])
    OBVIOUS
  <2>5. answer \in D!Answers(k)
    BY <2>1, <2>4 DEF D!Answers
  <2> DEFINE l == [cmd |-> k, seq |-> k.seq, left |-> 0, rows |-> 0, id |-> id, reply |-> reply]
  <2>6. Place("assigned", l, <<>>, answer)
    BY <2>4 DEF Place, Preparing
  <2> QED BY <1>1, <2>1, <2>3, <2>5, <2>6, AnswerIsBegun
<1> QED BY <1>3, <1>4, <1>5, <1>6

(* A step that no answer has a part in. *)
Quiet(c) ==
  /\ pc' = [pc EXCEPT ![c] = pc'[c]] /\ local' = [local EXCEPT ![c] = local'[c]] /\ sent' = sent
  /\ \A d \in Conns : loop'[d] > 0 <=> loop[d] > 0
  /\ pc'[c] \notin Outside => pc[c] \notin Outside
  /\ \/ pc'[c] = pc[c] /\ local'[c] = local[c]
     \/ pc[c] \notin Answering /\ pc'[c] \notin Answering
     \/ pc[c] \in Preparing /\ pc'[c] \in Preparing \cup {"prepared"} /\ local'[c] = local[c]
  /\ \A i \in DOMAIN statements' :
       \/ i \in DOMAIN statements /\ statements'[i] = statements[i]
       \/ pc[c] = "storing" /\ statements'[i] = local[c].cmd.arg

LEMMA QuietSteps ==
  ASSUME Shapes, NEW c \in Conns,
         \/ Login(c) \/ Send(c) \/ Depart(c) \/ Accept(c) \/ Greet(c) \/ Admit(c)
         \/ ReturnToServer(c) \/ BeginStore(c) \/ EndStore(c) \/ StmtClose(c) \/ EndDelete(c)
  PROVE  Quiet(c)
<1> USE DEF Shapes, Quiet, store, Outside, Answering, Writing, Preparing
<1>1. CASE Login(c) \/ Send(c) \/ Depart(c)
  BY <1>1 DEF Login, Send, Depart
<1>2. CASE Accept(c)
  BY <1>2 DEF Accept, Goto
<1>3. CASE Greet(c)
  BY <1>3 DEF Greet, Goto
<1>4. CASE Admit(c)
  BY <1>4 DEF Admit, Goto
<1>5. CASE ReturnToServer(c)
  BY <1>5 DEF ReturnToServer, Take
<1>6. CASE BeginStore(c)
  BY <1>6 DEF BeginStore, Goto
<1>7. CASE EndStore(c)
  BY <1>7 DEF EndStore, Goto
<1>8. CASE StmtClose(c)
  BY <1>8 DEF StmtClose, Take
<1>9. CASE EndDelete(c)
  BY <1>9 DEF EndDelete, Goto
<1> QED BY <1>1, <1>2, <1>3, <1>4, <1>5, <1>6, <1>7, <1>8, <1>9

LEMMA StepKinds ==
  ASSUME TalkInv, Shapes, NEW c \in Conns,
         \/ Login(c) \/ Send(c) \/ Depart(c) \/ Accept(c) \/ Serve(c) \/ Expire(c) \/ MapRace(c)
  PROVE  \/ Quiet(c) \/ Begun(c) \/ Welcome(c) \/ Close(c) \/ MapRace(c)
         \/ \E answer \in D!Answers(local[c].cmd) : Spoken(c, answer)
<1>1. CASE Refuse(c) \/ EndSecondSession(c) \/ WriteFails(c) \/ HangUp(c) \/ Expire(c)
  BY <1>1 DEF Refuse, EndSecondSession, WriteFails, HangUp, Expire
<1>2. CASE WritePacket(c)
  BY <1>2, WriteSpeaks DEF Shapes
<1>3. CASE AnswerPlain(c) \/ Query(c) \/ StmtExecute(c) \/ StmtPrepare(c)
  BY <1>3, AnswersBegin
<1>4. CASE \/ Login(c) \/ Send(c) \/ Depart(c) \/ Accept(c) \/ Greet(c) \/ Admit(c)
           \/ ReturnToServer(c) \/ BeginStore(c) \/ EndStore(c) \/ StmtClose(c) \/ EndDelete(c)
  BY <1>4, QuietSteps
<1> QED BY <1>1, <1>2, <1>3, <1>4 DEF Serve, Handshake, Handle
-----------------------------------------------------------------------------
LEMMA TalkInit == Init => TalkInv
<1> SUFFICES ASSUME Init PROVE TalkInv
  OBVIOUS
<1>1. \A c \in Conns : pc[c] = "listening" /\ pc[c] \in Outside /\ pc[c] \notin Answering
  BY DEF Init, Outside, Answering, Writing, Preparing
<1>2. sent = [c \in Conns |-> sent[c]] /\ DOMAIN statements = {}
  BY DEF Init
<1> QED BY <1>1, <1>2 DEF TalkInv, Talking

LEMMA QuietTalk ==
  ASSUME TalkInv, Shapes, NEW c \in Conns, Quiet(c)
  PROVE  TalkInv'
<1>1. sent' = [d \in Conns |-> sent'[d]]
  BY DEF Quiet, TalkInv
<1>2. ASSUME NEW d \in Conns PROVE pc'[d] \notin Outside => loop'[d] > 0
  BY DEF Quiet, TalkInv, Shapes
<1>3. ASSUME NEW i \in DOMAIN statements'
      PROVE  \E k \in Commands : k.op = "stmtPrepare" /\ statements'[i] = k.arg
  <2>1. CASE i \in DOMAIN statements /\ statements'[i] = statements[i]
    BY <2>1 DEF TalkInv
  <2>2. CASE pc[c] = "storing" /\ statements'[i] = local[c].cmd.arg
    <3>1. pc[c] \in Answering /\ pc[c] \in Preparatory
      BY <2>2 DEF Answering, Preparing, Preparatory
    <3>2. local[c].cmd \in Commands /\ local[c].cmd.op = "stmtPrepare"
      BY <3>1 DEF TalkInv, Talking, Saying
    <3> QED BY <2>2, <3>2
  <2> QED BY <2>1, <2>2 DEF Quiet
<1>4. ASSUME NEW d \in Conns PROVE Talking(pc'[d], local'[d], sent'[d])
  <2>1. CASE d # c \/ (pc'[c] = pc[c] /\ local'[c] = local[c])
    <3>1. pc'[d] = pc[d] /\ local'[d] = local[d] /\ sent'[d] = sent[d]
      BY <2>1 DEF Quiet, Shapes
    <3> QED BY <3>1 DEF TalkInv
  <2>2. CASE d = c /\ pc[c] \notin Answering /\ pc'[c] \notin Answering
    BY <2>2 DEF Talking
  <2>3. CASE d = c /\ pc[c] \in Preparing /\ pc'[c] \in Preparing \cup {"prepared"} /\ local'[c] = local[c]
    <3>1. PICK answer \in D!Answers(local[c].cmd) : Saying(pc[c], local[c], sent[c], answer)
      BY <2>3 DEF TalkInv, Talking, Answering
    <3>2. PICK p, q, l, h : p = pc[c] /\ q = pc'[c] /\ l = local[c] /\ h = sent[c]
      OBVIOUS
    <3>3. /\ p # "parameters" /\ q # "parameters" /\ p \in Preparatory /\ q \in Preparatory
          /\ p \in Preparing /\ q \in Preparing \cup {"prepared"}
      BY <2>3, <3>2 DEF Preparatory, Preparing
    <3>4. Saying(p, l, h, answer)
      BY <3>1, <3>2
    <3>5. h = <<>> /\ answer = D!Preparation(Placeholders[l.cmd.arg])
      BY <3>3, <3>4 DEF Saying, Place, Preparing
    <3>6. Place(q, l, h, answer)
      BY <3>3, <3>5 DEF Place
    <3>7. Saying(q, l, h, answer)
      BY <3>3, <3>4, <3>6 DEF Saying
    <3>8. answer \in D!Answers(l.cmd)
      BY <3>1, <3>2
    <3>9. Talking(q, l, h)
      BY <3>7, <3>8 DEF Talking
    <3> QED BY <2>3, <3>2, <3>9 DEF Quiet
  <2> QED BY <2>1, <2>2, <2>3 DEF Quiet
<1> QED BY <1>1, <1>2, <1>3, <1>4 DEF TalkInv

LEMMA BegunTalk ==
  ASSUME TalkInv, Shapes, NEW c \in Conns, Begun(c)
  PROVE  TalkInv'
<1>1. sent' = [d \in Conns |-> sent'[d]] /\ sent'[c] = <<>>
  BY DEF Begun, TalkInv
<1>2. ASSUME NEW d \in Conns PROVE pc'[d] \notin Outside => loop'[d] > 0
  <2>1. loop[c] > 0
    BY DEF Begun, TalkInv, Outside
  <2> QED BY <2>1 DEF Begun, TalkInv, Shapes
<1>3. ASSUME NEW d \in Conns PROVE Talking(pc'[d], local'[d], sent'[d])
  <2>1. CASE d = c
    BY <1>1, <2>1 DEF Begun, Talking
  <2>2. CASE d # c
    <3>1. pc'[d] = pc[d] /\ local'[d] = local[d] /\ sent'[d] = sent[d]
      BY <2>2 DEF Begun, Shapes, TalkInv
    <3> QED BY <3>1 DEF TalkInv
  <2> QED BY <2>1, <2>2
<1>4. \A i \in DOMAIN statements' :
        \E k \in Commands : k.op = "stmtPrepare" /\ statements'[i] = k.arg
  BY DEF Begun, TalkInv
<1> QED BY <1>1, <1>2, <1>3, <1>4 DEF TalkInv

LEMMA SpokenTalk ==
  ASSUME TalkInv, Shapes, NEW c \in Conns, NEW answer \in D!Answers(local[c].cmd), Spoken(c, answer)
  PROVE  TalkInv'
<1>1. sent' = [d \in Conns |-> sent'[d]] /\ \A d \in Conns \ {c} : sent'[d] = sent[d]
  <2>1. PICK p : sent' = [sent EXCEPT ![c] = Append(@, p)]
    BY DEF Spoken
  <2> QED BY <2>1 DEF TalkInv
<1>2. ASSUME NEW d \in Conns PROVE pc'[d] \notin Outside => loop'[d] > 0
  <2>1. pc[c] \notin Outside
    BY DEF Spoken, Answering, Writing, Preparing, Outside
  <2>2. loop[c] > 0
    BY <2>1 DEF TalkInv
  <2>3. loop' = loop /\ (d # c => pc'[d] = pc[d])
    BY DEF Spoken, Shapes
  <2> QED BY <2>2, <2>3 DEF TalkInv
<1>3. ASSUME NEW d \in Conns PROVE Talking(pc'[d], local'[d], sent'[d])
  <2>1. CASE d = c /\ pc'[c] = "reading"
    BY <2>1 DEF Talking, Answering, Writing, Preparing
  <2>2. CASE d = c /\ pc'[c] # "reading"
    <3>1. local'[c].cmd = local[c].cmd /\ Saying(pc'[c], local'[c], sent'[c], answer)
      BY <2>2 DEF Spoken
    <3> QED BY <2>2, <3>1 DEF Talking
  <2>3. CASE d # c
    <3>1. pc'[d] = pc[d] /\ local'[d] = local[d] /\ sent'[d] = sent[d]
      BY <1>1, <2>3 DEF Spoken, Shapes
    <3> QED BY <3>1 DEF TalkInv
  <2> QED BY <2>1, <2>2, <2>3
<1>4. \A i \in DOMAIN statements' :
        \E k \in Commands : k.op = "stmtPrepare" /\ statements'[i] = k.arg
  BY DEF Spoken, TalkInv, store
<1> QED BY <1>1, <1>2, <1>3, <1>4 DEF TalkInv

(* The conversations of a step in which a connection opens or ends, or all. *)
LEMMA EndTalk ==
  ASSUME TalkInv, Shapes, NEW c \in Conns, Welcome(c) \/ Close(c) \/ MapRace(c)
  PROVE  TalkInv'
<1>1. statements' = statements /\ sent' = [d \in Conns |-> sent'[d]]
  BY DEF Welcome, Close, MapRace, store, TalkInv
<1>2. ASSUME NEW d \in Conns PROVE pc'[d] \notin Outside => loop'[d] > 0
  <2>1. CASE Welcome(c)
    BY <2>1 DEF Welcome, Goto, TalkInv, Shapes
  <2>2. CASE Close(c)
    BY <2>2 DEF Close, TalkInv, Shapes, Outside
  <2>3. CASE MapRace(c)
    BY <2>3 DEF MapRace, Outside
  <2> QED BY <2>1, <2>2, <2>3
<1>3. ASSUME NEW d \in Conns PROVE Talking(pc'[d], local'[d], sent'[d])
  <2>1. \/ pc'[d] \notin Answering
        \/ pc'[d] = pc[d] /\ local'[d] = local[d] /\ sent'[d] = sent[d]
    <3>1. CASE Welcome(c)
      BY <3>1 DEF Welcome, Goto, Shapes, Answering, Writing, Preparing
    <3>2. CASE Close(c)
      BY <3>2 DEF Close, Shapes, TalkInv, Answering, Writing, Preparing
    <3>3. CASE MapRace(c)
      BY <3>3 DEF MapRace, Answering, Writing, Preparing
    <3> QED BY <3>1, <3>2, <3>3
  <2>2. CASE pc'[d] \notin Answering
    BY <2>2 DEF Talking
  <2>3. CASE pc'[d] = pc[d] /\ local'[d] = local[d] /\ sent'[d] = sent[d]
    BY <2>3 DEF TalkInv
  <2> QED BY <2>1, <2>2, <2>3
<1> QED BY <1>1, <1>2, <1>3 DEF TalkInv

LEMMA TalkStep ==
  ASSUME TalkInv, Shapes, [Next]_vars
  PROVE  TalkInv'
<1>1. CASE UNCHANGED vars
  <2>1. UNCHANGED <<sent, pc, loop, local, statements>>
    BY <1>1 DEF vars, store
  <2> QED BY <2>1 DEF TalkInv
<1>2. CASE Next
  <2>1. PICK c \in Conns :
          Login(c) \/ Send(c) \/ Depart(c) \/ Accept(c) \/ Serve(c) \/ Expire(c) \/ MapRace(c)
    BY <1>2 DEF Next
  <2>2. \/ Quiet(c) \/ Begun(c) \/ Welcome(c) \/ Close(c) \/ MapRace(c)
        \/ \E answer \in D!Answers(local[c].cmd) : Spoken(c, answer)
    BY <2>1, StepKinds
  <2> QED BY <2>2, QuietTalk, BegunTalk, SpokenTalk, EndTalk
<1> QED BY <1>1, <1>2
-----------------------------------------------------------------------------
(* What a client sees of a session. *)
on_    == [c \in Conns |-> loop[c] > 0]
asked_ == [c \in Conns |-> IF pc[c] \in Answering THEN local[c].cmd ELSE Nothing]

LEMMA OneOn ==
  ASSUME NEW f \in [Conns -> BOOLEAN], NEW g \in [Conns -> BOOLEAN], NEW c \in Conns,
         NEW b \in BOOLEAN, g[c] <=> b, \A d \in Conns \ {c} : g[d] <=> f[d]
  PROVE  g = [f EXCEPT ![c] = b]
  OBVIOUS

LEMMA OnIs ==
  /\ on_ \in [Conns -> BOOLEAN] /\ on_' \in [Conns -> BOOLEAN]
  /\ \A c \in Conns : (on_[c] <=> loop[c] > 0) /\ (on_'[c] <=> loop'[c] > 0)
<1>1. on_ \in [Conns -> BOOLEAN] /\ on_' \in [Conns -> BOOLEAN]
  BY DEF on_
<1>2. ASSUME NEW c \in Conns PROVE (on_[c] <=> loop[c] > 0) /\ (on_'[c] <=> loop'[c] > 0)
  BY DEF on_
<1> QED BY <1>1, <1>2

LEMMA AskedIs ==
  ASSUME NEW c \in Conns
  PROVE  /\ asked_[c] = IF pc[c] \in Answering THEN local[c].cmd ELSE Nothing
         /\ asked_'[c] = IF pc'[c] \in Answering THEN local'[c].cmd ELSE Nothing
  BY DEF asked_

LEMMA AskedAre ==
  /\ asked_ = [c \in Conns |-> asked_[c]] /\ asked_' = [c \in Conns |-> asked_'[c]]
  BY DEF asked_

LEMMA OnStays ==
  ASSUME \A d \in Conns : loop'[d] > 0 <=> loop[d] > 0
  PROVE  on_' = on_
<1>1. \A d \in Conns : on_'[d] <=> on_[d]
  BY OnIs
<1> QED BY <1>1, OnIs

LEMMA QuietRefines ==
  ASSUME TalkInv, Shapes, NEW c \in Conns, Quiet(c)
  PROVE  UNCHANGED <<on_, asked_, sent>>
<1>1. on_' = on_
  BY OnStays DEF Quiet
<1>2. \A d \in Conns : asked_'[d] = asked_[d]
  <2> SUFFICES ASSUME NEW d \in Conns PROVE asked_'[d] = asked_[d]
    OBVIOUS
  <2>1. \/ pc'[d] = pc[d] /\ local'[d] = local[d]
        \/ pc[d] \notin Answering /\ pc'[d] \notin Answering
        \/ pc[d] \in Answering /\ pc'[d] \in Answering /\ local'[d] = local[d]
    BY DEF Quiet, Shapes, Answering, Preparing, Writing
  <2> QED BY <2>1, AskedIs
<1>3. asked_' = asked_
  BY <1>2, AskedAre
<1> QED BY <1>1, <1>3 DEF Quiet

LEMMA BegunRefines ==
  ASSUME TalkInv, Shapes, NEW c \in Conns, Begun(c)
  PROVE  D!Ask(c)
<1>1. pc[c] \notin Outside /\ pc[c] \notin Answering /\ pc'[c] \in Answering
  BY DEF Begun, Outside, Answering, Writing, Preparing
<1>2. on_[c] /\ asked_[c] = Nothing
  BY <1>1, OnIs, AskedIs DEF TalkInv
<1>3. PICK k \in Commands : k = local'[c].cmd
  BY DEF Begun
<1>4. \A d \in Conns \ {c} : pc'[d] = pc[d] /\ local'[d] = local[d]
  BY DEF Begun, Shapes
<1>5. asked_'[c] = k /\ \A d \in Conns \ {c} : asked_'[d] = asked_[d]
  BY <1>1, <1>3, <1>4, AskedIs
<1>6. asked_' = [asked_ EXCEPT ![c] = k]
  BY <1>5, AskedAre
<1>7. on_' = on_
  BY OnStays DEF Begun
<1>8. sent' = [sent EXCEPT ![c] = <<>>]
  BY DEF Begun
<1> QED BY <1>2, <1>6, <1>7, <1>8 DEF D!Ask, on_, asked_

LEMMA SpokenRefines ==
  ASSUME TalkInv, Shapes, NEW c \in Conns, NEW answer \in D!Answers(local[c].cmd), Spoken(c, answer)
  PROVE  D!Hear(c)
<1> DEFINE k == local[c].cmd
<1>1. pc[c] \in Answering /\ k \in Commands
  BY DEF Spoken
<1>2. asked_[c] = k /\ k # Nothing
  BY <1>1, AskedIs, SessionAssumption DEF SessionAssumption
<1>3. \A d \in Conns \ {c} : pc'[d] = pc[d] /\ local'[d] = local[d]
  BY DEF Spoken, Shapes
<1>4. \A d \in Conns \ {c} : asked_'[d] = asked_[d]
  BY <1>3, AskedIs
<1>5. on_' = on_
  BY OnStays DEF Spoken
<1>6. /\ Len(sent'[c]) = Len(sent[c]) + 1
      /\ sent'[c][Len(sent'[c])] \in D!Packets
      /\ sent' = [sent EXCEPT ![c] = Append(@, sent'[c][Len(sent'[c])])]
  BY DEF Spoken
<1>7. CASE pc'[c] = "reading" /\ Whole(k, sent'[c])
  <2>1. asked_'[c] = Nothing
    BY <1>7, AskedIs DEF Answering, Writing, Preparing
  <2>2. asked_' = [asked_ EXCEPT ![c] = Nothing]
    BY <1>4, <2>1, AskedAre
  <2>3. D!Begins(asked_[c], sent'[c], TRUE)
    BY <1>2, <1>7 DEF Whole
  <2> HIDE DEF k
  <2> QED BY <1>2, <1>5, <1>6, <2>2, <2>3 DEF D!Hear, on_, asked_
<1>8. CASE pc'[c] \in Answering /\ local'[c].cmd = k /\ Part(k, sent'[c])
  <2>1. asked_'[c] = asked_[c]
    BY <1>2, <1>8, AskedIs
  <2>2. asked_' = asked_
    BY <1>4, <2>1, AskedAre
  <2>3. D!Begins(asked_[c], sent'[c], FALSE)
    BY <1>2, <1>8 DEF Part
  <2> HIDE DEF k
  <2> QED BY <1>2, <1>5, <1>6, <2>2, <2>3 DEF D!Hear, on_, asked_
<1> QED BY <1>7, <1>8 DEF Spoken

LEMMA WelcomeRefines ==
  ASSUME PlaceInv, Shapes, NEW c \in Conns, Welcome(c)
  PROVE  D!Enter(c)
<1>1. ~(loop[c] > 0) /\ loop'[c] > 0 /\ \A d \in Conns \ {c} : loop'[d] = loop[d]
  BY DEF Welcome, Goto, PlaceInv, Shapes, Outside
<1>2. ~on_[c] /\ on_' = [on_ EXCEPT ![c] = TRUE]
  <2>1. ~on_[c] /\ on_'[c] /\ \A d \in Conns \ {c} : on_'[d] <=> on_[d]
    BY <1>1, OnIs
  <2> QED BY <2>1, OnIs, OneOn
<1>3. \A d \in Conns : asked_'[d] = asked_[d]
  <2> SUFFICES ASSUME NEW d \in Conns PROVE asked_'[d] = asked_[d]
    OBVIOUS
  <2>1. /\ local'[d] = local[d]
        /\ pc'[d] = pc[d] \/ (pc[d] \notin Answering /\ pc'[d] \notin Answering)
    BY DEF Welcome, Goto, Shapes, Answering, Writing, Preparing
  <2> QED BY <2>1, AskedIs
<1>4. asked_' = asked_
  BY <1>3, AskedAre
<1>5. sent' = sent
  BY DEF Welcome
<1> QED BY <1>2, <1>4, <1>5 DEF D!Enter, on_, asked_

(* The connections of S end. *)
LEMMA Drops ==
  ASSUME TalkInv, NEW S \in SUBSET Conns,
         \A d \in S : pc'[d] \notin Answering /\ loop'[d] = 0,
         \A d \in Conns \ S : pc'[d] = pc[d] /\ loop'[d] = loop[d] /\ local'[d] = local[d],
         sent' = [d \in Conns |-> IF d \in S THEN <<>> ELSE sent[d]]
  PROVE  D!Drop(S)
<1>1. on_' = [d \in Conns |-> on_[d] /\ d \notin S]
  <2>1. \A d \in Conns : on_'[d] <=> (on_[d] /\ d \notin S)
    BY OnIs
  <2> QED BY <2>1, OnIs
<1>2. \A d \in Conns : asked_'[d] = IF d \in S THEN Nothing ELSE asked_[d]
  BY AskedIs
<1>3. asked_' = [d \in Conns |-> IF d \in S THEN Nothing ELSE asked_[d]]
  BY <1>2, AskedAre
<1> QED BY <1>1, <1>3 DEF D!Drop, on_, asked_

LEMMA StepRefines ==
  ASSUME TalkInv, Shapes, PlaceInv, [Next]_vars
  PROVE  [D!Next]_(D!vars)
<1>1. CASE UNCHANGED vars
  BY <1>1 DEF vars, D!vars
<1>2. CASE Next
  <2>1. PICK c \in Conns :
          Login(c) \/ Send(c) \/ Depart(c) \/ Accept(c) \/ Serve(c) \/ Expire(c) \/ MapRace(c)
    BY <1>2 DEF Next
  <2>2. CASE Quiet(c)
    BY <2>2, QuietRefines DEF D!vars, on_, asked_
  <2>3. CASE Begun(c)
    BY <2>3, BegunRefines DEF D!Next
  <2>4. CASE Welcome(c)
    BY <2>4, WelcomeRefines DEF D!Next
  <2>5. CASE Close(c)
    <3>1. pc'[c] \notin Answering /\ loop'[c] = 0
      BY <2>5 DEF Close, Shapes, Answering, Writing, Preparing
    <3>2. \A d \in Conns \ {c} : pc'[d] = pc[d] /\ loop'[d] = loop[d] /\ local'[d] = local[d]
      BY <2>5 DEF Close, Shapes
    <3>3. sent' = [d \in Conns |-> IF d \in {c} THEN <<>> ELSE sent[d]]
      BY <2>5 DEF Close, TalkInv
    <3>4. D!Drop({c})
      BY <3>1, <3>2, <3>3, Drops
    <3> QED BY <3>4 DEF D!Next
  <2>6. CASE MapRace(c)
    <3>1. \A d \in Conns : pc'[d] \notin Answering /\ loop'[d] = 0
      BY <2>6 DEF MapRace, Answering, Writing, Preparing
    <3>2. sent' = [d \in Conns |-> IF d \in Conns THEN <<>> ELSE sent[d]]
      BY <2>6 DEF MapRace
    <3>3. D!Drop(Conns)
      BY <3>1, <3>2, Drops
    <3> QED BY <3>3 DEF D!Next
  <2>7. CASE \E answer \in D!Answers(local[c].cmd) : Spoken(c, answer)
    BY <2>7, SpokenRefines DEF D!Next
  <2> QED BY <2>1, <2>2, <2>3, <2>4, <2>5, <2>6, <2>7, StepKinds
<1> QED BY <1>1, <1>2

LEMMA InitRefines == Init => D!Init
<1> SUFFICES ASSUME Init PROVE D!Init
  OBVIOUS
<1>1. \A c \in Conns : ~(loop[c] > 0) /\ pc[c] \notin Answering
  BY DEF Init, Answering, Writing, Preparing
<1>2. on_ = [c \in Conns |-> FALSE]
  <2>1. \A c \in Conns : ~on_[c]
    BY <1>1, OnIs
  <2> QED BY <2>1, OnIs
<1>3. asked_ = [c \in Conns |-> Nothing]
  BY <1>1 DEF asked_
<1> QED BY <1>2, <1>3 DEF Init, D!Init, on_, asked_

(* What a goroutine has left to write is what its answer still lacks, for    *)
(* results of any number of columns and rows and any number of placeholders. *)
THEOREM Conversations == Spec => []TalkInv
<1>1. IInv => Shapes
  BY DEF IInv
<1>2. IInv /\ TalkInv /\ [Next]_vars => TalkInv'
  BY <1>1, TalkStep
<1> QED
  BY Invariance, TalkInit, <1>2, PTL DEF Spec

(* However the goroutines interleave, every command that has an answer gets *)
(* one (handshake.go: the writes of RunSession, handlePrepare and           *)
(* handleExecute), before the next is read, by the packets that belong      *)
(* there, each numbered one more than the last modulo 256.                  *)
THEOREM AnswersInDialogue == Spec => ImplementsDialogue
<1>1. IInv /\ TalkInv /\ [Next]_vars => [D!Next]_(D!vars)
  BY StepRefines DEF IInv
<1> QED
  BY Invariance, Conversations, InitRefines, <1>1, PTL DEF Spec, ImplementsDialogue, D!Spec
-----------------------------------------------------------------------------
(* The ids are natural numbers because the map stays finite. *)
StoreInv ==
  /\ IsFiniteSet(DOMAIN statements) /\ DOMAIN statements \subseteq Nat
  /\ disturbed \in BOOLEAN
  /\ \A c \in Conns : pc[c] \in Preparing => local[c].id \in Nat
  /\ sent \in [Conns -> Seq(D!Packets)]

LEMMA StoreInit == Init => StoreInv
<1> SUFFICES ASSUME Init PROVE StoreInv
  OBVIOUS
<1>1. DOMAIN statements = {} /\ <<>> \in Seq(D!Packets)
  BY DEF Init
<1> QED BY <1>1, FS_EmptySet DEF Init, StoreInv, Preparing

LEMMA SentStep ==
  ASSUME StoreInv, TalkInv, Shapes, NEW c \in Conns,
         \/ Login(c) \/ Send(c) \/ Depart(c) \/ Accept(c) \/ Serve(c) \/ Expire(c) \/ MapRace(c)
  PROVE  sent' \in [Conns -> Seq(D!Packets)]
<1>1. <<>> \in Seq(D!Packets)
  OBVIOUS
<1>2. CASE Quiet(c) \/ Begun(c) \/ Welcome(c) \/ Close(c) \/ MapRace(c)
  BY <1>1, <1>2 DEF StoreInv, Quiet, Begun, Welcome, Close, MapRace
<1>3. CASE \E answer \in D!Answers(local[c].cmd) : Spoken(c, answer)
  <2>1. PICK p \in D!Packets : sent' = [sent EXCEPT ![c] = Append(@, p)]
    BY <1>3 DEF Spoken
  <2>2. Append(sent[c], p) \in Seq(D!Packets)
    BY AppendProperties DEF StoreInv
  <2> QED BY <2>1, <2>2 DEF StoreInv
<1> QED BY <1>2, <1>3, StepKinds

LEMMA StoreStep ==
  ASSUME StoreInv, TalkInv, Shapes, NEW c \in Conns,
         \/ Login(c) \/ Send(c) \/ Depart(c) \/ Accept(c) \/ Serve(c) \/ Expire(c) \/ MapRace(c)
  PROVE  StoreInv'
<1>1. sent' \in [Conns -> Seq(D!Packets)]
  BY SentStep
<1>2. ASSUME UNCHANGED store,
             \A d \in Conns : pc'[d] \in Preparing => pc[d] \in Preparing /\ local'[d].id = local[d].id
      PROVE  StoreInv'
  BY <1>1, <1>2 DEF StoreInv, store
<1>3. ASSUME UNCHANGED store, pc'[c] \notin Preparing,
             \A d \in Conns \ {c} : pc'[d] = pc[d] /\ local'[d] = local[d]
      PROVE  StoreInv'
  BY <1>2, <1>3
<1>4. CASE Login(c) \/ Send(c) \/ Depart(c)
  BY <1>2, <1>4 DEF Login, Send, Depart, store
<1>5. CASE Accept(c) \/ Greet(c) \/ Admit(c) \/ Welcome(c)
  BY <1>3, <1>5 DEF Accept, Greet, Admit, Welcome, Goto, Shapes, Preparing
<1>6. CASE Refuse(c) \/ EndSecondSession(c) \/ WriteFails(c) \/ HangUp(c) \/ Expire(c)
  <2>1. Close(c)
    BY <1>6 DEF Refuse, EndSecondSession, WriteFails, HangUp, Expire
  <2> QED BY <1>3, <2>1 DEF Close, Shapes, Preparing
<1>7. CASE ReturnToServer(c)
  BY <1>2, <1>7 DEF ReturnToServer, Take
<1>8. CASE AnswerPlain(c) \/ Query(c) \/ StmtExecute(c)
  <2>1. \E to \in {"single", "count"} : Answers(c, to, 0)
    BY <1>8, AnswerSteps
  <2>2. UNCHANGED store
    BY <1>8, AnswerSteps
  <2> QED BY <1>3, <2>1, <2>2 DEF Answers, Shapes, Preparing
<1>9. CASE StmtPrepare(c)
  <2>1. NewId(c) \in Nat
    BY FS_CardinalityType DEF StoreInv, NewId
  <2>2. /\ local'[c].id = NewId(c) /\ UNCHANGED <<statements, history>>
        /\ \A d \in Conns \ {c} : pc'[d] = pc[d] /\ local'[d] = local[d]
    BY <1>9 DEF StmtPrepare, Answer, Shapes
  <2>3. disturbed' \in BOOLEAN
    BY <1>9 DEF StmtPrepare
  <2>4. \A d \in Conns : pc'[d] \in Preparing => local'[d].id \in Nat
    BY <2>1, <2>2 DEF StoreInv
  <2> QED BY <1>1, <2>2, <2>3, <2>4 DEF StoreInv
<1>10. CASE BeginStore(c)
  <2>1. UNCHANGED <<store, local>> /\ \A d \in Conns : pc'[d] \in Preparing => pc[d] \in Preparing
    BY <1>10 DEF BeginStore, Goto, Shapes, Preparing
  <2> QED BY <1>2, <2>1
<1>11. CASE EndStore(c)
  <2>1. DOMAIN statements' = DOMAIN statements \cup {local[c].id} /\ local[c].id \in Nat
    BY <1>11 DEF EndStore, Goto, StoreInv, Preparing
  <2>2. IsFiniteSet(DOMAIN statements')
    BY <2>1, FS_AddElement DEF StoreInv
  <2>3. UNCHANGED <<local, disturbed>> /\ \A d \in Conns : pc'[d] \in Preparing => pc[d] \in Preparing
    BY <1>11 DEF EndStore, Goto, Shapes, Preparing
  <2> QED BY <1>1, <2>1, <2>2, <2>3 DEF StoreInv
<1>12. CASE StmtClose(c)
  BY <1>3, <1>12 DEF StmtClose, Take, Shapes, Preparing
<1>13. CASE EndDelete(c)
  <2>1. DOMAIN statements' = DOMAIN statements \ {local[c].id}
    BY <1>13 DEF EndDelete
  <2>2. IsFiniteSet(DOMAIN statements')
    BY <2>1, FS_Subset DEF StoreInv
  <2>3. disturbed' \in BOOLEAN
    BY <1>13 DEF EndDelete
  <2>4. \A d \in Conns : pc'[d] \in Preparing => pc[d] \in Preparing /\ local'[d] = local[d]
    BY <1>13 DEF EndDelete, Goto, Shapes, Preparing
  <2> QED BY <1>1, <2>1, <2>2, <2>3, <2>4 DEF StoreInv
<1>14. CASE MapRace(c)
  BY <1>2, <1>14 DEF MapRace, Preparing
<1>15. CASE WritePacket(c)
  <2>1. UNCHANGED store /\ \E p, l : /\ p \notin Preparing /\ pc' = [pc EXCEPT ![c] = p]
                                     /\ local' = [local EXCEPT ![c] = l]
    BY <1>15 DEF WritePacket, WriteSingle, WriteCount, WriteColumn, WriteColumnsEOF, WriteRow, WriteRowsEOF,
       WritePrepared, WriteParameter, WriteParametersEOF, Write, Goto, Preparing
  <2> QED BY <1>3, <2>1 DEF Shapes
<1> QED
  BY <1>4, <1>5, <1>6, <1>7, <1>8, <1>9, <1>10, <1>11, <1>12, <1>13, <1>14, <1>15
     DEF Serve, Handshake, Handle

(* The variables keep their types: ids and the numbers of packets too. *)
THEOREM TypeCorrect == Spec => []TypeOK
<1>1. ASSUME IInv, TalkInv, StoreInv, [Next]_vars PROVE StoreInv'
  <2>1. CASE UNCHANGED vars
    BY <1>1, <2>1 DEF vars, store, StoreInv
  <2>2. CASE Next
    BY <1>1, <2>2, StoreStep DEF Next, IInv
  <2> QED BY <1>1, <2>1, <2>2
<1>2. Shapes /\ StoreInv => TypeOK
  BY DEF Shapes, StoreInv, TypeOK
<1>3. IInv => Shapes
  BY DEF IInv
<1> QED
  BY Invariance, Conversations, StoreInit, <1>1, <1>2, <1>3, PTL DEF Spec
=============================================================================
