------------------------------ MODULE Dialogue -------------------------------
(***************************************************************************)
(* What a client of a session may rely on (protocol/handshake.go): a       *)
(* command is answered once, before the next one is read, by the packets   *)
(* of a whole answer in their order, numbered from the number of the       *)
(* command on without a gap, as long as its connection lasts.  The shapes  *)
(* of the answers are those that the code has, which are not in every case *)
(* those of the MySQL protocol: EOF packets are sent although the greeting *)
(* offers to do without, COM_FIELD_LIST is answered by a count alone, and  *)
(* the first packet behind a PREPARE has a layout of its own.  The packets *)
(* that follow a prepared statement's first one have their place, but not  *)
(* their number: the code gives all of them the same.                      *)
(***************************************************************************)
EXTENDS Naturals, Sequences

CONSTANTS
  Conns,         \* connections
  Asks,          \* the commands that are answered
  SeqSize,       \* packet numbers are taken modulo this, 256
  Placeholders,  \* text of a statement -> the question marks in it
  MaxColumns,    \* bound: columns of a result
  MaxRows,       \* bound: rows of a result
  Nothing        \* not a command

VARIABLES
  on,     \* connection -> whether commands are served
  asked,  \* connection -> the command being answered, or Nothing
  heard   \* connection -> the packets of the latest answer

vars == <<on, asked, heard>>

OnePacket == {<<<<"OK", 0>>>>, <<<<"ERR", 0>>>>, <<<<"TEXT", 0>>>>, <<<<"COUNT", 0>>>>}

(* A result set has as many column definitions as its first packet says,  *)
(* and so has the answer to a PREPARE for its parameters.                  *)
ResultSet(n, m) ==
  [i \in 1 .. n + m + 3 |->
     CASE i = 1 -> <<"COUNT", n>>
       [] i \in 2 .. n + 1 -> <<"DEF", 0>>
       [] i \in n + 3 .. n + m + 2 -> <<"ROW", 0>>
       [] i \in {n + 2, n + m + 3} -> <<"EOF", 0>>]

Preparation(n) ==
  [i \in 1 .. IF n = 0 THEN 1 ELSE n + 2 |->
     CASE i = 1 -> <<"PREPARED", n>>
       [] i \in 2 .. n + 1 -> <<"DEF", 0>>
       [] i = n + 2 -> <<"EOF", 0>>]

(* Execute of an unknown statement is an error of its own. *)
Answers(k) ==
  CASE k.op = "stmtPrepare" -> {Preparation(Placeholders[k.arg])}
    [] k.op \in {"query", "stmtExecute"} ->
         {ResultSet(n, m) : n \in 1 .. MaxColumns, m \in 0 .. MaxRows}
           \cup {<<<<"OK", 0>>>>, <<<<"ERR", 0>>>>, <<<<"ERR", 1>>>>}
    [] OTHER -> OnePacket

Numbered(k, answer) ==
  [i \in 1 .. Len(answer) |-> [kind |-> answer[i][1], arg |-> answer[i][2],
                               seq |-> (k.seq + i) % SeqSize]]

(* h is how an answer to k begins, complete if it has all of its packets. *)
Begins(k, h, complete) ==
  \E answer \in Answers(k) :
    /\ IF complete THEN Len(h) = Len(answer) ELSE Len(h) < Len(answer)
    /\ \A i \in 1 .. Len(h) :
         IF k.op = "stmtPrepare" /\ i > 1
         THEN h[i].kind = answer[i][1]
         ELSE h[i] = Numbered(k, answer)[i]

Packets ==
  [kind : {"OK", "ERR", "TEXT", "COUNT", "DEF", "ROW", "EOF", "PREPARED"},
   arg : Nat, seq : 0 .. SeqSize - 1]
-----------------------------------------------------------------------------
Init ==
  /\ on = [c \in Conns |-> FALSE]
  /\ asked = [c \in Conns |-> Nothing]
  /\ heard = [c \in Conns |-> <<>>]

Enter(c) ==
  /\ ~on[c]
  /\ on' = [on EXCEPT ![c] = TRUE]
  /\ UNCHANGED <<asked, heard>>

Ask(c) ==
  /\ on[c] /\ asked[c] = Nothing
  /\ \E k \in Asks : asked' = [asked EXCEPT ![c] = k]
  /\ heard' = [heard EXCEPT ![c] = <<>>]
  /\ UNCHANGED on

Hear(c) ==
  /\ asked[c] # Nothing
  /\ Len(heard'[c]) = Len(heard[c]) + 1
  /\ heard'[c][Len(heard'[c])] \in Packets
  /\ heard' = [heard EXCEPT ![c] = Append(@, heard'[c][Len(heard'[c])])]
  /\ \/ /\ Begins(asked[c], heard'[c], FALSE)
        /\ UNCHANGED asked
     \/ /\ Begins(asked[c], heard'[c], TRUE)
        /\ asked' = [asked EXCEPT ![c] = Nothing]
  /\ UNCHANGED on

(* Connections end, one by one or all together with the process. *)
Drop(S) ==
  /\ on' = [c \in Conns |-> on[c] /\ c \notin S]
  /\ asked' = [c \in Conns |-> IF c \in S THEN Nothing ELSE asked[c]]
  /\ heard' = [c \in Conns |-> IF c \in S THEN <<>> ELSE heard[c]]

Next ==
  \/ \E c \in Conns : Enter(c) \/ Ask(c) \/ Hear(c)
  \/ \E S \in SUBSET Conns : Drop(S)

Spec == Init /\ [][Next]_vars
=============================================================================
