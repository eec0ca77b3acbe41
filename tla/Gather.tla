------------------------------- MODULE Gather -------------------------------
(***************************************************************************)
(* What a statement sent to several data nodes promises the session: it is *)
(* tried on every node, and answered once, when no node is still working:  *)
(* with one part per node that executed it, or with an error when no node  *)
(* did.  FanOut, the translation of executeOnMultipleNodes, implements it. *)
(***************************************************************************)
EXTENDS Naturals, Sequences, FiniteSets

CONSTANTS
  Requests,   \* statements that several nodes have to execute
  Nodes,      \* the data nodes of the table
  NoAnswer    \* the answer of a statement that has none yet

VARIABLES
  executed,   \* request -> the nodes that executed it
  failed,     \* request -> the nodes that could not
  answer      \* request -> its answer

gvars == <<executed, failed, answer>>

Rows(parts) == [kind |-> "merged", parts |-> parts]
Error(n)    == [kind |-> "error", node |-> n]

(* The orders in which the parts of a set of nodes can be put together. *)
Orders(S) ==
  {p \in [1 .. Cardinality(S) -> S] : \A i, j \in DOMAIN p : i # j => p[i] # p[j]}

GInit ==
  /\ executed = [r \in Requests |-> {}]
  /\ failed = [r \in Requests |-> {}]
  /\ answer = [r \in Requests |-> NoAnswer]

Pending(r) == Nodes \ (executed[r] \cup failed[r])

Execute(r, n) ==
  /\ answer[r] = NoAnswer
  /\ n \in Pending(r)
  /\ executed' = [executed EXCEPT ![r] = @ \cup {n}]
  /\ UNCHANGED <<failed, answer>>

Fail(r, n) ==
  /\ answer[r] = NoAnswer
  /\ n \in Pending(r)
  /\ failed' = [failed EXCEPT ![r] = @ \cup {n}]
  /\ UNCHANGED <<executed, answer>>

AnswerRows(r) ==
  /\ answer[r] = NoAnswer
  /\ Pending(r) = {} /\ executed[r] # {}
  /\ \E p \in Orders(executed[r]) : answer' = [answer EXCEPT ![r] = Rows(p)]
  /\ UNCHANGED <<executed, failed>>

AnswerError(r) ==
  /\ answer[r] = NoAnswer
  /\ failed[r] = Nodes
  /\ \E n \in Nodes : answer' = [answer EXCEPT ![r] = Error(n)]
  /\ UNCHANGED <<executed, failed>>

GNext ==
  \E r \in Requests :
    \/ \E n \in Nodes : Execute(r, n) \/ Fail(r, n)
    \/ AnswerRows(r) \/ AnswerError(r)

GSpec == GInit /\ [][GNext]_gvars
=============================================================================
