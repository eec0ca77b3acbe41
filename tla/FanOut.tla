------------------------------- MODULE FanOut --------------------------------
(***************************************************************************)
(* executeOnMultipleNodes (sqlrouter/router.go): one goroutine per data    *)
(* node runs the statement and appends its result or error to a slice the  *)
(* goroutines share, under a mutex; the session's goroutine waits for the  *)
(* wait group and merges.  Statements of several sessions compete for the  *)
(* connections of the pools.  An append reads the slice and then stores a  *)
(* longer one.  getDBConnection is one step here; ConnPools has its parts. *)
(***************************************************************************)
EXTENDS Naturals, Sequences, FiniteSets

CONSTANTS
  Requests,    \* statements of different sessions, each routed to all nodes
  NodeList,    \* ctx.ParsedNodes, in order, without repetition
  SourceOf,    \* node -> the data source of its pool
  Capacity,    \* connections of one pool, maximumPoolSize
  NoAnswer,    \* the answer of a statement that has none yet
  Free         \* an unlocked mutex

Nodes == {NodeList[i] : i \in 1 .. Len(NodeList)}

ASSUME FanOutAssumption ==
  /\ Len(NodeList) \in Nat \ {0, 1}
  /\ \A i, j \in 1 .. Len(NodeList) : i # j => NodeList[i] # NodeList[j]
  /\ DOMAIN SourceOf = Nodes
  /\ Capacity \in Nat \ {0}
  /\ Free \notin Nodes

VARIABLES
  spawned,   \* request -> goroutines started so far
  wg,        \* request -> the counter of the wait group
  pc,        \* request -> node -> where the node's goroutine is
  outcome,   \* request -> node -> "none", "ok" or "error"
  mu,        \* request -> the node whose goroutine holds mu
  copy,      \* request -> node -> the slice it read before its append
  results,   \* request -> the nodes whose result was appended, in order
  errors,    \* request -> the nodes whose error was appended, in order
  answer     \* request -> what the session is given

vars == <<spawned, wg, pc, outcome, mu, copy, results, errors, answer>>

Init ==
  /\ spawned = [r \in Requests |-> 0]
  /\ wg = [r \in Requests |-> 0]
  /\ pc = [r \in Requests |-> [n \in Nodes |-> "unborn"]]
  /\ outcome = [r \in Requests |-> [n \in Nodes |-> "none"]]
  /\ mu = [r \in Requests |-> Free]
  /\ copy = [r \in Requests |-> [n \in Nodes |-> <<>>]]
  /\ results = [r \in Requests |-> <<>>]
  /\ errors = [r \in Requests |-> <<>>]
  /\ answer = [r \in Requests |-> NoAnswer]
-----------------------------------------------------------------------------
(* Fault variant: the goroutine is not added to the wait group. *)
NotAdded(r) == UNCHANGED wg

(* wg.Add(1) before the go statement. *)
AddBeforeGo(r) == wg' = [wg EXCEPT ![r] = @ + 1]

Spawn(r) ==
  /\ spawned[r] < Len(NodeList)
  /\ spawned' = [spawned EXCEPT ![r] = @ + 1]
  /\ AddBeforeGo(r)
  /\ pc' = [pc EXCEPT ![r][NodeList[spawned[r] + 1]] = "connect"]
  /\ UNCHANGED <<outcome, mu, copy, results, errors, answer>>

Goto(r, n, from, to) ==
  /\ pc[r][n] = from
  /\ pc' = [pc EXCEPT ![r][n] = to]

Connect(r, n) ==
  /\ Goto(r, n, "connect", "execute")
  /\ UNCHANGED <<spawned, wg, outcome, mu, copy, results, errors, answer>>

(* Fault variant: the return after a connection error skips wg.Done. *)
ConnectFailsSilently(r, n) ==
  /\ Goto(r, n, "connect", "gone")
  /\ outcome' = [outcome EXCEPT ![r][n] = "error"]
  /\ UNCHANGED <<spawned, wg, mu, copy, results, errors, answer>>

ConnectFails(r, n) ==
  /\ Goto(r, n, "connect", "lock")
  /\ outcome' = [outcome EXCEPT ![r][n] = "error"]
  /\ UNCHANGED <<spawned, wg, mu, copy, results, errors, answer>>

Busy(s) ==
  {w \in Requests \X Nodes : SourceOf[w[2]] = s /\ pc[w[1]][w[2]] = "running"}

(* executeSQL waits for a connection of the pool, *)
Execute(r, n) ==
  /\ Goto(r, n, "execute", "running")
  /\ Cardinality(Busy(SourceOf[n])) < Capacity
  /\ UNCHANGED <<spawned, wg, outcome, mu, copy, results, errors, answer>>

(* runs the statement, and gives the connection back. *)
Executed(r, n) ==
  /\ Goto(r, n, "running", "lock")
  /\ \E o \in {"ok", "error"} : outcome' = [outcome EXCEPT ![r][n] = o]
  /\ UNCHANGED <<spawned, wg, mu, copy, results, errors, answer>>

Slice(r, n) == IF outcome[r][n] = "ok" THEN results[r] ELSE errors[r]

(* Fault variant: the slices are shared without the mutex. *)
NoMutex(r, n) ==
  /\ Goto(r, n, "lock", "append")
  /\ copy' = [copy EXCEPT ![r][n] = Slice(r, n)]
  /\ UNCHANGED <<spawned, wg, outcome, mu, results, errors, answer>>

Lock(r, n) ==
  /\ Goto(r, n, "lock", "append")
  /\ mu[r] = Free
  /\ mu' = [mu EXCEPT ![r] = n]
  /\ copy' = [copy EXCEPT ![r][n] = Slice(r, n)]
  /\ UNCHANGED <<spawned, wg, outcome, results, errors, answer>>

AppendUnlock(r, n) ==
  /\ Goto(r, n, "append", "done")
  /\ LET slice == Append(copy[r][n], n) IN
       IF outcome[r][n] = "ok"
       THEN results' = [results EXCEPT ![r] = slice] /\ UNCHANGED errors
       ELSE errors' = [errors EXCEPT ![r] = slice] /\ UNCHANGED results
  /\ mu' = [mu EXCEPT ![r] = Free]
  /\ UNCHANGED <<spawned, wg, outcome, copy, answer>>

Done(r, n) ==
  /\ Goto(r, n, "done", "gone")
  /\ wg' = [wg EXCEPT ![r] = @ - 1]
  /\ UNCHANGED <<spawned, outcome, mu, copy, results, errors, answer>>
-----------------------------------------------------------------------------
Rows(parts) == [kind |-> "merged", parts |-> parts]
Error(n)    == [kind |-> "error", node |-> n]

(* mergeSelectResults, or the sums over results: one part per result. *)
Reply(r) ==
  IF errors[r] # <<>> /\ results[r] = <<>> THEN Error(errors[r][1]) ELSE Rows(results[r])

(* wg.Wait() returns and the answer is put together. *)
Merge(r) ==
  /\ answer[r] = NoAnswer
  /\ spawned[r] = Len(NodeList) /\ wg[r] = 0
  /\ answer' = [answer EXCEPT ![r] = Reply(r)]
  /\ UNCHANGED <<spawned, wg, pc, outcome, mu, copy, results, errors>>

Work(r, n) ==
  \/ Connect(r, n) \/ ConnectFails(r, n)
  \/ Executed(r, n) \/ AppendUnlock(r, n) \/ Done(r, n)

Next ==
  \E r \in Requests :
    \/ Spawn(r) \/ Merge(r)
    \/ \E n \in Nodes : Work(r, n) \/ Execute(r, n) \/ Lock(r, n)

Spec == Init /\ [][Next]_vars

(* Goroutines run; mutex and pool serve their waiting goroutines in order. *)
FairSpec ==
  /\ Spec
  /\ \A r \in Requests :
       /\ WF_vars(Spawn(r)) /\ WF_vars(Merge(r))
       /\ \A n \in Nodes : /\ WF_vars(Work(r, n))
                           /\ SF_vars(Execute(r, n)) /\ SF_vars(Lock(r, n))
-----------------------------------------------------------------------------
Ok(r)     == {n \in Nodes : outcome[r][n] = "ok"}
Failed(r) == {n \in Nodes : outcome[r][n] = "error"}

(* The session is answered once, after every node is done, with exactly one *)
(* part for each node that executed the statement: no result is lost,       *)
(* repeated or left out by the interleaving of the goroutines.              *)
Answered == INSTANCE Gather WITH
  executed <- [r \in Requests |-> Ok(r)],
  failed   <- [r \in Requests |-> Failed(r)]

ImplementsGather == Answered!GSpec

(* Every statement is answered, also when all pools have one connection and *)
(* every node fails: no goroutine holds a connection while it waits for     *)
(* another one.                                                             *)
EveryStatementAnswered == \A r \in Requests : <>(answer[r] # NoAnswer)

(* Answers do not fall behind: after the answer no goroutine of the         *)
(* statement is still running, so a session's next statement never races    *)
(* with its last one on a node.                                             *)
NothingRunsAfterAnswer ==
  \A r \in Requests :
    answer[r] # NoAnswer => \A n \in Nodes : pc[r][n] \notin {"connect", "execute", "running"}
=============================================================================
