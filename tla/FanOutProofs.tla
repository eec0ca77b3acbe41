---------------------------- MODULE FanOutProofs -----------------------------
(***************************************************************************)
(* Proofs about FanOut, for any number of statements, nodes and            *)
(* connections: nothing runs after the answer, and every step of the       *)
(* goroutines is a step of Gather or changes nothing that Gather sees.     *)
(***************************************************************************)
EXTENDS FanOut, FiniteSetTheorems, TLAPS

Places == {"unborn", "connect", "execute", "running", "lock", "append", "done", "gone"}

TypeOK ==
  /\ spawned \in [Requests -> 0 .. Len(NodeList)]
  /\ wg \in [Requests -> Int]
  /\ pc \in [Requests -> [Nodes -> Places]]
  /\ outcome \in [Requests -> [Nodes -> {"none", "ok", "error"}]]
  /\ mu \in [Requests -> Nodes \cup {Free}]
  /\ copy \in [Requests -> [Nodes -> Seq(Nodes)]]
  /\ results \in [Requests -> Seq(Nodes)]
  /\ errors \in [Requests -> Seq(Nodes)]
  /\ answer = [r \in Requests |-> answer[r]]

(* The wait group counts the goroutines that have not called Done. *)
Live(r) == {n \in Nodes : pc[r][n] \notin {"unborn", "gone"}}

CountInv(r) ==
  /\ wg[r] = Cardinality(Live(r))
  /\ \A i \in 1 .. Len(NodeList) : pc[r][NodeList[i]] = "unborn" <=> i > spawned[r]
  /\ answer[r] # NoAnswer => spawned[r] = Len(NodeList) /\ Live(r) = {}

(* A goroutine has an outcome from when it has executed, or could not. *)
OutcomeInv(r) ==
  \A n \in Nodes :
    outcome[r][n] = "none" <=> pc[r][n] \in {"unborn", "connect", "execute", "running"}

(* The mutex is held between the read of a slice and the store. *)
MutexInv(r) ==
  \A n \in Nodes : /\ mu[r] = n <=> pc[r][n] = "append"
                   /\ pc[r][n] = "append" => copy[r][n] = Slice(r, n)

(* p has the members of S, each once. *)
Lists(p, S) ==
  /\ p \in Seq(S)
  /\ \A n \in S : \E i \in 1 .. Len(p) : p[i] = n
  /\ \A i, j \in 1 .. Len(p) : i # j => p[i] # p[j]

Appended(r, o) == {n \in Nodes : outcome[r][n] = o /\ pc[r][n] \in {"done", "gone"}}

SliceInv(r) == Lists(results[r], Appended(r, "ok")) /\ Lists(errors[r], Appended(r, "error"))

Inv ==
  /\ TypeOK
  /\ \A r \in Requests : CountInv(r) /\ OutcomeInv(r) /\ MutexInv(r) /\ SliceInv(r)
-----------------------------------------------------------------------------
LEMMA NodesFinite == IsFiniteSet(Nodes)
<1> DEFINE f == [i \in 1 .. Len(NodeList) |-> NodeList[i]]
<1>1. f \in Surjection(1 .. Len(NodeList), Nodes)
  BY DEF Nodes, Surjection
<1>2. IsFiniteSet(1 .. Len(NodeList))
  BY FS_Interval, FanOutAssumption DEF FanOutAssumption
<1> QED
  BY <1>1, <1>2, FS_Surjection

LEMMA NodeAt ==
  ASSUME NEW n \in Nodes
  PROVE  \E i \in 1 .. Len(NodeList) : n = NodeList[i]
  BY DEF Nodes

(* Appending a node that is not there yet. *)
LEMMA ListsAppend ==
  ASSUME NEW p, NEW S, Lists(p, S), NEW n, n \notin S
  PROVE  Lists(Append(p, n), S \cup {n})
<1> DEFINE q == Append(p, n)
<1>1. p \in Seq(S \cup {n})
  BY DEF Lists
<1>2. q \in Seq(S \cup {n}) /\ Len(q) = Len(p) + 1 /\ Len(p) \in Nat
  BY <1>1
<1>3. \A i \in 1 .. Len(p) : q[i] = p[i] /\ p[i] \in S
  BY <1>1, <1>2 DEF Lists
<1>4. q[Len(p) + 1] = n
  BY <1>1
<1>5. \A m \in S \cup {n} : \E i \in 1 .. Len(q) : q[i] = m
  BY <1>2, <1>3, <1>4 DEF Lists
<1>6. ASSUME NEW i \in 1 .. Len(q), NEW j \in 1 .. Len(q), i # j
      PROVE  q[i] # q[j]
  <2>1. CASE i \in 1 .. Len(p) /\ j \in 1 .. Len(p)
    <3>1. p[i] # p[j]
      BY <1>6, <2>1 DEF Lists
    <3> QED BY <1>3, <2>1, <3>1
  <2>2. CASE i = Len(p) + 1 /\ j \in 1 .. Len(p)
    BY <1>3, <1>4, <2>2
  <2>3. CASE j = Len(p) + 1 /\ i \in 1 .. Len(p)
    BY <1>3, <1>4, <2>3
  <2> QED BY <1>2, <1>6, <2>1, <2>2, <2>3
<1> QED
  BY <1>2, <1>5, <1>6 DEF Lists

(* A list is one of the orders in which Gather may put the parts together. *)
LEMMA ListsOrder ==
  ASSUME NEW p, NEW S, Lists(p, S)
  PROVE  p \in Answered!Orders(S)
<1> DEFINE I == 1 .. Len(p)
<1>1. p \in [I -> S] /\ Len(p) \in Nat /\ DOMAIN p = I
  BY DEF Lists
<1>2. (\A n \in S : \E i \in I : p[i] = n) /\ (\A i, j \in I : i # j => p[i] # p[j])
  BY DEF Lists
<1>3. IsFiniteSet(I) /\ Cardinality(I) = Len(p)
  <2>1. 1 \in Int /\ Len(p) \in Int /\ (1 > Len(p) => Len(p) = 0) /\ Len(p) - 1 + 1 = Len(p)
    BY <1>1
  <2> QED BY <2>1, FS_Interval
<1> HIDE DEF I
<1>4. p \in Bijection(I, S)
  BY <1>1, <1>2 DEF Bijection, Injection, Surjection, IsInjective
<1>5. Cardinality(S) = Len(p)
  BY <1>3, <1>4, FS_Bijection DEF ExistsBijection
<1>6. Answered!Cardinality(S) = Cardinality(S)
  BY DEF Answered!Cardinality, Cardinality
<1> QED
  BY <1>1, <1>2, <1>5, <1>6 DEF I, Answered!Orders
-----------------------------------------------------------------------------
(* What a move of one goroutine does to pc. *)
LEMMA Moved ==
  ASSUME TypeOK, NEW r \in Requests, NEW n \in Nodes, NEW to \in Places,
         pc' = [pc EXCEPT ![r][n] = to]
  PROVE  pc' \in [Requests -> [Nodes -> Places]]
  BY DEF TypeOK

LEMMA TypeStep == TypeOK /\ [Next]_vars => TypeOK'
<1> SUFFICES ASSUME TypeOK, [Next]_vars PROVE TypeOK'
  OBVIOUS
<1> USE DEF Places
<1>1. CASE UNCHANGED vars
  BY <1>1 DEF TypeOK, vars
<1>2. ASSUME NEW r \in Requests, Spawn(r) PROVE TypeOK'
  <2>1. spawned[r] + 1 \in 1 .. Len(NodeList)
    BY <1>2, FanOutAssumption DEF FanOutAssumption, TypeOK, Spawn
  <2>2. NodeList[spawned[r] + 1] \in Nodes
    BY <2>1 DEF Nodes
  <2>3. pc' \in [Requests -> [Nodes -> Places]]
    BY <1>2, <2>2 DEF TypeOK, Spawn
  <2> QED BY <1>2, <2>1, <2>3 DEF TypeOK, Spawn, AddBeforeGo
<1>3. ASSUME NEW r \in Requests, Merge(r) PROVE TypeOK'
  BY <1>3 DEF TypeOK, Merge
<1>4. ASSUME NEW r \in Requests, NEW n \in Nodes, Work(r, n) \/ Execute(r, n) \/ Lock(r, n)
      PROVE  TypeOK'
  <2>0. pc' \in [Requests -> [Nodes -> Places]]
    BY <1>4, Moved DEF Work, Connect, ConnectFails, Execute, Executed, Lock, AppendUnlock,
                       Done, Goto
  <2>1. CASE Connect(r, n) \/ Execute(r, n)
    BY <2>0, <2>1 DEF TypeOK, Connect, Execute
  <2>2. CASE ConnectFails(r, n) \/ Executed(r, n)
    <3>1. \E o \in {"ok", "error"} : outcome' = [outcome EXCEPT ![r][n] = o]
      BY <2>2 DEF ConnectFails, Executed
    <3>2. outcome' \in [Requests -> [Nodes -> {"none", "ok", "error"}]]
      BY <3>1 DEF TypeOK
    <3> QED BY <2>0, <2>2, <3>2 DEF TypeOK, ConnectFails, Executed
  <2>4. CASE Lock(r, n)
    <3>1. Slice(r, n) \in Seq(Nodes)
      BY DEF TypeOK, Slice
    <3>2. copy' \in [Requests -> [Nodes -> Seq(Nodes)]]
      BY <2>4, <3>1 DEF TypeOK, Lock
    <3>3. mu' \in [Requests -> Nodes \cup {Free}]
      BY <2>4 DEF TypeOK, Lock
    <3> QED BY <2>0, <2>4, <3>2, <3>3 DEF TypeOK, Lock
  <2>5. CASE AppendUnlock(r, n)
    <3>1. Append(copy[r][n], n) \in Seq(Nodes)
      BY DEF TypeOK
    <3>2. results' \in [Requests -> Seq(Nodes)] /\ errors' \in [Requests -> Seq(Nodes)]
      BY <2>5, <3>1 DEF TypeOK, AppendUnlock
    <3>3. mu' \in [Requests -> Nodes \cup {Free}]
      BY <2>5 DEF TypeOK, AppendUnlock
    <3> QED BY <2>0, <2>5, <3>2, <3>3 DEF TypeOK, AppendUnlock
  <2>6. CASE Done(r, n)
    BY <2>0, <2>6 DEF TypeOK, Done
  <2> QED BY <1>4, <2>1, <2>2, <2>4, <2>5, <2>6 DEF Work
<1> QED
  BY <1>1, <1>2, <1>3, <1>4 DEF Next

(* A statement is not touched by the steps of another. *)
RequestInv(r) == CountInv(r) /\ OutcomeInv(r) /\ MutexInv(r) /\ SliceInv(r)

Untouched(r) ==
  /\ spawned'[r] = spawned[r] /\ wg'[r] = wg[r] /\ pc'[r] = pc[r]
  /\ outcome'[r] = outcome[r] /\ mu'[r] = mu[r] /\ copy'[r] = copy[r]
  /\ results'[r] = results[r] /\ errors'[r] = errors[r] /\ answer'[r] = answer[r]

LEMMA UntouchedKeeps ==
  ASSUME NEW r \in Requests, RequestInv(r), Untouched(r)
  PROVE  RequestInv(r)'
<1>1. CountInv(r)'
  BY DEF RequestInv, Untouched, CountInv, Live
<1>2. OutcomeInv(r)' /\ MutexInv(r)'
  BY DEF RequestInv, Untouched, OutcomeInv, MutexInv, Slice
<1>3. SliceInv(r)'
  BY DEF RequestInv, Untouched, SliceInv, Appended
<1> QED
  BY <1>1, <1>2, <1>3 DEF RequestInv

LEMMA OthersUntouched ==
  ASSUME TypeOK, NEW r \in Requests, NEW q \in Requests, q # r,
         \/ Spawn(r) \/ Merge(r)
         \/ \E n \in Nodes : Work(r, n) \/ Execute(r, n) \/ Lock(r, n)
  PROVE  Untouched(q)
<1>1. CASE Spawn(r) \/ Merge(r)
  BY <1>1 DEF TypeOK, Untouched, Spawn, AddBeforeGo, Merge
<1>2. ASSUME NEW n \in Nodes, Work(r, n) \/ Execute(r, n) \/ Lock(r, n)
      PROVE  Untouched(q)
  BY <1>2 DEF TypeOK, Untouched, Work, Connect, ConnectFails, Execute, Executed, Lock,
              AppendUnlock, Done, Goto
<1> QED
  BY <1>1, <1>2
-----------------------------------------------------------------------------
(* The wait group is counted up when a goroutine starts and down when it    *)
(* ends, and there is no answer before it is zero.                          *)
LEMMA LiveFinite == ASSUME NEW r PROVE IsFiniteSet(Live(r))
  BY NodesFinite, FS_Subset DEF Live

LEMMA SpawnCounts ==
  ASSUME TypeOK, NEW r \in Requests, CountInv(r), Spawn(r)
  PROVE  CountInv(r)'
<1> DEFINE k == spawned[r] + 1
           n == NodeList[k]
<1>1. k \in 1 .. Len(NodeList) /\ spawned'[r] = k /\ Len(NodeList) \in Nat
  BY FanOutAssumption DEF FanOutAssumption, TypeOK, Spawn
<1>2. n \in Nodes
  BY <1>1 DEF Nodes
<1>3. pc[r][n] = "unborn"
  BY <1>1 DEF CountInv, TypeOK
<1>4. \A m \in Nodes : pc'[r][m] = IF m = n THEN "connect" ELSE pc[r][m]
  BY <1>2 DEF TypeOK, Spawn
<1>5. Live(r)' = Live(r) \cup {n} /\ n \notin Live(r)
  BY <1>2, <1>3, <1>4 DEF Live
<1>6. Cardinality(Live(r)') = Cardinality(Live(r)) + 1
  BY <1>5, LiveFinite, FS_AddElement
<1>7. wg'[r] = Cardinality(Live(r)')
  BY <1>6 DEF CountInv, TypeOK, Spawn, AddBeforeGo
<1>8. ASSUME NEW i \in 1 .. Len(NodeList)
      PROVE  pc'[r][NodeList[i]] = "unborn" <=> i > k
  <2>1. NodeList[i] \in Nodes
    BY DEF Nodes
  <2>2. CASE i = k
    BY <1>1, <1>4, <2>1, <2>2
  <2>3. CASE i # k
    <3>1. NodeList[i] # n
      BY <1>1, <2>3, FanOutAssumption DEF FanOutAssumption
    <3>2. pc[r][NodeList[i]] = "unborn" <=> i > spawned[r]
      BY DEF CountInv
    <3>3. i > spawned[r] <=> i > k
      BY <1>1, <2>3 DEF TypeOK
    <3> QED BY <1>4, <2>1, <3>1, <3>2, <3>3
  <2> QED BY <2>2, <2>3
<1>9. answer'[r] = NoAnswer
  BY DEF TypeOK, CountInv, Spawn
<1> QED
  BY <1>1, <1>7, <1>8, <1>9 DEF CountInv

LEMMA WorkCounts ==
  ASSUME TypeOK, NEW r \in Requests, CountInv(r), NEW n \in Nodes,
         Work(r, n) \/ Execute(r, n) \/ Lock(r, n)
  PROVE  CountInv(r)'
<1> USE DEF Places
<1>1. CASE Done(r, n)
  <2>1. \A m \in Nodes : pc'[r][m] = IF m = n THEN "gone" ELSE pc[r][m]
    BY <1>1 DEF TypeOK, Done, Goto
  <2>2. Live(r)' = Live(r) \ {n} /\ n \in Live(r)
    BY <1>1, <2>1 DEF Live, Done, Goto
  <2>3. Cardinality(Live(r)') = Cardinality(Live(r)) - 1
    BY <2>2, LiveFinite, FS_RemoveElement
  <2>4. wg'[r] = Cardinality(Live(r)')
    BY <1>1, <2>3 DEF CountInv, TypeOK, Done
  <2>5. \A i \in 1 .. Len(NodeList) : pc'[r][NodeList[i]] = "unborn" <=> pc[r][NodeList[i]] = "unborn"
    BY <1>1, <2>1 DEF Nodes, Done, Goto
  <2> QED BY <1>1, <2>2, <2>4, <2>5 DEF CountInv, Done
<1>2. CASE ~Done(r, n)
  <2>1. PICK to \in Places \ {"unborn", "gone"} :
          pc[r][n] \notin {"unborn", "gone"} /\ pc' = [pc EXCEPT ![r][n] = to]
    BY <1>2 DEF Work, Connect, ConnectFails, Execute, Executed, Lock, AppendUnlock, Goto
  <2>2. \A m \in Nodes : pc'[r][m] = IF m = n THEN to ELSE pc[r][m]
    BY <2>1 DEF TypeOK
  <2>3. Live(r)' = Live(r)
    BY <2>1, <2>2 DEF Live
  <2>4. UNCHANGED <<spawned, wg, answer>>
    BY <1>2 DEF Work, Connect, ConnectFails, Execute, Executed, Lock, AppendUnlock
  <2>5. \A i \in 1 .. Len(NodeList) : pc'[r][NodeList[i]] = "unborn" <=> pc[r][NodeList[i]] = "unborn"
    BY <2>1, <2>2 DEF Nodes
  <2> QED BY <2>3, <2>4, <2>5 DEF CountInv
<1> QED
  BY <1>1, <1>2

LEMMA MergeCounts ==
  ASSUME TypeOK, NEW r \in Requests, CountInv(r), Merge(r)
  PROVE  CountInv(r)'
<1>1. Live(r) = {}
  BY LiveFinite, FS_EmptySet DEF CountInv, Merge
<1>2. Live(r)' = Live(r)
  BY DEF Live, Merge
<1> QED
  BY <1>1, <1>2 DEF CountInv, Merge
-----------------------------------------------------------------------------
(* Outcomes, the mutex and the slices. *)
LEMMA OutcomeStep ==
  ASSUME TypeOK, NEW r \in Requests, OutcomeInv(r), NEW n \in Nodes,
         Work(r, n) \/ Execute(r, n) \/ Lock(r, n)
  PROVE  OutcomeInv(r)'
<1> SUFFICES ASSUME NEW m \in Nodes
             PROVE  outcome'[r][m] = "none" <=>
                      pc'[r][m] \in {"unborn", "connect", "execute", "running"}
  BY DEF OutcomeInv
<1>1. CASE m # n
  BY <1>1 DEF TypeOK, OutcomeInv, Work, Connect, ConnectFails, Execute, Executed, Lock,
              AppendUnlock, Done, Goto
<1>2. CASE m = n
  BY <1>2 DEF TypeOK, OutcomeInv, Work, Connect, ConnectFails, Execute, Executed, Lock,
              AppendUnlock, Done, Goto
<1> QED
  BY <1>1, <1>2

(* No other goroutine of the statement is between its read and its store    *)
(* while one is, so that what it read is what it adds to.                   *)
LEMMA MutexStep ==
  ASSUME TypeOK, NEW r \in Requests, OutcomeInv(r), MutexInv(r), NEW n \in Nodes,
         Work(r, n) \/ Execute(r, n) \/ Lock(r, n)
  PROVE  MutexInv(r)'
<1> SUFFICES ASSUME NEW m \in Nodes
             PROVE  /\ mu'[r] = m <=> pc'[r][m] = "append"
                    /\ pc'[r][m] = "append" => copy'[r][m] = Slice(r, m)'
  BY DEF MutexInv
<1>0. Free \notin Nodes
  BY FanOutAssumption DEF FanOutAssumption
<1>1. CASE Lock(r, n)
  <2>1. Slice(r, m)' = Slice(r, m)
    BY <1>1 DEF Slice, Lock
  <2>2. mu[r] = Free /\ mu'[r] = n /\ copy'[r][n] = Slice(r, n)
    BY <1>1 DEF TypeOK, Lock
  <2>3. m # n => pc'[r][m] = pc[r][m] /\ pc[r][m] # "append"
    BY <1>0, <1>1, <2>2 DEF TypeOK, MutexInv, Lock, Goto
  <2>4. pc'[r][n] = "append"
    BY <1>1 DEF TypeOK, Lock, Goto
  <2> QED BY <2>1, <2>2, <2>3, <2>4
<1>2. CASE AppendUnlock(r, n)
  <2>1. mu[r] = n /\ mu'[r] = Free
    BY <1>2 DEF TypeOK, MutexInv, AppendUnlock, Goto
  <2>2. pc'[r][n] = "done" /\ (m # n => pc'[r][m] = pc[r][m])
    BY <1>2 DEF TypeOK, AppendUnlock, Goto
  <2>3. pc'[r][m] # "append"
    BY <2>1, <2>2 DEF MutexInv
  <2> QED BY <1>0, <2>1, <2>3
<1>3. CASE (Work(r, n) /\ ~AppendUnlock(r, n)) \/ Execute(r, n)
  <2>1. UNCHANGED <<mu, copy, results, errors>>
    BY <1>3 DEF Work, Connect, ConnectFails, Execute, Executed, Done
  <2>2. pc[r][n] # "append" /\ pc'[r][n] # "append"
    BY <1>3 DEF TypeOK, Work, Connect, ConnectFails, Execute, Executed, Done, Goto
  <2>3. m # n => pc'[r][m] = pc[r][m] /\ outcome'[r][m] = outcome[r][m]
    BY <1>3 DEF TypeOK, Work, Connect, ConnectFails, Execute, Executed, Done, Goto
  <2>4. m # n => Slice(r, m)' = Slice(r, m)
    BY <2>1, <2>3 DEF Slice
  <2> QED BY <2>1, <2>2, <2>3, <2>4 DEF MutexInv
<1> QED
  BY <1>1, <1>2, <1>3

(* The slices list the nodes whose append is over. *)
LEMMA SliceStep ==
  ASSUME TypeOK, NEW r \in Requests, OutcomeInv(r), MutexInv(r), SliceInv(r), NEW n \in Nodes,
         Work(r, n) \/ Execute(r, n) \/ Lock(r, n)
  PROVE  SliceInv(r)'
<1>1. CASE AppendUnlock(r, n)
  <2> DEFINE o == outcome[r][n]
  <2>1. o \in {"ok", "error"}
    <3>1. pc[r][n] = "append"
      BY <1>1 DEF AppendUnlock, Goto
    <3>2. outcome[r][n] # "none"
      BY <3>1 DEF OutcomeInv
    <3>3. outcome[r][n] \in {"none", "ok", "error"}
      BY DEF TypeOK
    <3> QED BY <3>2, <3>3
  <2>2. n \notin Appended(r, o)
    BY <1>1 DEF Appended, AppendUnlock, Goto
  <2>3. \A e : Appended(r, e)' = IF e = o THEN Appended(r, e) \cup {n} ELSE Appended(r, e)
    BY <1>1 DEF TypeOK, Appended, AppendUnlock, Goto
  <2>4. copy[r][n] = Slice(r, n)
    BY <1>1 DEF MutexInv, AppendUnlock, Goto
  <2>5. CASE o = "ok"
    <3>1. results'[r] = Append(results[r], n) /\ errors' = errors
      BY <1>1, <2>4, <2>5 DEF TypeOK, AppendUnlock, Slice
    <3>2. Lists(Append(results[r], n), Appended(r, "ok") \cup {n})
      BY <2>2, <2>5, ListsAppend DEF SliceInv
    <3> QED BY <2>3, <2>5, <3>1, <3>2 DEF SliceInv
  <2>6. CASE o = "error"
    <3>1. errors'[r] = Append(errors[r], n) /\ results' = results
      BY <1>1, <2>4, <2>6 DEF TypeOK, AppendUnlock, Slice
    <3>2. Lists(Append(errors[r], n), Appended(r, "error") \cup {n})
      BY <2>2, <2>6, ListsAppend DEF SliceInv
    <3> QED BY <2>3, <2>6, <3>1, <3>2 DEF SliceInv
  <2> QED BY <2>1, <2>5, <2>6
<1>2. CASE ~AppendUnlock(r, n)
  <2>1. UNCHANGED <<results, errors>>
    BY <1>2 DEF Work, Connect, ConnectFails, Execute, Executed, Lock, Done
  <2>2. ASSUME NEW e PROVE Appended(r, e)' = Appended(r, e)
    BY <1>2 DEF TypeOK, Appended, Work, Connect, ConnectFails, Execute, Executed, Lock, Done, Goto
  <2> QED BY <2>1, <2>2 DEF SliceInv
<1> QED
  BY <1>1, <1>2

(* A goroutine that starts has no outcome, and nothing of it is appended. *)
LEMMA SpawnKeeps ==
  ASSUME TypeOK, NEW r \in Requests, RequestInv(r), Spawn(r)
  PROVE  OutcomeInv(r)' /\ MutexInv(r)' /\ SliceInv(r)'
<1> DEFINE n == NodeList[spawned[r] + 1]
<1>1. n \in Nodes /\ pc[r][n] = "unborn"
  <2>1. spawned[r] + 1 \in 1 .. Len(NodeList) /\ spawned[r] + 1 > spawned[r]
    BY FanOutAssumption DEF FanOutAssumption, TypeOK, Spawn
  <2> QED BY <2>1 DEF Nodes, RequestInv, CountInv
<1>2. \A m \in Nodes : pc'[r][m] = IF m = n THEN "connect" ELSE pc[r][m]
  BY <1>1 DEF TypeOK, Spawn
<1>3. UNCHANGED <<outcome, mu, copy, results, errors>>
  BY DEF Spawn
<1>4. OutcomeInv(r)'
  BY <1>1, <1>2, <1>3 DEF RequestInv, OutcomeInv
<1>5. MutexInv(r)'
  BY <1>1, <1>2, <1>3 DEF RequestInv, MutexInv, Slice
<1>6. \A e : Appended(r, e)' = Appended(r, e)
  BY <1>1, <1>2, <1>3 DEF Appended
<1>7. SliceInv(r)'
  BY <1>3, <1>6 DEF RequestInv, SliceInv
<1> QED
  BY <1>4, <1>5, <1>7
-----------------------------------------------------------------------------
LEMMA InvStep == Inv /\ [Next]_vars => Inv'
<1> SUFFICES ASSUME Inv, [Next]_vars PROVE Inv'
  OBVIOUS
<1>1. TypeOK /\ TypeOK'
  BY TypeStep DEF Inv
<1>2. \A q \in Requests : RequestInv(q)
  BY DEF Inv, RequestInv
<1>3. ASSUME NEW q \in Requests PROVE RequestInv(q)'
  <2>1. CASE UNCHANGED vars
    <3>1. Untouched(q)
      BY <2>1 DEF vars, Untouched
    <3> QED BY <1>2, <3>1, UntouchedKeeps
  <2>2. ASSUME NEW r \in Requests,
               \/ Spawn(r) \/ Merge(r)
               \/ \E n \in Nodes : Work(r, n) \/ Execute(r, n) \/ Lock(r, n)
        PROVE  RequestInv(q)'
    <3>1. CASE q # r
      BY <1>1, <1>2, <2>2, <3>1, OthersUntouched, UntouchedKeeps
    <3>2. CASE q = r /\ Spawn(r)
      BY <1>1, <1>2, <3>2, SpawnCounts, SpawnKeeps DEF RequestInv
    <3>3. CASE q = r /\ Merge(r)
      <4>1. CountInv(r)'
        BY <1>1, <1>2, <3>3, MergeCounts DEF RequestInv
      <4>2. UNCHANGED <<pc, outcome, mu, copy, results, errors>>
        BY <3>3 DEF Merge
      <4>3. OutcomeInv(r)' /\ MutexInv(r)'
        BY <1>2, <4>2 DEF RequestInv, OutcomeInv, MutexInv, Slice
      <4>4. SliceInv(r)'
        BY <1>2, <4>2 DEF RequestInv, SliceInv, Appended
      <4> QED BY <3>3, <4>1, <4>3, <4>4 DEF RequestInv
    <3>4. ASSUME q = r, NEW n \in Nodes, Work(r, n) \/ Execute(r, n) \/ Lock(r, n)
          PROVE  RequestInv(r)'
      BY <1>1, <1>2, <3>4, WorkCounts, OutcomeStep, MutexStep, SliceStep DEF RequestInv
    <3> QED BY <2>2, <3>1, <3>2, <3>3, <3>4
  <2> QED BY <2>1, <2>2 DEF Next
<1> QED
  BY <1>1, <1>3 DEF Inv, RequestInv

LEMMA InitInv == Init => Inv
<1> SUFFICES ASSUME Init PROVE Inv
  OBVIOUS
<1>1. TypeOK
  BY FanOutAssumption DEF FanOutAssumption, Init, TypeOK, Places
<1>2. ASSUME NEW r \in Requests PROVE CountInv(r)
  <2>1. Live(r) = {}
    BY DEF Init, Live
  <2>2. \A i \in 1 .. Len(NodeList) : NodeList[i] \in Nodes
    BY DEF Nodes
  <2> QED BY <2>1, <2>2, FS_EmptySet DEF Init, CountInv
<1>3. ASSUME NEW r \in Requests PROVE OutcomeInv(r) /\ MutexInv(r) /\ SliceInv(r)
  <2>1. \A e \in {"ok", "error"} : Appended(r, e) = {}
    BY DEF Init, Appended
  <2>2. Lists(<<>>, {})
    BY DEF Lists
  <2> QED
    BY <2>1, <2>2, FanOutAssumption DEF FanOutAssumption, Init, OutcomeInv, MutexInv, SliceInv
<1> QED
  BY <1>1, <1>2, <1>3 DEF Inv

(* The wait group, the mutex and the slices do what they are for. *)
THEOREM Invariance == Spec => []Inv
  BY InitInv, InvStep, PTL DEF Spec

(* A statement is answered when its goroutines are done, for any number of  *)
(* nodes, statements and connections.                                       *)
THEOREM AnswersComeLast == Spec => []NothingRunsAfterAnswer
<1>1. Inv => NothingRunsAfterAnswer
  BY DEF Inv, CountInv, Live, NothingRunsAfterAnswer
<1> QED
  BY <1>1, Invariance, PTL
-----------------------------------------------------------------------------
(* The refinement of Gather *)

LEMMA InitRefines == Init => Answered!GInit
  BY DEF Init, Ok, Failed, Answered!GInit

(* A goroutine that has executed the statement, or that could not, does     *)
(* Gather's step for its node; none of its other steps is seen there.       *)
LEMMA OutcomeRefines ==
  ASSUME Inv, NEW r \in Requests, NEW n \in Nodes, NEW o \in {"ok", "error"},
         pc[r][n] \in {"connect", "running"},
         outcome' = [outcome EXCEPT ![r][n] = o], answer' = answer
  PROVE  Answered!Execute(r, n) \/ Answered!Fail(r, n)
<1>1. outcome[r][n] = "none"
  BY DEF Inv, OutcomeInv
<1>2. answer[r] = NoAnswer
  BY DEF Inv, CountInv, Live
<1>3. \A q \in Requests, m \in Nodes :
        outcome'[q][m] = IF q = r /\ m = n THEN o ELSE outcome[q][m]
  BY DEF Inv, TypeOK
<1>4. n \in Answered!Pending(r)
  BY <1>1 DEF Answered!Pending, Ok, Failed
<1>5. CASE o = "ok"
  <2>1. \A q \in Requests : Ok(q)' = IF q = r THEN Ok(q) \cup {n} ELSE Ok(q)
    BY <1>1, <1>3, <1>5 DEF Ok
  <2>2. \A q \in Requests : Failed(q)' = Failed(q)
    BY <1>1, <1>3, <1>5 DEF Failed
  <2> QED BY <1>2, <1>4, <2>1, <2>2 DEF Answered!Execute
<1>6. CASE o = "error"
  <2>1. \A q \in Requests : Failed(q)' = IF q = r THEN Failed(q) \cup {n} ELSE Failed(q)
    BY <1>1, <1>3, <1>6 DEF Failed
  <2>2. \A q \in Requests : Ok(q)' = Ok(q)
    BY <1>1, <1>3, <1>6 DEF Ok
  <2> QED BY <1>2, <1>4, <2>1, <2>2 DEF Answered!Fail
<1> QED
  BY <1>5, <1>6

(* The answer has the parts that Gather's has, in one of its orders. *)
LEMMA MergeRefines ==
  ASSUME Inv, NEW r \in Requests, Merge(r)
  PROVE  Answered!AnswerRows(r) \/ Answered!AnswerError(r)
<1>1. spawned[r] = Len(NodeList) /\ Live(r) = {} /\ answer[r] = NoAnswer
  BY LiveFinite, FS_EmptySet DEF Inv, CountInv, Merge
<1>2. \A n \in Nodes : pc[r][n] = "gone"
  <2>1. ASSUME NEW n \in Nodes PROVE pc[r][n] # "unborn"
    <3>1. PICK i \in 1 .. Len(NodeList) : n = NodeList[i]
      BY NodeAt
    <3>2. ~(i > spawned[r])
      BY <1>1, FanOutAssumption DEF FanOutAssumption
    <3> QED BY <3>1, <3>2 DEF Inv, CountInv
  <2> QED BY <1>1, <2>1 DEF Live
<1>3. \A n \in Nodes : outcome[r][n] \in {"ok", "error"}
  <2>1. \A n \in Nodes : outcome[r][n] # "none"
    BY <1>2 DEF Inv, OutcomeInv
  <2> QED BY <2>1 DEF Inv, TypeOK
<1>4. Appended(r, "ok") = Ok(r) /\ Appended(r, "error") = Failed(r)
  BY <1>2 DEF Appended, Ok, Failed
<1>5. Lists(results[r], Ok(r)) /\ Lists(errors[r], Failed(r))
  BY <1>4 DEF Inv, SliceInv
<1>6. Answered!Pending(r) = {}
  BY <1>3 DEF Answered!Pending, Ok, Failed
<1>7. \A q \in Requests : Ok(q)' = Ok(q) /\ Failed(q)' = Failed(q)
  BY DEF Merge, Ok, Failed
<1>8. NodeList[1] \in Nodes
  BY FanOutAssumption DEF FanOutAssumption, Nodes
<1>9. CASE results[r] = <<>>
  <2>1. Ok(r) = {}
    BY <1>5, <1>9 DEF Lists
  <2>2. Failed(r) = Nodes
    BY <1>3, <2>1 DEF Ok, Failed
  <2>3. errors[r] # <<>> /\ errors[r][1] \in Nodes
    BY <1>5, <1>8, <2>2 DEF Lists
  <2>4. answer' = [answer EXCEPT ![r] = Error(errors[r][1])]
    BY <1>9, <2>3 DEF Merge, Reply
  <2> QED
    BY <1>1, <1>7, <2>2, <2>3, <2>4 DEF Answered!AnswerError, Answered!Error, Error
<1>10. CASE results[r] # <<>>
  <2>1. Ok(r) # {}
    BY <1>5, <1>10 DEF Lists
  <2>2. answer' = [answer EXCEPT ![r] = Rows(results[r])]
    BY <1>10 DEF Merge, Reply
  <2>3. results[r] \in Answered!Orders(Ok(r))
    BY <1>5, ListsOrder
  <2> QED
    BY <1>1, <1>6, <1>7, <2>1, <2>2, <2>3 DEF Answered!AnswerRows, Answered!Rows, Rows
<1> QED
  BY <1>9, <1>10

LEMMA StepRefines == Inv /\ [Next]_vars => [Answered!GNext]_(Answered!gvars)
<1> SUFFICES ASSUME Inv, [Next]_vars
             PROVE  Answered!GNext \/ UNCHANGED Answered!gvars
  OBVIOUS
<1>1. ASSUME UNCHANGED <<outcome, answer>> PROVE UNCHANGED Answered!gvars
  BY <1>1 DEF Answered!gvars, Ok, Failed
<1>2. ASSUME NEW r \in Requests, Merge(r) PROVE Answered!GNext
  BY <1>2, MergeRefines DEF Answered!GNext
<1>3. ASSUME NEW r \in Requests, NEW n \in Nodes, ConnectFails(r, n) \/ Executed(r, n)
      PROVE  Answered!GNext
  <2>1. PICK o \in {"ok", "error"} : outcome' = [outcome EXCEPT ![r][n] = o]
    BY <1>3 DEF ConnectFails, Executed
  <2>2. pc[r][n] \in {"connect", "running"} /\ answer' = answer
    BY <1>3 DEF ConnectFails, Executed, Goto
  <2>3. Answered!Execute(r, n) \/ Answered!Fail(r, n)
    BY <2>1, <2>2, OutcomeRefines
  <2> QED BY <2>3 DEF Answered!GNext
<1>4. ASSUME NEW r \in Requests, Spawn(r) PROVE UNCHANGED <<outcome, answer>>
  BY <1>4 DEF Spawn
<1>5. ASSUME NEW r \in Requests, NEW n \in Nodes,
             \/ Connect(r, n) \/ Execute(r, n) \/ Lock(r, n)
             \/ AppendUnlock(r, n) \/ Done(r, n)
      PROVE  UNCHANGED <<outcome, answer>>
  BY <1>5 DEF Connect, Execute, Lock, AppendUnlock, Done
<1>6. CASE UNCHANGED vars
  BY <1>1, <1>6 DEF vars
<1> QED
  BY <1>1, <1>2, <1>3, <1>4, <1>5, <1>6 DEF Next, Work

(* executeOnMultipleNodes does what Gather promises, for any number of      *)
(* nodes: no part of the answer is lost, repeated or made up.               *)
THEOREM RefinesGather == Spec => ImplementsGather
<1>1. Inv /\ [Next]_vars => [Answered!GNext]_(Answered!gvars)
  BY StepRefines
<1> QED
  BY <1>1, InitRefines, Invariance, PTL DEF Spec, ImplementsGather, Answered!GSpec
=============================================================================
