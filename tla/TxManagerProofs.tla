--------------------------- MODULE TxManagerProofs ---------------------------
(***************************************************************************)
(* Proofs about TxManager for any goroutines, data sources, ids and bounds *)
(* of the pools: what a registered transaction is, that no connection is   *)
(* lost but by the races of JoinTransaction and of equal ids, and what the *)
(* results of CommitTransaction mean.                                      *)
(***************************************************************************)
EXTENDS TxManager, SequenceTheorems, TLAPS

Beginning == {"newContext", "publish"}
Joining == {"joinLookup", "joinStatus", "joinExists", "joinBegin", "joinStore"}

(* The calls that end a transaction are exactly those that hold the lock. *)
LockInv == \A c \in Callers : pc[c] \in Holding <=> mu = c

(* A call has the locals that its place in the code has assigned. *)
LocalInv ==
  \A c \in Callers :
    /\ pc[c] \in Joining \cup Beginning \cup {"begin", "execBegin", "execFn"} =>
         local[c].src \in Sources
    /\ pc[c] \in {"newContext", "publish", "joinStore", "execFn"} =>
         local[c].tx \in 1 .. Len(branches)
    /\ pc[c] \in Joining \cup Waiting \cup Holding \cup {"publish"} =>
         local[c].ctx \in 1 .. Len(ctxs)

(* What the map has under an id is an active transaction with that id. *)
RegInv ==
  \A i \in Ids : transactions[i] # None =>
    /\ ctxs[transactions[i]].id = i
    /\ ctxs[transactions[i]].status = "active"

(* A transaction that is about to be published is known to its goroutine only. *)
PublishInv ==
  \A c \in Callers : pc[c] = "publish" =>
    LET x == local[c].ctx IN
    /\ x \notin Registered
    /\ ctxs[x].status = "active"
    /\ ctxs[x].sources[local[c].src] = local[c].tx
    /\ \A d \in Callers \ {c} : local[d].ctx # x

(* What the holder of the lock ends is in the map until it is deleted. *)
HolderInv ==
  \A c \in Callers : pc[c] \in Holding => transactions[ctxs[local[c].ctx].id] = local[c].ctx

Done == {"committed", "failed", "rolledBack"}

(* What becomes of the branches that a loop has passed. *)
Good(p) == IF p = "committing" THEN {"committed"} ELSE Done

Passed(x, s, good) ==
  ctxs[x].sources[s] \in astray \/ branches[ctxs[x].sources[s]].state \in good

VisitInv ==
  \A c \in Callers : pc[c] \in Holding =>
    \A s \in Joined(local[c].ctx) \ local[c].todo : Passed(local[c].ctx, s, Good(pc[c]))

IInv ==
  /\ TypeOK /\ LockInv /\ LocalInv /\ RegInv /\ PublishInv
  /\ HolderInv /\ VisitInv /\ NoBranchLeaks
-----------------------------------------------------------------------------
(* The steps as the proofs use them: what each kind of step keeps and what *)
(* it changes, at each goroutine, transaction and branch.                  *)

Locals(n, m) == [ctx : 0 .. n, src : Sources \cup {None}, tx : 0 .. m, todo : SUBSET Sources]
Contexts(m) == [id : Ids, status : {"active", "committed", "rolledBack"},
                sources : [Sources -> 0 .. m]]
Branches == [source : Sources, state : {"open"} \cup Done]

Kept(c) == \A d \in Callers \ {c} : pc'[d] = pc[d] /\ local'[d] = local[d]

(* Branches that are done stay as they are. *)
Settles ==
  /\ Len(branches') = Len(branches)
  /\ \A b \in 1 .. Len(branches) :
       branches'[b] = branches[b] \/ (branches[b].state = "open" /\ branches'[b].state \in Done)

(* A call begins, fails, or goes on to where it will connect. *)
Wanders(c) ==
  /\ UNCHANGED <<transactions, ctxs, branches, mu, astray>>
  /\ Kept(c)
  /\ pc[c] \notin Holding \cup {"newContext", "publish", "joinStore", "execFn"}
  /\ pc'[c] \in Waiting \cup {"idle", "begin", "execBegin", "joinStatus", "joinExists", "joinBegin"}
  /\ pc'[c] \in Joining \cup {"begin", "execBegin"} => local'[c].src \in Sources
  /\ pc'[c] \in Joining \cup Waiting => local'[c].ctx \in 1 .. Len(ctxs)
  /\ local'[c].ctx \in {None, local[c].ctx} \cup Registered

Connects(c) ==
  /\ UNCHANGED <<transactions, ctxs, mu, astray>>
  /\ Kept(c)
  /\ Len(branches') = Len(branches) + 1
  /\ \A b \in 1 .. Len(branches) : branches'[b] = branches[b]
  /\ <<pc[c], pc'[c]>> \in
       {<<"begin", "newContext">>, <<"joinBegin", "joinStore">>, <<"execBegin", "execFn">>}
  /\ local'[c].ctx = local[c].ctx /\ local'[c].src = local[c].src
  /\ local'[c].tx = Len(branches')

MakesContext(c) ==
  /\ UNCHANGED <<transactions, branches, mu, astray>>
  /\ Kept(c)
  /\ pc[c] = "newContext" /\ pc'[c] = "publish"
  /\ Len(ctxs') = Len(ctxs) + 1
  /\ \A y \in 1 .. Len(ctxs) : ctxs'[y] = ctxs[y]
  /\ ctxs'[Len(ctxs')].status = "active"
  /\ ctxs'[Len(ctxs')].sources[local[c].src] = local[c].tx
  /\ local'[c].ctx = Len(ctxs')
  /\ local'[c].src = local[c].src /\ local'[c].tx = local[c].tx

Publishes(c) ==
  /\ Publish(c)
  /\ Kept(c)
  /\ pc'[c] = "idle" /\ local'[c] = NoLocals

(* The context x gets the branch b for the data source s. *)
Stores(c, x, s, b) ==
  /\ UNCHANGED <<transactions, branches, mu>>
  /\ pc[c] = "joinStore" /\ pc'[c] = "idle"
  /\ x = local[c].ctx /\ b = local[c].tx
  /\ local'[c] = NoLocals
  /\ \A d \in Callers \ {c} :
       /\ pc'[d] = pc[d]
       /\ local'[d].ctx = local[d].ctx /\ local'[d].src = local[d].src
       /\ local'[d].tx = local[d].tx /\ local[d].todo \subseteq local'[d].todo
  /\ Len(ctxs') = Len(ctxs)
  /\ \A y \in 1 .. Len(ctxs) :
       /\ ctxs'[y].id = ctxs[y].id /\ ctxs'[y].status = ctxs[y].status
       /\ \A t \in Sources : ctxs'[y].sources[t] = IF y = x /\ t = s THEN b ELSE ctxs[y].sources[t]
  /\ astray \subseteq astray'
  /\ ctxs[x].sources[s] \in astray' \cup {None}
  /\ (mu # NoCaller /\ local[mu].ctx = x) \/ x \notin Registered => b \in astray'

Enters(c) ==
  /\ UNCHANGED <<transactions, ctxs, branches, astray>>
  /\ Kept(c)
  /\ mu = NoCaller /\ mu' = c
  /\ pc[c] \in Waiting /\ pc'[c] \in Holding
  /\ local'[c].ctx \in Registered
  /\ local'[c].todo = Joined(local'[c].ctx)

(* A loop goes on, or starts from its beginning after an error. *)
Visits(c) ==
  /\ UNCHANGED <<transactions, ctxs, mu, astray>>
  /\ Kept(c)
  /\ Settles
  /\ pc[c] \in Holding /\ pc'[c] \in Holding
  /\ local'[c].ctx = local[c].ctx
  /\ \A s \in Joined(local[c].ctx) \ local'[c].todo :
       /\ pc'[c] = pc[c]
       /\ s \in local[c].todo =>
            branches'[ctxs[local[c].ctx].sources[s]].state \in Good(pc[c])

(* A call that ends a transaction returns; but for a commit that failed, it *)
(* has deleted it from the map.                                             *)
Ends(c, x) ==
  /\ UNCHANGED <<branches, astray>>
  /\ Kept(c)
  /\ pc[c] \in Holding /\ pc'[c] = "idle"
  /\ mu' = NoCaller
  /\ x = local[c].ctx /\ local'[c] = NoLocals
  /\ pc[c] # "closing" => local[c].todo = {}
  /\ Len(ctxs') = Len(ctxs)
  /\ \A y \in 1 .. Len(ctxs) :
       /\ ctxs'[y].id = ctxs[y].id /\ ctxs'[y].sources = ctxs[y].sources
       /\ y # x => ctxs'[y].status = ctxs[y].status
  /\ \/ UNCHANGED <<transactions, ctxs>>
     \/ /\ transactions' = [transactions EXCEPT ![ctxs[x].id] = None]
        /\ ctxs[x].status = "active" => local[c].todo = {}

Executes(c) ==
  /\ UNCHANGED <<transactions, ctxs, mu, astray>>
  /\ Kept(c)
  /\ Settles
  /\ pc[c] = "execFn" /\ pc'[c] = "idle" /\ local'[c] = NoLocals
  /\ branches'[local[c].tx].state # "open"

Steps(c) ==
  \/ Wanders(c) \/ Connects(c) \/ MakesContext(c) \/ Publishes(c) \/ Enters(c)
  \/ Visits(c) \/ Executes(c)
  \/ \E x \in 1 .. Len(ctxs) : Ends(c, x)
  \/ \E x \in 1 .. Len(ctxs), s \in Sources, b \in 1 .. Len(branches) : Stores(c, x, s, b)
-----------------------------------------------------------------------------
(* Types *)

LEMMA InitInv == Init => IInv
<1> SUFFICES ASSUME Init PROVE IInv
  OBVIOUS
<1>1. TypeOK
  BY DEF Init, TypeOK, NoLocals, None
<1>2. Registered = {}
  BY DEF Init, Registered
<1> QED
  BY <1>1, TxManagerAssumption DEF Init, IInv, LockInv, LocalInv, RegInv, PublishInv,
     HolderInv, VisitInv, NoBranchLeaks, Holding, Waiting, Joining, Beginning, TxManagerAssumption

(* TypeOK, one set of records at a time. *)
Types ==
  /\ transactions \in [Ids -> 0 .. Len(ctxs)]
  /\ ctxs \in Seq(Contexts(Len(branches)))
  /\ branches \in Seq(Branches)
  /\ mu \in Callers \cup {NoCaller}
  /\ pc \in [Callers -> Holding \cup Waiting \cup {"idle", "begin", "newContext", "publish",
       "joinStatus", "joinExists", "joinBegin", "joinStore", "execBegin", "execFn"}]
  /\ local \in [Callers -> Locals(Len(ctxs), Len(branches))]
  /\ astray \subseteq 1 .. Len(branches)

LEMMA BranchesAre == Branches = [source : Sources, state : {"open", "committed", "failed", "rolledBack"}]
<1>1. {"open"} \cup Done = {"open", "committed", "failed", "rolledBack"}
  BY DEF Done
<1> QED BY <1>1 DEF Branches

LEMMA Typed == TypeOK <=> Types
  BY BranchesAre DEF TypeOK, Types, Contexts, Locals

LEMMA TypedNext == TypeOK' <=> Types'
  BY BranchesAre DEF TypeOK, Types, Contexts, Locals

(* The locals of one goroutine change; there may be more to point to. *)
LEMMA LocalChange ==
  ASSUME NEW c \in Callers, NEW n \in Nat, NEW m \in Nat, n >= Len(ctxs), m >= Len(branches),
         TypeOK, NEW l \in Locals(n, m), local' = [local EXCEPT ![c] = l]
  PROVE  local' \in [Callers -> Locals(n, m)] /\ local'[c] = l
           /\ \A d \in Callers \ {c} : local'[d] = local[d]
<1>1. local \in [Callers -> Locals(Len(ctxs), Len(branches))]
  BY Typed DEF Types
<1>2. /\ Len(ctxs) \in Nat /\ Len(branches) \in Nat
  BY Typed DEF Types
<1>3. 0 .. Len(ctxs) \subseteq 0 .. n /\ 0 .. Len(branches) \subseteq 0 .. m
  BY <1>2
<1>4. Locals(Len(ctxs), Len(branches)) \subseteq Locals(n, m)
  BY <1>3 DEF Locals
<1> QED
  BY <1>1, <1>4

LEMMA LocalsAre ==
  ASSUME TypeOK, NEW c \in Callers
  PROVE  /\ local[c] \in Locals(Len(ctxs), Len(branches))
         /\ Len(ctxs) \in Nat /\ Len(branches) \in Nat
  BY Typed DEF Types

LEMMA ContextsAre ==
  ASSUME TypeOK, NEW x \in 1 .. Len(ctxs)
  PROVE  /\ ctxs[x] \in Contexts(Len(branches))
         /\ ctxs[x].id \in Ids
         /\ ctxs[x].status \in {"active", "committed", "rolledBack"}
         /\ ctxs[x].sources \in [Sources -> 0 .. Len(branches)]
<1>1. ctxs \in Seq(Contexts(Len(branches)))
  BY Typed DEF Types
<1>2. ctxs[x] \in Contexts(Len(branches))
  BY <1>1, ElementOfSeq
<1> QED
  BY <1>2 DEF Contexts

LEMMA BranchesHave ==
  ASSUME TypeOK, NEW b \in 1 .. Len(branches)
  PROVE  branches[b] \in Branches /\ branches[b].state \in {"open"} \cup Done
<1>1. branches \in Seq(Branches)
  BY Typed DEF Types
<1>2. branches[b] \in Branches
  BY <1>1, ElementOfSeq
<1> QED
  BY <1>2 DEF Branches

LEMMA TxSet ==
  ASSUME NEW n \in Nat, NEW m \in Nat, NEW k \in Nat, m <= k,
         NEW l \in Locals(n, m), NEW t \in 0 .. k
  PROVE  /\ [l EXCEPT !.tx = t] \in Locals(n, k)
         /\ [l EXCEPT !.tx = t].tx = t
         /\ [l EXCEPT !.tx = t].ctx = l.ctx /\ [l EXCEPT !.tx = t].src = l.src /\ [l EXCEPT !.tx = t].todo = l.todo
  BY DEF Locals

LEMMA TodoSet ==
  ASSUME NEW n \in Nat, NEW m \in Nat, NEW l \in Locals(n, m), NEW t \in SUBSET Sources
  PROVE  /\ [l EXCEPT !.todo = t] \in Locals(n, m)
         /\ [l EXCEPT !.todo = t].todo = t
         /\ [l EXCEPT !.todo = t].ctx = l.ctx /\ [l EXCEPT !.todo = t].src = l.src /\ [l EXCEPT !.todo = t].tx = l.tx
  BY DEF Locals

LEMMA CtxSet ==
  ASSUME NEW n \in Nat, NEW m \in Nat, NEW k \in Nat, n <= k,
         NEW l \in Locals(n, m), NEW t \in 0 .. k
  PROVE  /\ [l EXCEPT !.ctx = t] \in Locals(k, m)
         /\ [l EXCEPT !.ctx = t].ctx = t
         /\ [l EXCEPT !.ctx = t].src = l.src /\ [l EXCEPT !.ctx = t].tx = l.tx /\ [l EXCEPT !.ctx = t].todo = l.todo
  BY DEF Locals

LEMMA SrcSet ==
  ASSUME NEW n \in Nat, NEW m \in Nat, NEW l \in Locals(n, m), NEW t \in Sources \cup {None}
  PROVE  /\ [l EXCEPT !.src = t] \in Locals(n, m)
         /\ [l EXCEPT !.src = t].src = t
         /\ [l EXCEPT !.src = t].ctx = l.ctx /\ [l EXCEPT !.src = t].tx = l.tx /\ [l EXCEPT !.src = t].todo = l.todo
  BY DEF Locals

LEMMA NoLocalsType ==
  ASSUME NEW n \in Nat, NEW m \in Nat
  PROVE  NoLocals \in Locals(n, m) /\ NoLocals.ctx = None
  BY DEF NoLocals, Locals, None

LEMMA ConnectSteps ==
  ASSUME TypeOK, LocalInv, NEW c \in Callers, Connect(c)
  PROVE  TypeOK' /\ Connects(c)
<1> DEFINE m == Len(branches) + 1
           made == [source |-> local[c].src, state |-> "open"]
<1>1. /\ MakeBranch(c) /\ UNCHANGED <<transactions, ctxs, mu, astray>>
      /\ \E p \in {<<"begin", "newContext">>, <<"joinBegin", "joinStore">>, <<"execBegin", "execFn">>} :
           Goto(c, p[1], p[2])
  BY DEF Connect, Begin, JoinBegin, ExecBegin
<1>2. local[c].src \in Sources
  BY <1>1 DEF LocalInv, Goto, Joining, Beginning
<1>3. branches' = Append(branches, made) /\ made \in Branches
  BY <1>1, <1>2 DEF MakeBranch, Branches
<1>4. /\ branches' \in Seq(Branches) /\ Len(branches') = m
      /\ \A b \in 1 .. Len(branches) : branches'[b] = branches[b]
  BY <1>3, Typed, AppendProperties DEF Types
<1>5. local' = [local EXCEPT ![c] = [local[c] EXCEPT !.tx = m]]
  BY <1>1 DEF MakeBranch
<1>6. /\ [local[c] EXCEPT !.tx = m] \in Locals(Len(ctxs), m)
      /\ [local[c] EXCEPT !.tx = m].tx = m
      /\ [local[c] EXCEPT !.tx = m].ctx = local[c].ctx
      /\ [local[c] EXCEPT !.tx = m].src = local[c].src
  <2>1. m \in Nat /\ Len(branches) <= m /\ m \in 0 .. m
    BY LocalsAre
  <2> HIDE DEF m
  <2> QED BY <2>1, LocalsAre, TxSet
<1>7. /\ local' \in [Callers -> Locals(Len(ctxs), m)]
      /\ local'[c].ctx = local[c].ctx /\ local'[c].src = local[c].src /\ local'[c].tx = m
      /\ \A d \in Callers \ {c} : local'[d] = local[d]
  <2>1. m \in Nat /\ m >= Len(branches) /\ Len(ctxs) >= Len(ctxs)
    BY LocalsAre
  <2> HIDE DEF m
  <2> QED BY <2>1, <1>5, <1>6, LocalsAre, LocalChange
<1>8. ctxs' \in Seq(Contexts(m))
  <2>1. Contexts(Len(branches)) \subseteq Contexts(m)
    BY LocalsAre DEF Contexts
  <2> QED BY <1>1, <2>1, Typed, SeqMonotonic DEF Types
<1>9. Types'
  BY <1>1, <1>4, <1>7, <1>8, Typed DEF Goto, Types, Holding
<1>10. Connects(c)
  BY <1>1, <1>4, <1>7, Typed DEF Types, Connects, Kept, Goto
<1> QED
  BY <1>9, <1>10, TypedNext

(* A step that changes neither contexts nor branches is well typed when the *)
(* locals it leaves are.                                                    *)
LEMMA SmallTypes ==
  ASSUME TypeOK, NEW c \in Callers, NEW l \in Locals(Len(ctxs), Len(branches)),
         UNCHANGED <<transactions, ctxs, branches, astray>>,
         mu' \in Callers \cup {NoCaller}, local' = [local EXCEPT ![c] = l],
         pc' \in [Callers -> Holding \cup Waiting \cup {"idle", "begin", "newContext", "publish",
           "joinStatus", "joinExists", "joinBegin", "joinStore", "execBegin", "execFn"}]
  PROVE  TypeOK' /\ local'[c] = l /\ \A d \in Callers \ {c} : local'[d] = local[d]
<1>1. Len(ctxs) \in Nat /\ Len(branches) \in Nat
  BY LocalsAre
<1>2. /\ local' \in [Callers -> Locals(Len(ctxs), Len(branches))]
      /\ local'[c] = l /\ \A d \in Callers \ {c} : local'[d] = local[d]
  BY Typed DEF Types
<1>3. Types'
  BY <1>2, Typed DEF Types
<1> QED
  BY <1>2, <1>3, TypedNext

LEMMA GotoTypes ==
  ASSUME TypeOK, NEW c \in Callers, NEW from,
         NEW to \in {"idle", "begin", "execBegin", "joinStatus", "joinExists", "joinBegin"}
                  \cup Waiting \cup Holding,
         Goto(c, from, to)
  PROVE  /\ pc' \in [Callers -> Holding \cup Waiting \cup {"idle", "begin", "newContext", "publish",
              "joinStatus", "joinExists", "joinBegin", "joinStore", "execBegin", "execFn"}]
         /\ pc[c] = from /\ pc'[c] = to /\ \A d \in Callers \ {c} : pc'[d] = pc[d]
         /\ mu \in Callers \cup {NoCaller}
  BY Typed DEF Types, Goto

LEMMA WanderSteps ==
  ASSUME TypeOK, LocalInv, NEW c \in Callers,
         \/ BeginFails(c) \/ Refused(c) \/ JoinLookup(c)
         \/ JoinStatus(c) \/ JoinNotActive(c) \/ JoinNew(c) \/ JoinedAlready(c)
         \/ \E x \in 1 .. Len(ctxs) : CallCommit(c, x) \/ CallRollback(c, x) \/ CallClose(c, x)
         \/ \E s \in Sources : CallBegin(c, s) \/ CallExecute(c, s)
         \/ \E x \in 1 .. Len(ctxs), s \in Sources : CallJoin(c, x, s)
  PROVE  TypeOK' /\ Wanders(c)
<1> DEFINE n == Len(ctxs)
           m == Len(branches)
<1>1. n \in Nat /\ m \in Nat /\ local[c] \in Locals(n, m) /\ Typed
  BY LocalsAre, Typed
<1>2. CASE BeginFails(c) \/ Refused(c) \/ JoinNotActive(c) \/ JoinedAlready(c)
  <2>1. /\ UNCHANGED <<transactions, ctxs, branches, mu, astray>>
        /\ \E from \in Waiting \cup {"begin", "joinBegin", "execBegin", "joinStatus", "joinExists"} :
             Return(c, from)
    BY <1>2 DEF BeginFails, Refused, JoinNotActive, JoinedAlready
  <2>2. NoLocals \in Locals(n, m) /\ NoLocals.ctx = None
    BY <1>1, NoLocalsType
  <2>3. TypeOK' /\ local'[c] = NoLocals /\ \A d \in Callers \ {c} : local'[d] = local[d]
    <3>1. /\ pc' \in [Callers -> Holding \cup Waiting \cup {"idle", "begin", "newContext", "publish",
               "joinStatus", "joinExists", "joinBegin", "joinStore", "execBegin", "execFn"}]
          /\ mu' \in Callers \cup {NoCaller}
      BY <2>1, GotoTypes DEF Return
    <3>2. local' = [local EXCEPT ![c] = NoLocals]
      BY <2>1 DEF Return
    <3> QED BY <2>1, <2>2, <3>1, <3>2, SmallTypes
  <2>4. Wanders(c)
    <3>1. /\ pc[c] \in Waiting \cup {"begin", "joinBegin", "execBegin", "joinStatus", "joinExists"}
          /\ pc'[c] = "idle" /\ \A d \in Callers \ {c} : pc'[d] = pc[d]
      BY <2>1, GotoTypes DEF Return
    <3> QED BY <2>1, <2>2, <2>3, <3>1 DEF Wanders, Kept, Holding, Waiting, Joining
  <2> QED BY <2>3, <2>4
<1>3. CASE JoinStatus(c) \/ JoinNew(c)
  <2>1. /\ UNCHANGED <<transactions, ctxs, branches, mu, local, astray>>
        /\ Goto(c, "joinStatus", "joinExists") \/ Goto(c, "joinExists", "joinBegin")
    BY <1>3 DEF JoinStatus, JoinNew
  <2>2. Types'
    BY <2>1, Typed DEF Types, Goto
  <2>3. Wanders(c)
    BY <2>1, Typed DEF Types, LocalInv, Wanders, Kept, Goto, Holding, Waiting, Joining
  <2> QED BY <2>2, <2>3, TypedNext
<1>4. ASSUME NEW s \in Sources, CallBegin(c, s) \/ CallExecute(c, s)
      PROVE  TypeOK' /\ Wanders(c)
  <2>1. /\ UNCHANGED <<transactions, ctxs, branches, mu, astray>>
        /\ Goto(c, "idle", "begin") \/ Goto(c, "idle", "execBegin")
        /\ local' = [local EXCEPT ![c] = [local[c] EXCEPT !.src = s]]
    BY <1>4 DEF CallBegin, CallExecute
  <2> DEFINE l == [local[c] EXCEPT !.src = s]
  <2>2. l \in Locals(n, m) /\ l.src = s /\ l.ctx = local[c].ctx
    <3> HIDE DEF n, m
    <3> QED BY <1>1, SrcSet
  <2> HIDE DEF l
  <2>3. TypeOK' /\ local'[c] = l /\ \A d \in Callers \ {c} : local'[d] = local[d]
    <3>1. /\ pc' \in [Callers -> Holding \cup Waiting \cup {"idle", "begin", "newContext", "publish",
               "joinStatus", "joinExists", "joinBegin", "joinStore", "execBegin", "execFn"}]
          /\ mu' \in Callers \cup {NoCaller}
      BY <2>1, GotoTypes
    <3>2. local' = [local EXCEPT ![c] = l]
      BY <2>1 DEF l
    <3> QED BY <2>1, <2>2, <3>1, <3>2, SmallTypes
  <2>4. Wanders(c)
    <3>1. /\ pc[c] = "idle" /\ pc'[c] \in {"begin", "execBegin"}
          /\ \A d \in Callers \ {c} : pc'[d] = pc[d]
      BY <2>1, GotoTypes
    <3> QED BY <2>1, <2>2, <2>3, <3>1 DEF Wanders, Kept, Holding, Waiting, Joining
  <2> QED BY <2>3, <2>4
<1>5. ASSUME NEW x \in 1 .. Len(ctxs), NEW s \in Sources, CallJoin(c, x, s)
      PROVE  TypeOK' /\ Wanders(c)
  <2> DEFINE k == [local[c] EXCEPT !.ctx = x]
             l == [k EXCEPT !.src = s]
  <2>1. /\ UNCHANGED <<transactions, ctxs, branches, mu, astray>>
        /\ Goto(c, "idle", "joinLookup") /\ x \in Registered
        /\ local' = [local EXCEPT ![c] = l]
    <3>1. [[local EXCEPT ![c].ctx = x] EXCEPT ![c].src = s] = [local EXCEPT ![c] = l]
      BY Typed DEF Types
    <3> QED BY <1>5, <3>1 DEF CallJoin
  <2>2. k \in Locals(n, m) /\ k.ctx = x
    <3>1. n <= n /\ x \in 0 .. n
      BY <1>1
    <3> HIDE DEF n, m
    <3> QED BY <1>1, <3>1, CtxSet
  <2>3. l \in Locals(n, m) /\ l.src = s /\ l.ctx = x
    <3> HIDE DEF k, n, m
    <3> QED BY <1>1, <2>2, SrcSet
  <2> HIDE DEF l
  <2>4. TypeOK' /\ local'[c] = l /\ \A d \in Callers \ {c} : local'[d] = local[d]
    BY <2>1, <2>3, SmallTypes, Typed DEF Types, Goto, Waiting
  <2>5. Wanders(c)
    BY <2>1, <2>3, <2>4, Typed DEF Types, Wanders, Kept, Goto, Holding, Waiting, Joining
  <2> QED BY <2>4, <2>5
<1>6. ASSUME NEW x \in Registered, NEW from,
             NEW to \in {"commitLock", "rollbackLock", "closeLock", "joinStatus"},
             Goto(c, from, to), from \in {"idle", "joinLookup"},
             to = "joinStatus" => from = "joinLookup",
             local' = [local EXCEPT ![c].ctx = x],
             UNCHANGED <<transactions, ctxs, branches, mu, astray>>
      PROVE  TypeOK' /\ Wanders(c)
  <2> DEFINE l == [local[c] EXCEPT !.ctx = x]
  <2>1. local' = [local EXCEPT ![c] = l]
    BY <1>6
  <2>2. x \in 1 .. n
    BY <1>1, Typed DEF Types, Registered, None
  <2>3. l \in Locals(n, m) /\ l.ctx = x /\ l.src = local[c].src
    <3>1. n <= n /\ x \in 0 .. n
      BY <1>1, <2>2
    <3> HIDE DEF n, m
    <3> QED BY <1>1, <3>1, CtxSet
  <2> HIDE DEF l
  <2>4. /\ pc' \in [Callers -> Holding \cup Waiting \cup {"idle", "begin", "newContext", "publish",
             "joinStatus", "joinExists", "joinBegin", "joinStore", "execBegin", "execFn"}]
        /\ pc[c] = from /\ pc'[c] = to /\ \A d \in Callers \ {c} : pc'[d] = pc[d]
        /\ mu' \in Callers \cup {NoCaller}
    <3>1. to \in {"idle", "begin", "execBegin", "joinStatus", "joinExists", "joinBegin"}
                  \cup Waiting \cup Holding
      BY DEF Waiting
    <3> QED BY <1>6, <3>1, GotoTypes
  <2>5. TypeOK' /\ local'[c] = l /\ \A d \in Callers \ {c} : local'[d] = local[d]
    BY <1>6, <2>1, <2>3, <2>4, SmallTypes
  <2>6. pc'[c] \in Joining => local'[c].src \in Sources
    BY <1>6, <2>3, <2>4, <2>5 DEF LocalInv, Joining
  <2>7. Wanders(c)
    BY <1>6, <2>2, <2>3, <2>4, <2>5, <2>6 DEF Wanders, Kept, Holding, Waiting, Joining
  <2> QED BY <2>5, <2>7
<1>7. CASE JoinLookup(c)
  <2>1. local[c].ctx \in 1 .. n
    BY <1>7 DEF JoinLookup, Goto, LocalInv, Joining
  <2>2. Found(c) \in Registered
    BY <1>7, <2>1, ContextsAre DEF JoinLookup, Found, Registered
  <2> QED BY <1>6, <1>7, <2>2 DEF JoinLookup
<1>8. ASSUME NEW x \in 1 .. Len(ctxs), CallCommit(c, x) \/ CallRollback(c, x) \/ CallClose(c, x)
      PROVE  TypeOK' /\ Wanders(c)
  BY <1>6, <1>8 DEF CallCommit, CallRollback, CallClose, CallEnd
<1> QED
  BY <1>2, <1>3, <1>4, <1>5, <1>7, <1>8

LEMMA ContextSteps ==
  ASSUME TypeOK, LocalInv, NEW c \in Callers, NewContext(c)
  PROVE  TypeOK' /\ MakesContext(c)
<1> DEFINE n == Len(ctxs) + 1
           m == Len(branches)
           l == [local[c] EXCEPT !.ctx = n]
<1>1. PICK t \in Instants :
        ctxs' = Append(ctxs, [id |-> IdAt(t), status |-> "active",
          sources |-> [s \in Sources |-> IF s = local[c].src THEN local[c].tx ELSE None]])
  BY DEF NewContext
<1> DEFINE new == [id |-> IdAt(t), status |-> "active",
              sources |-> [s \in Sources |-> IF s = local[c].src THEN local[c].tx ELSE None]]
<1>2. Len(ctxs) \in Nat /\ m \in Nat /\ local[c] \in Locals(Len(ctxs), m)
  BY LocalsAre
<1>3. n \in Nat /\ Len(ctxs) <= n /\ n \in 0 .. n /\ n >= Len(ctxs) /\ m >= m
  BY <1>2
<1>4. pc[c] = "newContext" /\ local[c].src \in Sources /\ local[c].tx \in 1 .. m
  BY DEF NewContext, Goto, LocalInv, Beginning
<1>5. new \in Contexts(m)
  <2>1. IdAt(t) \in Ids
    BY DEF Ids
  <2>2. [s \in Sources |-> IF s = local[c].src THEN local[c].tx ELSE None] \in [Sources -> 0 .. m]
    BY <1>2, <1>4 DEF None
  <2> QED BY <2>1, <2>2 DEF Contexts
<1>6. /\ ctxs' \in Seq(Contexts(m)) /\ Len(ctxs') = n /\ ctxs'[n] = new
      /\ \A y \in 1 .. Len(ctxs) : ctxs'[y] = ctxs[y]
  BY <1>1, <1>2, <1>5, Typed, AppendProperties DEF Types
<1>7. l \in Locals(n, m) /\ l.ctx = n /\ l.src = local[c].src /\ l.tx = local[c].tx
  <2> HIDE DEF n
  <2> QED BY <1>2, <1>3, CtxSet
<1>8. /\ local' \in [Callers -> Locals(n, m)] /\ local'[c] = l
      /\ \A d \in Callers \ {c} : local'[d] = local[d]
  <2>1. local' = [local EXCEPT ![c] = l]
    BY DEF NewContext
  <2> HIDE DEF n, m, l
  <2> QED BY <2>1, <1>2, <1>3, <1>7, LocalChange DEF m
<1>9. Types'
  BY <1>2, <1>6, <1>8, Typed DEF Types, NewContext, Goto
<1>10. MakesContext(c)
  BY <1>2, <1>4, <1>6, <1>7, <1>8, Typed DEF Types, MakesContext, Kept, NewContext, Goto
<1> QED
  BY <1>9, <1>10, TypedNext

LEMMA PublishSteps ==
  ASSUME TypeOK, LocalInv, NEW c \in Callers, Publish(c)
  PROVE  TypeOK' /\ Publishes(c)
<1> DEFINE n == Len(ctxs)
           m == Len(branches)
           x == local[c].ctx
           i == ctxs[x].id
<1>1. n \in Nat /\ m \in Nat
  BY LocalsAre
<1>2. NoLocals \in Locals(n, m)
  BY <1>1, NoLocalsType
<1>3. pc[c] = "publish" /\ x \in 1 .. n
  BY DEF Publish, Return, Goto, LocalInv
<1>4. transactions' \in [Ids -> 0 .. n]
  <2>1. transactions' = [transactions EXCEPT ![i] = x] /\ x \in 0 .. n
    BY <1>1, <1>3 DEF Publish
  <2>2. transactions \in [Ids -> 0 .. n]
    BY Typed DEF Types
  <2> HIDE DEF n, x, i
  <2> QED BY <2>1, <2>2
<1>5. astray' \subseteq 1 .. m
  <2>1. i \in Ids
    BY <1>3, ContextsAre
  <2>2. ASSUME transactions[i] # None PROVE BranchesOf(transactions[i]) \subseteq 1 .. m
    <3>1. transactions[i] \in 1 .. n
      BY <2>1, <2>2, <1>1, Typed DEF Types, None
    <3>2. ctxs[transactions[i]].sources \in [Sources -> 0 .. m]
      BY <3>1, ContextsAre
    <3> DEFINE f == ctxs[transactions[i]].sources
    <3>3. BranchesOf(transactions[i]) = {f[s] : s \in {t \in Sources : f[t] # 0}}
      BY DEF BranchesOf, Joined, None
    <3>4. f \in [Sources -> 0 .. m]
      BY <3>2
    <3> HIDE DEF f, m
    <3> QED BY <1>1, <3>3, <3>4
  <2>3. astray \subseteq 1 .. m
    BY Typed DEF Types
  <2> QED BY <2>2, <2>3 DEF Publish
<1>6. local' \in [Callers -> Locals(n, m)]
  BY <1>2, Typed DEF Types, Publish, Return
<1>7. Types'
  BY <1>4, <1>5, <1>6, Typed DEF Types, Publish, Return, Goto
<1>8. Publishes(c)
  BY Typed DEF Types, Publishes, Kept, Publish, Return, Goto
<1> QED
  BY <1>7, <1>8, TypedNext

LEMMA EnterSteps ==
  ASSUME TypeOK, LocalInv, NEW c \in Callers, NEW from \in Waiting, NEW to \in Holding,
         Enter(c, from, to)
  PROVE  TypeOK' /\ Enters(c)
<1> DEFINE n == Len(ctxs)
           m == Len(branches)
           x == Found(c)
           k == [local[c] EXCEPT !.ctx = x]
           l == [k EXCEPT !.todo = Joined(x)]
<1>1. /\ n \in Nat /\ m \in Nat /\ n <= n
      /\ local[c] \in Locals(n, m) /\ x \in Registered /\ x \in 0 .. n
  <2>1. local[c].ctx \in 1 .. n
    BY DEF Enter, Goto, LocalInv
  <2>2. x \in Registered
    BY <2>1, ContextsAre DEF Enter, Found, Registered
  <2>3. Registered \subseteq 0 .. n
    BY Typed DEF Types, Registered
  <2>4. /\ n \in Nat /\ m \in Nat /\ local[c] \in Locals(n, m)
    BY LocalsAre
  <2> HIDE DEF n, m, x
  <2> QED BY <2>2, <2>3, <2>4
<1>2. k \in Locals(n, m) /\ k.ctx = x
  <2> HIDE DEF n, m, x
  <2> QED BY <1>1, CtxSet
<1>3. l \in Locals(n, m) /\ l.ctx = x /\ l.todo = Joined(x)
  <2>1. Joined(x) \in SUBSET Sources
    BY DEF Joined
  <2> DEFINE keys == Joined(x)
  <2>2. keys \in SUBSET Sources
    BY <2>1
  <2> HIDE DEF n, m, x, k, keys
  <2>3. /\ [k EXCEPT !.todo = keys] \in Locals(n, m)
        /\ [k EXCEPT !.todo = keys].todo = keys
        /\ [k EXCEPT !.todo = keys].ctx = k.ctx
    <3>1. n \in Nat /\ m \in Nat /\ k \in Locals(n, m)
      BY <1>1, <1>2
    <3> QED BY <3>1, <2>2 DEF Locals
  <2> USE DEF keys
  <2> QED BY <1>2, <2>3
<1>4. local' = [local EXCEPT ![c] = l]
  <2>1. [[local EXCEPT ![c].ctx = x] EXCEPT ![c].todo = Joined(x)] = [local EXCEPT ![c] = l]
    BY Typed DEF Types
  <2> QED BY <2>1 DEF Enter
<1> HIDE DEF l
<1>5. TypeOK' /\ local'[c] = l /\ \A d \in Callers \ {c} : local'[d] = local[d]
  BY <1>3, <1>4, SmallTypes, Typed DEF Types, Enter, Goto
<1>6. Enters(c)
  <2>1. /\ UNCHANGED <<transactions, ctxs, branches, astray>>
        /\ mu = NoCaller /\ mu' = c /\ x \in Registered
    BY <1>1 DEF Enter
  <2>2. pc[c] = from /\ pc'[c] = to /\ \A d \in Callers \ {c} : pc'[d] = pc[d]
    BY GotoTypes DEF Enter
  <2>3. local'[c].ctx = x /\ local'[c].todo = Joined(x)
    BY <1>3, <1>5
  <2> QED BY <1>5, <2>1, <2>2, <2>3 DEF Enters, Kept, Joined, Registered
<1> QED
  BY <1>5, <1>6

(* What a Commit or Rollback does to the branches. *)
LEMMA SettleEffect ==
  ASSUME TypeOK, NEW b, NEW state \in Done, Settle(b, state)
  PROVE  /\ branches' \in Seq(Branches)
         /\ Settles
         /\ b \in 1 .. Len(branches) =>
              branches'[b].state = IF branches[b].state = "open" THEN state ELSE branches[b].state
<1> DEFINE r == branches[b]
           e == [r EXCEPT !.state = IF r.state = "open" THEN state ELSE r.state]
<1>1. branches \in Seq(Branches) /\ branches' = [branches EXCEPT ![b] = e]
  BY Typed DEF Types, Settle
<1>2. CASE b \in 1 .. Len(branches)
  <2>1. r \in Branches
    BY <1>2, BranchesHave
  <2>2. /\ e \in Branches
        /\ e.state = IF r.state = "open" THEN state ELSE r.state
        /\ r.state # "open" => e = r
    <3> HIDE DEF r
    <3> QED BY <2>1 DEF Branches, e
  <2> HIDE DEF e
  <2>3. /\ branches' \in Seq(Branches) /\ Len(branches') = Len(branches)
        /\ \A j \in 1 .. Len(branches) : branches'[j] = IF j = b THEN e ELSE branches[j]
    BY <1>1, <1>2, <2>2, ExceptSeq
  <2>4. branches'[b] = e
    BY <1>2, <2>3
  <2>5. ASSUME NEW j \in 1 .. Len(branches)
        PROVE  branches'[j] = branches[j] \/ (branches[j].state = "open" /\ branches'[j].state \in Done)
    <3>1. CASE j = b
      BY <3>1, <2>2, <2>4
    <3>2. CASE j # b
      BY <3>2, <2>3
    <3> QED BY <3>1, <3>2
  <2>6. branches'[b].state = IF branches[b].state = "open" THEN state ELSE branches[b].state
    BY <2>2, <2>4
  <2> QED BY <2>3, <2>5, <2>6 DEF Settles
<1>3. CASE b \notin 1 .. Len(branches)
  <2>1. branches' = branches
    BY <1>1, <1>3
  <2> QED BY <2>1, <1>1, <1>3 DEF Settles
<1> QED
  BY <1>2, <1>3

(* Types after a step that settles branches and makes no others. *)
LEMMA SettledTypes ==
  ASSUME TypeOK, NEW c \in Callers, NEW l \in Locals(Len(ctxs), Len(branches)),
         branches' \in Seq(Branches), Len(branches') = Len(branches),
         UNCHANGED <<transactions, ctxs, mu, astray>>, local' = [local EXCEPT ![c] = l],
         pc' \in [Callers -> Holding \cup Waiting \cup {"idle", "begin", "newContext", "publish",
           "joinStatus", "joinExists", "joinBegin", "joinStore", "execBegin", "execFn"}]
  PROVE  TypeOK' /\ local'[c] = l /\ \A d \in Callers \ {c} : local'[d] = local[d]
<1>1. /\ local' \in [Callers -> Locals(Len(ctxs), Len(branches))]
      /\ local'[c] = l /\ \A d \in Callers \ {c} : local'[d] = local[d]
  BY Typed DEF Types
<1>2. Types'
  BY <1>1, Typed DEF Types
<1> QED
  BY <1>1, <1>2, TypedNext

LEMMA VisitSteps ==
  ASSUME TypeOK, LocalInv, NEW c \in Callers, NEW s \in Sources,
         CommitOne(c, s) \/ CommitOneFails(c, s) \/ RollbackOne(c, s)
  PROVE  TypeOK' /\ Visits(c)
<1> DEFINE n == Len(ctxs)
           m == Len(branches)
           x == local[c].ctx
           b == ctxs[x].sources[s]
           left == IF CommitOneFails(c, s) THEN Joined(x) ELSE local[c].todo \ {s}
           l == [local[c] EXCEPT !.todo = left]
<1>1. n \in Nat /\ m \in Nat /\ local[c] \in Locals(n, m)
  BY LocalsAre
<1>2. pc[c] \in Holding /\ x \in 1 .. n /\ s \in local[c].todo
  BY DEF CommitOne, CommitOneFails, RollbackOne, Visit, Goto, Holding, LocalInv
<1>3. s \in Joined(x) => b \in 1 .. m
  <2>1. ctxs[x].sources \in [Sources -> 0 .. m]
    BY <1>2, ContextsAre
  <2> QED BY <2>1, <1>1 DEF Joined, None
<1>4. left \in SUBSET Sources
  BY <1>1 DEF Joined, Locals
<1>5. l \in Locals(n, m) /\ l.todo = left /\ l.ctx = x
  <2> HIDE DEF n, m, left
  <2> QED BY <1>1, <1>4, TodoSet
<1>6. local' = [local EXCEPT ![c] = l]
  BY DEF CommitOne, CommitOneFails, RollbackOne, Visit, Goto
<1>7. UNCHANGED <<transactions, ctxs, mu, astray>>
  BY DEF CommitOne, CommitOneFails, RollbackOne, Visit
<1> HIDE DEF l, left
<1>8. CASE CommitOneFails(c, s)
  <2>1. Settle(b, "failed") /\ pc[c] = "committing" /\ pc' = [pc EXCEPT ![c] = "undoing"] /\ left = Joined(x)
    BY <1>8 DEF CommitOneFails, Goto, left
  <2>2. branches' \in Seq(Branches) /\ Settles
    BY <2>1, SettleEffect DEF Done
  <2>3. TypeOK' /\ local'[c] = l /\ \A d \in Callers \ {c} : local'[d] = local[d]
    BY <2>1, <2>2, <1>5, <1>6, <1>7, SettledTypes, Typed DEF Types, Settles, Holding
  <2>4. Visits(c)
    BY <2>1, <2>2, <2>3, <1>2, <1>5, <1>7, Typed DEF Types, Visits, Kept, Holding
  <2> QED BY <2>3, <2>4
<1>9. CASE CommitOne(c, s) \/ RollbackOne(c, s)
  <2>1. /\ pc' = pc
        /\ \/ pc[c] = "committing" /\ branches[b].state = "open" /\ Settle(b, "committed")
           \/ pc[c] # "committing" /\ Settle(b, "rolledBack")
    BY <1>9 DEF CommitOne, RollbackOne, Visit
  <2>2. left = local[c].todo \ {s}
    <3>1. ~CommitOneFails(c, s)
      BY <2>1, Typed DEF Types, CommitOneFails, Goto
    <3> QED BY <3>1 DEF left
  <2>3. /\ branches' \in Seq(Branches) /\ Settles
        /\ b \in 1 .. m => branches'[b].state \in Good(pc[c])
    <3>1. b \in 1 .. m => branches[b].state \in {"open"} \cup Done
      BY BranchesHave
    <3> QED BY <2>1, <3>1, SettleEffect DEF Good, Done
  <2>4. TypeOK' /\ local'[c] = l /\ \A d \in Callers \ {c} : local'[d] = local[d]
    BY <2>1, <2>3, <1>5, <1>6, <1>7, SettledTypes, Typed DEF Types, Settles
  <2>5. Visits(c)
    BY <2>1, <2>2, <2>3, <2>4, <1>2, <1>3, <1>5, <1>7 DEF Visits, Kept
  <2> QED BY <2>4, <2>5
<1> QED
  BY <1>8, <1>9

LEMMA ExecuteSteps ==
  ASSUME TypeOK, LocalInv, NEW c \in Callers, ExecReturns(c)
  PROVE  TypeOK' /\ Executes(c)
<1>1. pc[c] = "execFn" /\ local[c].tx \in 1 .. Len(branches)
  BY DEF ExecReturns, Return, Goto, LocalInv
<1>2. PICK state \in Done : Settle(local[c].tx, state)
  BY DEF ExecReturns, Done
<1>3. /\ branches' \in Seq(Branches) /\ Settles
      /\ branches'[local[c].tx].state # "open"
  BY <1>1, <1>2, SettleEffect DEF Done
<1>4. NoLocals \in Locals(Len(ctxs), Len(branches))
  BY LocalsAre, NoLocalsType
<1>5. TypeOK' /\ local'[c] = NoLocals /\ \A d \in Callers \ {c} : local'[d] = local[d]
  BY <1>3, <1>4, SettledTypes, Typed DEF Types, Settles, ExecReturns, Return, Goto
<1>6. Executes(c)
  BY <1>1, <1>3, <1>5, Typed DEF Types, Executes, Kept, ExecReturns, Return, Goto
<1> QED
  BY <1>5, <1>6

LEMMA StatusEffect ==
  ASSUME TypeOK, NEW x \in 1 .. Len(ctxs), NEW status \in {"active", "committed", "rolledBack"},
         ctxs' = [ctxs EXCEPT ![x].status = status]
  PROVE  /\ ctxs' \in Seq(Contexts(Len(branches))) /\ Len(ctxs') = Len(ctxs)
         /\ \A y \in 1 .. Len(ctxs) :
              /\ ctxs'[y].id = ctxs[y].id /\ ctxs'[y].sources = ctxs[y].sources
              /\ y # x => ctxs'[y].status = ctxs[y].status
<1> DEFINE r == ctxs[x]
           e == [r EXCEPT !.status = status]
           C == Contexts(Len(branches))
<1>1. ctxs \in Seq(C) /\ ctxs' = [ctxs EXCEPT ![x] = e] /\ r \in C
  BY ContextsAre, Typed DEF Types
<1>2. e \in C /\ e.id = r.id /\ e.sources = r.sources
  <2> HIDE DEF r
  <2> QED BY <1>1 DEF Contexts
<1> HIDE DEF e, C
<1>3. /\ ctxs' \in Seq(C) /\ Len(ctxs') = Len(ctxs)
      /\ \A y \in 1 .. Len(ctxs) : ctxs'[y] = IF y = x THEN e ELSE ctxs[y]
  BY <1>1, <1>2, ExceptSeq
<1> QED
  BY <1>2, <1>3 DEF C

LEMMA EndSteps ==
  ASSUME TypeOK, LocalInv, NEW c \in Callers,
         CommitReturnsNil(c) \/ CommitReturnsError(c) \/ RollbackReturns(c) \/ CloseReturns(c)
  PROVE  TypeOK' /\ \E x \in 1 .. Len(ctxs) : Ends(c, x)
<1> DEFINE n == Len(ctxs)
           m == Len(branches)
           x == local[c].ctx
<1>1. /\ UNCHANGED <<branches, astray>> /\ mu' = NoCaller
      /\ pc[c] \in Holding /\ pc' = [pc EXCEPT ![c] = "idle"]
      /\ local' = [local EXCEPT ![c] = NoLocals]
      /\ pc[c] # "closing" => local[c].todo = {}
  BY DEF CommitReturnsNil, CommitReturnsError, RollbackReturns, CloseReturns, Leave, Return,
     Goto, Holding
<1>2. x \in 1 .. n /\ n \in Nat /\ m \in Nat
  BY <1>1, LocalsAre DEF LocalInv
<1>3. /\ ctxs' \in Seq(Contexts(m)) /\ Len(ctxs') = n
      /\ \A y \in 1 .. n :
           /\ ctxs'[y].id = ctxs[y].id /\ ctxs'[y].sources = ctxs[y].sources
           /\ y # x => ctxs'[y].status = ctxs[y].status
  <2>1. CASE ctxs' = ctxs
    BY <2>1, Typed DEF Types
  <2>2. CASE CommitReturnsNil(c) \/ RollbackReturns(c)
    <3>1. PICK status \in {"active", "committed", "rolledBack"} :
            ctxs' = [ctxs EXCEPT ![x].status = status]
      BY <2>2 DEF CommitReturnsNil, RollbackReturns, SetStatus
    <3> HIDE DEF x
    <3> QED BY <3>1, <1>2, StatusEffect
  <2> QED
    BY <2>1, <2>2 DEF CommitReturnsError, CloseReturns
<1>4. \/ UNCHANGED <<transactions, ctxs>>
      \/ /\ transactions' = [transactions EXCEPT ![ctxs[x].id] = None]
         /\ ctxs[x].status = "active" => local[c].todo = {}
  BY DEF CommitReturnsNil, CommitReturnsError, RollbackReturns, CloseReturns, Unregister
<1>5. transactions' \in [Ids -> 0 .. n]
  <2>1. transactions \in [Ids -> 0 .. n]
    BY Typed DEF Types
  <2> QED BY <2>1, <1>2, <1>4 DEF None
<1>6. /\ local' \in [Callers -> Locals(n, m)] /\ local'[c] = NoLocals
      /\ \A d \in Callers \ {c} : local'[d] = local[d]
  BY <1>1, <1>2, NoLocalsType, Typed DEF Types
<1>7. Types'
  BY <1>1, <1>3, <1>5, <1>6, Typed DEF Types
<1>8. Ends(c, x)
  BY <1>1, <1>3, <1>4, <1>6, Typed DEF Types, Ends, Kept
<1> QED
  BY <1>2, <1>7, <1>8, TypedNext

LEMMA StoreSteps ==
  ASSUME TypeOK, LocalInv, LockInv, NEW c \in Callers, JoinStore(c)
  PROVE  TypeOK' /\ \E x \in 1 .. Len(ctxs), s \in Sources, b \in 1 .. Len(branches) : Stores(c, x, s, b)
<1> DEFINE n == Len(ctxs)
           m == Len(branches)
           x == local[c].ctx
           s == local[c].src
           b == local[c].tx
<1>1. pc[c] = "joinStore" /\ pc' = [pc EXCEPT ![c] = "idle"]
  BY DEF JoinStore, Goto
<1>2. n \in Nat /\ m \in Nat /\ x \in 1 .. n /\ s \in Sources /\ b \in 1 .. m
  BY <1>1, LocalsAre DEF LocalInv, Joining
<1>3. /\ ctxs' \in Seq(Contexts(m)) /\ Len(ctxs') = n
      /\ \A y \in 1 .. n :
           /\ ctxs'[y].id = ctxs[y].id /\ ctxs'[y].status = ctxs[y].status
           /\ \A t \in Sources :
                ctxs'[y].sources[t] = IF y = x /\ t = s THEN b ELSE ctxs[y].sources[t]
  <2> DEFINE r == ctxs[x]
             f == [r.sources EXCEPT ![s] = b]
             e == [r EXCEPT !.sources = f]
  <2>1. ctxs \in Seq(Contexts(m)) /\ r \in Contexts(m) /\ r.sources \in [Sources -> 0 .. m]
    BY <1>2, ContextsAre, Typed DEF Types
  <2>2. ctxs' = [ctxs EXCEPT ![x] = e]
    BY DEF JoinStore
  <2>3. f \in [Sources -> 0 .. m] /\ \A t \in Sources : f[t] = IF t = s THEN b ELSE r.sources[t]
    <3> DEFINE g == r.sources
    <3>1. g \in [Sources -> 0 .. m] /\ s \in Sources /\ f = [g EXCEPT ![s] = b]
      BY <1>2, <2>1
    <3>2. b \in 0 .. m
      <4> HIDE DEF b, m
      <4> QED BY <1>2
    <3> HIDE DEF f, g, s, b, m
    <3> QED BY <3>1, <3>2 DEF g
  <2>4. e \in Contexts(m) /\ e.id = r.id /\ e.status = r.status /\ e.sources = f
    <3> HIDE DEF r, f
    <3> QED BY <2>1, <2>3 DEF Contexts
  <2> HIDE DEF f, e
  <2>5. /\ ctxs' \in Seq(Contexts(m)) /\ Len(ctxs') = n
        /\ \A y \in 1 .. n : ctxs'[y] = IF y = x THEN e ELSE ctxs[y]
    <3> HIDE DEF x
    <3> QED BY <1>2, <2>1, <2>2, <2>4, ExceptSeq
  <2> QED BY <2>3, <2>4, <2>5
<1>4. /\ local' \in [Callers -> Locals(n, m)] /\ local'[c] = NoLocals
      /\ \A d \in Callers \ {c} :
           /\ local'[d].ctx = local[d].ctx /\ local'[d].src = local[d].src
           /\ local'[d].tx = local[d].tx /\ local[d].todo \subseteq local'[d].todo
  <2> DEFINE returned == [local EXCEPT ![c] = NoLocals]
  <2>1. /\ returned \in [Callers -> Locals(n, m)] /\ returned[c] = NoLocals
        /\ \A d \in Callers \ {c} : returned[d] = local[d]
    BY <1>2, NoLocalsType, Typed DEF Types
  <2>2. CASE local' = returned
    BY <2>1, <2>2
  <2>3. CASE mu # NoCaller /\ local' = [returned EXCEPT ![mu].todo = @ \cup {s}]
    <3>1. mu \in Callers \ {c}
      BY <2>3, <1>1, Typed DEF Types, LockInv, Holding
    <3> DEFINE k == returned[mu]
               l == [k EXCEPT !.todo = k.todo \cup {s}]
    <3>2. k \in Locals(n, m)
      BY <2>1, <3>1
    <3>3. /\ l \in Locals(n, m) /\ l.ctx = k.ctx /\ l.src = k.src /\ l.tx = k.tx
          /\ k.todo \subseteq l.todo
      <4> HIDE DEF k
      <4> QED BY <3>2, <1>2 DEF Locals
    <3>4. local' = [returned EXCEPT ![mu] = l]
      BY <2>3
    <3> HIDE DEF returned, l
    <3> QED BY <2>1, <3>1, <3>3, <3>4
  <2> QED BY <2>2, <2>3 DEF JoinStore
<1>5. /\ astray \subseteq astray' /\ ctxs[x].sources[s] \in astray' \cup {None}
      /\ (mu # NoCaller /\ local[mu].ctx = x) \/ x \notin Registered => b \in astray'
  BY DEF JoinStore
<1>6. astray' \subseteq 1 .. m
  <2>1. ctxs[x].sources[s] \in 0 .. m
    BY <1>2, ContextsAre
  <2> QED BY <2>1, <1>2, Typed DEF Types, JoinStore, None
<1>7. Types'
  BY <1>1, <1>3, <1>4, <1>6, Typed DEF Types, JoinStore
<1>8. Stores(c, x, s, b)
  BY <1>1, <1>3, <1>4, <1>5, Typed DEF Types, Stores, JoinStore
<1> QED
  BY <1>2, <1>7, <1>8, TypedNext

(* Every step is of one of the kinds above, and is well typed. *)
LEMMA StepKinds ==
  ASSUME TypeOK, LocalInv, LockInv, Next
  PROVE  TypeOK' /\ \E c \in Callers : Steps(c)
<1> PICK c \in Callers : Connect(c) \/ BeginFails(c) \/ Acquire(c) \/ Proceed(c) \/ Invoke(c)
  BY DEF Next
<1>1. CASE Connect(c)
  BY <1>1, ConnectSteps DEF Steps
<1>2. CASE Acquire(c)
  <2>1. CASE Publish(c)
    BY <2>1, PublishSteps DEF Steps
  <2>2. CASE JoinLookup(c) \/ Refused(c)
    BY <2>2, WanderSteps DEF Steps
  <2>3. CASE CommitEnters(c) \/ RollbackEnters(c) \/ CloseEnters(c)
    BY <2>3, EnterSteps DEF Steps, CommitEnters, RollbackEnters, CloseEnters, Waiting, Holding
  <2> QED BY <1>2, <2>1, <2>2, <2>3 DEF Acquire
<1>3. CASE BeginFails(c)
  BY <1>3, WanderSteps DEF Steps
<1>4. CASE Proceed(c)
  <2>1. CASE NewContext(c)
    BY <2>1, ContextSteps DEF Steps
  <2>2. CASE JoinStatus(c) \/ JoinNotActive(c) \/ JoinNew(c) \/ JoinedAlready(c)
    BY <2>2, WanderSteps DEF Steps
  <2>3. CASE JoinStore(c)
    BY <2>3, StoreSteps DEF Steps
  <2>4. CASE \E s \in Sources : CommitOne(c, s) \/ CommitOneFails(c, s) \/ RollbackOne(c, s)
    BY <2>4, VisitSteps DEF Steps
  <2>5. CASE CommitReturnsNil(c) \/ CommitReturnsError(c) \/ RollbackReturns(c) \/ CloseReturns(c)
    BY <2>5, EndSteps DEF Steps
  <2>6. CASE ExecReturns(c)
    BY <2>6, ExecuteSteps DEF Steps
  <2> QED BY <1>4, <2>1, <2>2, <2>3, <2>4, <2>5, <2>6 DEF Proceed
<1>5. CASE Invoke(c)
  BY <1>5, WanderSteps DEF Steps, Invoke
<1> QED
  BY <1>1, <1>2, <1>3, <1>4, <1>5
-----------------------------------------------------------------------------
(* The invariant is inductive. *)

LEMMA LockStep ==
  ASSUME TypeOK, LockInv, NEW c \in Callers, Steps(c)
  PROVE  LockInv'
<1> USE Typed, TxManagerAssumption DEF TxManagerAssumption, Types, LockInv, Kept, Holding, Waiting
<1>1. CASE Wanders(c)
  BY <1>1 DEF Wanders
<1>2. CASE Connects(c)
  BY <1>2 DEF Connects
<1>3. CASE MakesContext(c)
  BY <1>3 DEF MakesContext
<1>4. CASE Publishes(c)
  BY <1>4 DEF Publishes, Publish, Return, Goto
<1>5. CASE Enters(c)
  BY <1>5 DEF Enters
<1>6. CASE Visits(c)
  BY <1>6 DEF Visits
<1>7. CASE Executes(c)
  BY <1>7 DEF Executes
<1>8. ASSUME NEW x \in 1 .. Len(ctxs), Ends(c, x) PROVE LockInv'
  BY <1>8 DEF Ends
<1>9. ASSUME NEW x \in 1 .. Len(ctxs), NEW s \in Sources, NEW b \in 1 .. Len(branches), Stores(c, x, s, b)
      PROVE  LockInv'
  BY <1>9 DEF Stores
<1> QED
  BY <1>1, <1>2, <1>3, <1>4, <1>5, <1>6, <1>7, <1>8, <1>9 DEF Steps

LEMMA LocalStep ==
  ASSUME TypeOK, LocalInv, NEW c \in Callers, Steps(c)
  PROVE  LocalInv'
<1>0. Len(ctxs) \in Nat /\ Len(branches) \in Nat
  BY LocalsAre
<1> USE <1>0 DEF LocalInv, Kept, Holding, Waiting, Joining, Beginning
<1>1. CASE Wanders(c)
  BY <1>1 DEF Wanders
<1>2. CASE Connects(c)
  BY <1>2 DEF Connects
<1>3. CASE MakesContext(c)
  BY <1>3 DEF MakesContext
<1>4. CASE Publishes(c)
  BY <1>4 DEF Publishes, Publish
<1>5. CASE Enters(c)
  <2>1. Registered \subseteq 1 .. Len(ctxs)
    BY Typed DEF Types, Registered, None
  <2> QED BY <1>5, <2>1 DEF Enters
<1>6. CASE Visits(c)
  BY <1>6 DEF Visits, Settles
<1>7. CASE Executes(c)
  BY <1>7 DEF Executes, Settles
<1>8. ASSUME NEW x \in 1 .. Len(ctxs), Ends(c, x) PROVE LocalInv'
  BY <1>8 DEF Ends
<1>9. ASSUME NEW x \in 1 .. Len(ctxs), NEW s \in Sources, NEW b \in 1 .. Len(branches), Stores(c, x, s, b)
      PROVE  LocalInv'
  BY <1>9 DEF Stores
<1> QED
  BY <1>1, <1>2, <1>3, <1>4, <1>5, <1>6, <1>7, <1>8, <1>9 DEF Steps

LEMMA RegStep ==
  ASSUME TypeOK, LocalInv, RegInv, PublishInv, HolderInv, NEW c \in Callers, Steps(c)
  PROVE  RegInv'
<1>0. /\ Len(ctxs) \in Nat
      /\ \A i \in Ids : transactions[i] # None => transactions[i] \in 1 .. Len(ctxs)
      /\ transactions \in [Ids -> 0 .. Len(ctxs)]
  BY LocalsAre, Typed DEF Types, None
<1> USE <1>0 DEF RegInv
<1>1. CASE UNCHANGED <<transactions, ctxs>>
  BY <1>1
<1>2. CASE MakesContext(c)
  BY <1>2 DEF MakesContext
<1>3. CASE Publishes(c)
  BY <1>3 DEF Publishes, Publish, Return, Goto, PublishInv
<1>4. ASSUME NEW x \in 1 .. Len(ctxs), Ends(c, x) PROVE RegInv'
  BY <1>4 DEF Ends, HolderInv
<1>5. ASSUME NEW x \in 1 .. Len(ctxs), NEW s \in Sources, NEW b \in 1 .. Len(branches), Stores(c, x, s, b)
      PROVE  RegInv'
  BY <1>5 DEF Stores
<1> QED
  BY <1>1, <1>2, <1>3, <1>4, <1>5 DEF Steps, Wanders, Connects, Enters, Visits, Executes

LEMMA HolderStep ==
  ASSUME TypeOK, LocalInv, LockInv, RegInv, HolderInv, NEW c \in Callers, Steps(c)
  PROVE  HolderInv'
<1>0. /\ Len(ctxs) \in Nat
      /\ transactions \in [Ids -> 0 .. Len(ctxs)]
      /\ \A d \in Callers : pc[d] \in Holding => local[d].ctx \in 1 .. Len(ctxs)
      /\ \A x \in 1 .. Len(ctxs) : ctxs[x].id \in Ids
  BY LocalsAre, ContextsAre, Typed DEF Types, LocalInv
<1> USE <1>0 DEF HolderInv, Kept
<1>1. CASE Wanders(c)
  BY <1>1 DEF Wanders, Holding, Waiting
<1>2. CASE Connects(c)
  BY <1>2 DEF Connects, Holding
<1>3. CASE MakesContext(c)
  BY <1>3 DEF MakesContext, Holding
<1>4. CASE Publishes(c)
  BY <1>4, TxManagerAssumption DEF TxManagerAssumption, Publishes, Publish, LockInv, Holding
<1>5. CASE Enters(c)
  BY <1>5, TxManagerAssumption DEF TxManagerAssumption, Enters, Registered, RegInv, LockInv
<1>6. CASE Visits(c)
  BY <1>6 DEF Visits
<1>7. CASE Executes(c)
  BY <1>7 DEF Executes, Holding
<1>8. ASSUME NEW x \in 1 .. Len(ctxs), Ends(c, x) PROVE HolderInv'
  BY <1>8 DEF Ends, LockInv, Holding
<1>9. ASSUME NEW x \in 1 .. Len(ctxs), NEW s \in Sources, NEW b \in 1 .. Len(branches), Stores(c, x, s, b)
      PROVE  HolderInv'
  <2> SUFFICES ASSUME NEW d \in Callers, pc'[d] \in Holding
               PROVE  transactions'[ctxs'[local'[d].ctx].id] = local'[d].ctx
    OBVIOUS
  <2>1. d # c /\ pc[d] \in Holding /\ local'[d].ctx = local[d].ctx
    BY <1>9 DEF Stores, Holding
  <2>2. ctxs'[local[d].ctx].id = ctxs[local[d].ctx].id /\ transactions' = transactions
    BY <1>9, <2>1 DEF Stores
  <2> QED BY <2>1, <2>2
<1> QED
  BY <1>1, <1>2, <1>3, <1>4, <1>5, <1>6, <1>7, <1>8, <1>9 DEF Steps

LEMMA PublishInvStep ==
  ASSUME TypeOK, LocalInv, PublishInv, NEW c \in Callers, Steps(c)
  PROVE  PublishInv'
<1>0. /\ Len(ctxs) \in Nat
      /\ Registered \subseteq 1 .. Len(ctxs)
      /\ \A d \in Callers : local[d].ctx \in 0 .. Len(ctxs)
      /\ \A d \in Callers : pc[d] = "publish" =>
           local[d].ctx \in 1 .. Len(ctxs) /\ local[d].src \in Sources
  <2>1. \A d \in Callers : local[d].ctx \in 0 .. Len(ctxs)
    BY LocalsAre DEF Locals
  <2> QED BY <2>1, LocalsAre, Typed DEF Types, Registered, LocalInv, Beginning, None
<1> USE <1>0 DEF PublishInv, Kept, None
<1>1. CASE Wanders(c)
  BY <1>1 DEF Wanders, Registered, Waiting
<1>2. CASE Connects(c)
  BY <1>2 DEF Connects, Registered
<1>3. CASE MakesContext(c)
  BY <1>3 DEF MakesContext, Registered
<1>4. CASE Publishes(c)
  <2>1. Registered' \subseteq Registered \cup {local[c].ctx} /\ ctxs' = ctxs
    BY <1>4, Typed DEF Types, Publishes, Publish, Registered
  <2>2. pc[c] = "publish" /\ pc'[c] = "idle" /\ local'[c].ctx = None
    BY <1>4 DEF Publishes, Publish, Return, Goto, NoLocals
  <2> QED BY <1>4, <2>1, <2>2 DEF Publishes
<1>5. CASE Enters(c)
  <2>1. Registered' = Registered /\ ctxs' = ctxs /\ pc'[c] # "publish"
    BY <1>5 DEF Enters, Registered, Holding
  <2> QED BY <1>5, <2>1 DEF Enters
<1>6. CASE Visits(c)
  BY <1>6 DEF Visits, Registered, Holding
<1>7. CASE Executes(c)
  BY <1>7 DEF Executes, Registered, NoLocals
<1>8. ASSUME NEW x \in 1 .. Len(ctxs), Ends(c, x) PROVE PublishInv'
  <2>1. Registered' \subseteq Registered
    BY <1>8, Typed DEF Types, Ends, Registered
  <2>2. local'[c].ctx = None /\ pc'[c] # "publish"
    BY <1>8 DEF Ends, NoLocals
  <2> QED BY <1>8, <2>1, <2>2 DEF Ends
<1>9. ASSUME NEW x \in 1 .. Len(ctxs), NEW s \in Sources, NEW b \in 1 .. Len(branches), Stores(c, x, s, b)
      PROVE  PublishInv'
  <2> SUFFICES ASSUME NEW d \in Callers, pc'[d] = "publish"
               PROVE  LET y == local'[d].ctx IN
                      /\ y \notin Registered'
                      /\ ctxs'[y].status = "active"
                      /\ ctxs'[y].sources[local'[d].src] = local'[d].tx
                      /\ \A e \in Callers \ {d} : local'[e].ctx # y
    OBVIOUS
  <2> DEFINE y == local[d].ctx
  <2>1. /\ d # c /\ pc[d] = "publish" /\ local'[d].ctx = y
        /\ local'[d].src = local[d].src /\ local'[d].tx = local[d].tx
    BY <1>9 DEF Stores
  <2>2. y # x /\ y \in 1 .. Len(ctxs) /\ local[d].src \in Sources
    BY <1>9, <2>1 DEF Stores
  <2>3. ctxs'[y].status = "active" /\ ctxs'[y].sources[local[d].src] = local[d].tx
    BY <1>9, <2>1, <2>2 DEF Stores
  <2>4. Registered' = Registered
    BY <1>9 DEF Stores, Registered
  <2>5. \A e \in Callers \ {d} : local'[e].ctx # y
    <3>1. \A e \in Callers \ {c} : local'[e].ctx = local[e].ctx
      BY <1>9 DEF Stores
    <3>2. local'[c].ctx = 0
      BY <1>9 DEF Stores, NoLocals
    <3> QED BY <2>1, <2>2, <3>1, <3>2
  <2> QED BY <2>1, <2>3, <2>4, <2>5
<1> QED
  BY <1>1, <1>2, <1>3, <1>4, <1>5, <1>6, <1>7, <1>8, <1>9 DEF Steps

(* The index of a joined branch. *)
LEMMA JoinedAre ==
  ASSUME TypeOK, NEW x \in 1 .. Len(ctxs), NEW s \in Joined(x)
  PROVE  s \in Sources /\ ctxs[x].sources[s] \in 1 .. Len(branches)
<1>1. ctxs[x].sources \in [Sources -> 0 .. Len(branches)] /\ Len(branches) \in Nat
  BY ContextsAre, Typed DEF Types
<1> QED
  BY <1>1 DEF Joined, None

LEMMA VisitStep ==
  ASSUME TypeOK, LocalInv, LockInv, VisitInv, NEW c \in Callers, Steps(c)
  PROVE  VisitInv'
<1>0. \A d \in Callers : pc[d] \in Holding => local[d].ctx \in 1 .. Len(ctxs)
  BY DEF LocalInv
<1>1. ASSUME UNCHANGED <<ctxs, astray>>, Kept(c), pc'[c] \notin Holding,
             \A b \in 1 .. Len(branches) :
               branches'[b] = branches[b] \/ (branches[b].state = "open" /\ branches'[b].state \in Done)
      PROVE  VisitInv'
  <2> SUFFICES ASSUME NEW d \in Callers, pc'[d] \in Holding,
                      NEW s \in Joined(local[d].ctx)', s \notin local'[d].todo
               PROVE  Passed(local[d].ctx, s, Good(pc[d]))'
    BY DEF VisitInv
  <2>1. pc'[d] = pc[d] /\ local'[d] = local[d] /\ local[d].ctx \in 1 .. Len(ctxs)
    BY <1>0, <1>1 DEF Kept
  <2>2. s \in Joined(local[d].ctx) /\ Passed(local[d].ctx, s, Good(pc[d]))
    BY <1>1, <2>1 DEF VisitInv, Joined
  <2>3. ctxs[local[d].ctx].sources[s] \in 1 .. Len(branches)
    BY <2>1, <2>2, JoinedAre
  <2> QED BY <1>1, <2>1, <2>2, <2>3 DEF Passed, Good, Done
<1>2. CASE Wanders(c) \/ Connects(c) \/ Executes(c)
  BY <1>1, <1>2 DEF Wanders, Connects, Executes, Settles, Holding, Waiting
<1>3. CASE MakesContext(c)
  BY <1>0, <1>3 DEF MakesContext, VisitInv, Kept, Passed, Joined, Holding
<1>4. CASE Publishes(c)
  BY <1>4, TxManagerAssumption DEF TxManagerAssumption, Publishes, Publish, Kept, LockInv, VisitInv, Holding
<1>5. CASE Enters(c)
  BY <1>5, TxManagerAssumption DEF TxManagerAssumption, Enters, Kept, LockInv, VisitInv, Joined
<1>6. CASE Visits(c)
  <2> SUFFICES ASSUME NEW d \in Callers, pc'[d] \in Holding,
                      NEW s \in Joined(local[d].ctx)', s \notin local'[d].todo
               PROVE  Passed(local[d].ctx, s, Good(pc[d]))'
    BY DEF VisitInv
  <2>1. d = c
    BY <1>6 DEF Visits, Kept, LockInv
  <2>2. s \in Joined(local[c].ctx) \ local'[c].todo /\ pc'[c] = pc[c] /\ pc[c] \in Holding
    BY <1>6, <2>1 DEF Visits, Joined
  <2> DEFINE b == ctxs[local[c].ctx].sources[s]
  <2>3. b \in 1 .. Len(branches)
    BY <1>0, <2>2, JoinedAre
  <2>4. CASE s \in local[c].todo
    BY <1>6, <2>1, <2>2, <2>4 DEF Visits, Passed
  <2>5. CASE s \notin local[c].todo
    <3>1. b \in astray \/ branches[b].state \in Good(pc[c])
      BY <2>2, <2>5 DEF VisitInv, Passed
    <3>2. b \in astray \/ branches'[b].state \in Good(pc[c])
      BY <1>6, <2>3, <3>1 DEF Visits, Settles, Good, Done
    <3> QED BY <1>6, <2>1, <2>2, <3>2 DEF Visits, Passed
  <2> QED BY <2>4, <2>5
<1>7. ASSUME NEW x \in 1 .. Len(ctxs), Ends(c, x) PROVE VisitInv'
  BY <1>0, <1>7 DEF Ends, Kept, VisitInv, Passed, Joined, Holding
<1>8. ASSUME NEW x \in 1 .. Len(ctxs), NEW s \in Sources, NEW b \in 1 .. Len(branches), Stores(c, x, s, b)
      PROVE  VisitInv'
  <2> SUFFICES ASSUME NEW d \in Callers, pc'[d] \in Holding,
                      NEW t \in Joined(local[d].ctx)', t \notin local'[d].todo
               PROVE  Passed(local[d].ctx, t, Good(pc[d]))'
    BY DEF VisitInv
  <2> DEFINE y == local[d].ctx
  <2>1. d # c /\ pc[d] \in Holding /\ y \in 1 .. Len(ctxs) /\ y = local'[d].ctx
    BY <1>0, <1>8 DEF Stores, Holding
  <2>2. t \in Sources /\ ctxs'[y].sources[t] # None /\ t \notin local[d].todo
    BY <1>8, <2>1 DEF Stores, Joined
  <2>3. CASE y = x /\ t = s
    <3>1. mu = d
      BY <2>1 DEF LockInv
    <3>2. b \in astray'
      BY <1>8, <2>1, <2>3, <3>1, TxManagerAssumption DEF TxManagerAssumption, Stores
    <3> QED BY <1>8, <2>1, <2>2, <2>3, <3>2 DEF Stores, Passed
  <2>4. CASE ~(y = x /\ t = s)
    <3>1. ctxs'[y].sources[t] = ctxs[y].sources[t]
      BY <1>8, <2>1, <2>2, <2>4 DEF Stores
    <3>2. Passed(y, t, Good(pc[d]))
      BY <2>1, <2>2, <3>1 DEF VisitInv, Joined
    <3> QED BY <1>8, <2>1, <3>1, <3>2 DEF Stores, Passed
  <2> QED BY <2>3, <2>4
<1> QED
  BY <1>2, <1>3, <1>4, <1>5, <1>6, <1>7, <1>8 DEF Steps

Carrying == {"newContext", "publish", "joinStore", "execFn"}

(* Somebody can give the connection of this branch back. *)
Owned(b) ==
  \/ \E x \in Registered, s \in Sources : s \in Joined(x) /\ b = ctxs[x].sources[s]
  \/ \E d \in Callers : pc[d] \in Carrying /\ local[d].tx = b

LEMMA LeaksNone ==
  /\ NoBranchLeaks <=> \A b \in 1 .. Len(branches) \ astray : branches[b].state = "open" => Owned(b)
  /\ NoBranchLeaks' <=> (\A b \in 1 .. Len(branches) \ astray : branches[b].state = "open" => Owned(b))'
  BY DEF NoBranchLeaks, Owned, BranchesOf, Joined, Carrying

LEMMA LeakStep ==
  ASSUME IInv, NEW c \in Callers, Steps(c)
  PROVE  NoBranchLeaks'
<1>0. /\ Len(ctxs) \in Nat /\ Len(branches) \in Nat
      /\ Registered \subseteq 1 .. Len(ctxs) /\ TypeOK /\ Types
  BY LocalsAre, Typed DEF IInv, Types, Registered, None
<1> SUFFICES ASSUME NEW b \in 1 .. Len(branches'), b \notin astray', branches'[b].state = "open"
             PROVE  Owned(b)'
  BY LeaksNone
<1> USE DEF Kept, Carrying
<1>1. ASSUME b \in 1 .. Len(branches), branches[b].state = "open", astray \subseteq astray'
      PROVE  \/ \E x \in Registered, s \in Sources : s \in Joined(x) /\ b = ctxs[x].sources[s]
             \/ \E d \in Callers : pc[d] \in Carrying /\ local[d].tx = b
  BY <1>1, LeaksNone DEF IInv, Owned
<1>2. ASSUME UNCHANGED <<transactions, ctxs, astray>>, Kept(c), pc[c] \notin Carrying,
             b \in 1 .. Len(branches), branches[b].state = "open"
      PROVE  Owned(b)'
  BY <1>1, <1>2 DEF Owned, Registered, Joined
<1>3. CASE Wanders(c)
  BY <1>2, <1>3 DEF Wanders
<1>4. CASE Connects(c)
  <2>1. CASE b \in 1 .. Len(branches)
    BY <1>2, <1>4, <2>1 DEF Connects
  <2>2. CASE b = Len(branches')
    BY <1>4, <2>2 DEF Connects, Owned
  <2> QED BY <1>0, <1>4, <2>1, <2>2 DEF Connects
<1>5. CASE MakesContext(c)
  <2>1. /\ Registered' = Registered /\ b \in 1 .. Len(branches) /\ branches[b].state = "open"
        /\ astray' = astray
    BY <1>5 DEF MakesContext, Registered
  <2>2. ASSUME NEW d \in Callers, pc[d] \in Carrying, local[d].tx = b PROVE Owned(b)'
    BY <1>5, <2>2 DEF MakesContext, Owned
  <2>3. ASSUME NEW y \in Registered, NEW s \in Sources, s \in Joined(y), b = ctxs[y].sources[s]
        PROVE  Owned(b)'
    <3>1. ctxs'[y] = ctxs[y]
      BY <1>0, <1>5 DEF MakesContext
    <3> QED BY <2>1, <2>3, <3>1 DEF Owned, Joined
  <2> QED BY <1>1, <2>1, <2>2, <2>3
<1>6. CASE Publishes(c)
  <2> DEFINE x == local[c].ctx
             i == ctxs[x].id
  <2>1. /\ x \in 1 .. Len(ctxs) /\ i \in Ids /\ transactions' = [transactions EXCEPT ![i] = x]
        /\ UNCHANGED <<ctxs, branches>> /\ pc[c] = "publish"
        /\ astray' = IF transactions[i] = None THEN astray ELSE astray \cup BranchesOf(transactions[i])
    BY <1>0, <1>6, ContextsAre DEF Publishes, Publish, Return, Goto, IInv, LocalInv
  <2>2. x \in Registered'
    BY <1>0, <2>1 DEF Types, Registered, None
  <2>3. CASE local[c].tx = b
    <3>1. local[c].src \in Sources /\ ctxs[x].sources[local[c].src] = b
      BY <2>1, <2>3 DEF IInv, PublishInv, LocalInv, Beginning
    <3>2. local[c].src \in Joined(x)
      BY <3>1 DEF Joined, None
    <3> QED BY <2>1, <2>2, <3>1, <3>2 DEF Owned, Joined
  <2>4. ASSUME NEW y \in Registered, NEW s \in Sources, s \in Joined(y), b = ctxs[y].sources[s]
        PROVE  Owned(b)'
    <3>1. b \in BranchesOf(y)
      BY <2>4 DEF BranchesOf
    <3>2. PICK j \in Ids : transactions[j] = y /\ y # None
      BY DEF Registered
    <3>3. j # i
      BY <2>1, <3>1, <3>2
    <3>4. y \in Registered'
      BY <1>0, <2>1, <3>2, <3>3 DEF Types, Registered
    <3> QED BY <2>1, <2>4, <3>4 DEF Owned, Joined
  <2>5. ASSUME NEW d \in Callers \ {c}, pc[d] \in Carrying, local[d].tx = b PROVE Owned(b)'
    BY <1>6, <2>5 DEF Publishes, Owned
  <2> QED BY <1>1, <2>1, <2>3, <2>4, <2>5
<1>7. CASE Enters(c)
  BY <1>2, <1>7 DEF Enters, Waiting
<1>8. CASE Visits(c)
  BY <1>2, <1>8 DEF Visits, Settles, Holding
<1>9. CASE Executes(c)
  <2>1. b \in 1 .. Len(branches) /\ branches[b].state = "open" /\ b # local[c].tx
    BY <1>9 DEF Executes, Settles
  <2> QED BY <1>1, <1>9, <2>1 DEF Executes, Owned, Registered, Joined
<1>10. ASSUME NEW x \in 1 .. Len(ctxs), Ends(c, x) PROVE Owned(b)'
  <2>1. b \in 1 .. Len(branches) /\ branches[b].state = "open" /\ astray' = astray
    BY <1>10 DEF Ends
  <2>2. ASSUME NEW d \in Callers, pc[d] \in Carrying, local[d].tx = b PROVE Owned(b)'
    BY <1>10, <2>2 DEF Ends, Owned, Holding
  <2>3. ASSUME NEW y \in Registered, NEW s \in Sources, s \in Joined(y), b = ctxs[y].sources[s]
        PROVE  Owned(b)'
    <3>1. y \in Registered' => Owned(b)'
      BY <1>0, <1>10, <2>3 DEF Ends, Owned, Joined
    <3>2. CASE UNCHANGED <<transactions, ctxs>>
      BY <3>1, <3>2 DEF Registered
    <3>3. CASE /\ transactions' = [transactions EXCEPT ![ctxs[x].id] = None]
               /\ ctxs[x].status = "active" => local[c].todo = {}
      <4>1. pc[c] \in Holding /\ x = local[c].ctx /\ ctxs[x].id \in Ids
        BY <1>0, <1>10, ContextsAre DEF Ends
      <4>2. transactions[ctxs[x].id] = x /\ ctxs[x].status = "active"
        BY <4>1 DEF IInv, HolderInv, RegInv, None
      <4>3. CASE y = x
        <5>1. Passed(x, s, Good(pc[c]))
          BY <2>3, <3>3, <4>1, <4>2, <4>3 DEF IInv, VisitInv
        <5> QED BY <2>1, <2>3, <4>3, <5>1 DEF Passed, Good, Done
      <4>4. CASE y # x
        <5>1. PICK j \in Ids : transactions[j] = y /\ y # None
          BY DEF Registered
        <5>2. y \in Registered'
          BY <1>0, <3>3, <4>2, <4>4, <5>1 DEF Types, Registered
        <5> QED BY <3>1, <5>2
      <4> QED BY <4>3, <4>4
    <3> QED BY <1>10, <3>2, <3>3 DEF Ends
  <2> QED BY <1>1, <2>1, <2>2, <2>3
<1>11. ASSUME NEW x \in 1 .. Len(ctxs), NEW t \in Sources, NEW e \in 1 .. Len(branches), Stores(c, x, t, e)
       PROVE  Owned(b)'
  <2>1. b \in 1 .. Len(branches) /\ branches[b].state = "open" /\ Registered' = Registered
    BY <1>11 DEF Stores, Registered
  <2>2. CASE b = e
    <3>1. x \in Registered
      BY <1>11, <2>2 DEF Stores
    <3>2. ctxs'[x].sources[t] = b /\ t \in Joined(x)'
      BY <1>11, <2>2 DEF Stores, Joined, None
    <3> QED BY <2>1, <3>1, <3>2 DEF Owned
  <2>3. ASSUME NEW d \in Callers, pc[d] \in Carrying, local[d].tx = b PROVE Owned(b)'
    BY <1>11, <2>2, <2>3 DEF Stores, Owned
  <2>4. ASSUME NEW y \in Registered, NEW s \in Sources, s \in Joined(y), b = ctxs[y].sources[s]
        PROVE  Owned(b)'
    <3>1. ~(y = x /\ s = t)
      BY <1>11, <2>4 DEF Stores, None
    <3>2. ctxs'[y].sources[s] = b /\ s \in Joined(y)'
      BY <1>0, <1>11, <2>4, <3>1 DEF Stores, Joined
    <3> QED BY <2>1, <3>2 DEF Owned
  <2>5. astray \subseteq astray'
    BY <1>11 DEF Stores
  <2> QED BY <1>1, <2>1, <2>3, <2>4, <2>5
<1> QED
  BY <1>3, <1>4, <1>5, <1>6, <1>7, <1>8, <1>9, <1>10, <1>11 DEF Steps
-----------------------------------------------------------------------------
LEMMA Inductive == IInv /\ [Next]_vars => IInv'
<1> SUFFICES ASSUME IInv, [Next]_vars PROVE IInv'
  OBVIOUS
<1>1. CASE UNCHANGED vars
  BY <1>1 DEF IInv, vars, TypeOK, LockInv, LocalInv, RegInv, PublishInv, HolderInv, VisitInv,
     NoBranchLeaks, Registered, Passed, Joined, BranchesOf
<1>2. CASE Next
  <2>1. TypeOK' /\ \E c \in Callers : Steps(c)
    BY <1>2, StepKinds DEF IInv
  <2> QED
    BY <2>1, LockStep, LocalStep, RegStep, PublishInvStep, HolderStep, VisitStep, LeakStep DEF IInv
<1> QED
  BY <1>1, <1>2

THEOREM Invariance == Spec => []IInv
  BY InitInv, Inductive, PTL DEF Spec

(* The variables keep their types. *)
THEOREM TypeCorrect == Spec => []TypeOK
<1>1. IInv => TypeOK
  BY DEF IInv
<1> QED
  BY <1>1, Invariance, PTL

(* The mutex is held by the goroutine that ends a transaction, by one at a time. *)
THEOREM LockProtocol == Spec => []LockInv
<1>1. IInv => LockInv
  BY DEF IInv
<1> QED
  BY <1>1, Invariance, PTL

(* A transaction in the map is active, for any number of goroutines and ids *)
(* that collide (BeginTransaction, CommitTransaction, RollbackTransaction). *)
THEOREM ActiveWhileRegistered == Spec => []RegisteredAreActive
<1>1. IInv => RegisteredAreActive
  BY DEF IInv, RegInv, RegisteredAreActive
<1> QED
  BY <1>1, Invariance, PTL

(* No connection is lost but by a join beside the end of the transaction, a *)
(* second join of the same data source, or a second transaction with the id.*)
THEOREM BranchesAccountedFor == Spec => []NoBranchLeaks
<1>1. IInv => NoBranchLeaks
  BY DEF IInv
<1> QED
  BY <1>1, Invariance, PTL

(* The goroutine that leaves a call is the one whose locals are looked at. *)
LEMMA LeavesBehind ==
  ASSUME IInv, Next, NEW d \in Callers, pc[d] \in {"committing", "undoing"}, pc'[d] = "idle"
  PROVE  \A s \in Joined(local[d].ctx) :
           \/ ctxs[local[d].ctx].sources[s] \in astray
           \/ branches[ctxs[local[d].ctx].sources[s]].state \in Good(pc[d])
<1>1. PICK c \in Callers : Steps(c)
  BY StepKinds DEF IInv
<1>2. \E x \in 1 .. Len(ctxs) : Ends(d, x)
  BY <1>1 DEF Steps, Kept, Wanders, Connects, MakesContext, Publishes, Publish, Return, Goto,
     Enters, Visits, Executes, Ends, Stores, Holding
<1>3. local[d].todo = {}
  BY <1>2 DEF Ends
<1> QED
  BY <1>3 DEF IInv, VisitInv, Passed, Holding

(* Nil from CommitTransaction says that every branch was committed. *)
THEOREM NilCommits == Spec => NilMeansCommitted
<1>1. IInv /\ [Next]_vars =>
        [\A c \in Callers : pc[c] = "committing" /\ pc'[c] = "idle"
                               => States(local[c].ctx) \subseteq {"committed"}]_vars
  BY LeavesBehind DEF States, BranchesOf, Good
<1> QED
  BY <1>1, Invariance, PTL DEF Spec, NilMeansCommitted

(* An error from CommitTransaction says that no branch is open any more. *)
THEOREM ErrorCloses == Spec => ErrorMeansClosed
<1>1. IInv /\ [Next]_vars =>
        [\A c \in Callers : pc[c] = "undoing" /\ pc'[c] = "idle"
                               => "open" \notin States(local[c].ctx)]_vars
  BY LeavesBehind DEF States, BranchesOf, Good, Done
<1> QED
  BY <1>1, Invariance, PTL DEF Spec, ErrorMeansClosed
=============================================================================
