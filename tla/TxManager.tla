------------------------------ MODULE TxManager ------------------------------
(***************************************************************************)
(* The transaction manager (sqlrouter/transaction.go): transactions with   *)
(* one branch, a sql.Tx, per data source, and goroutines that begin, join, *)
(* commit, roll back and close them.  The map `transactions' is guarded by *)
(* mu; the Status and DataSources of a transaction are read and written by *)
(* JoinTransaction without it.  A branch holds one connection of its data  *)
(* source's pool until it is committed or rolled back.                     *)
(*                                                                         *)
(* A call is made with the id of a transaction that is in the map then; it *)
(* may be gone when the call has the lock.                                 *)
(***************************************************************************)
EXTENDS Naturals, Sequences, FiniteSets

CONSTANTS
  Callers,       \* goroutines
  Sources,       \* data sources
  Instants,      \* readings of the clock, in ticks
  NoCaller,      \* not a goroutine
  PerSecond,     \* ticks in a second
  Letters,       \* letters of randomString, 62
  Capacity,      \* the connections of each source's pool, maximumPoolSize
  MaxMade        \* bound: transactions begun and sql.Tx objects made

ASSUME TxManagerAssumption ==
  /\ Instants \subseteq Nat
  /\ NoCaller \notin Callers
  /\ {PerSecond, Letters} \subseteq Nat \ {0}
  /\ Capacity \in [Sources -> Nat \ {0}]
  /\ MaxMade \in Nat

(* generateTransactionID: the second, then letters[UnixNano % 62], eight *)
(* times; the eight readings are taken to fall into one tick.            *)
IdAt(t) == [second |-> t \div PerSecond, letter |-> t % Letters]

Ids == {IdAt(t) : t \in Instants}

None == 0

VARIABLES
  transactions,  \* tm.transactions: id -> index into ctxs, or None
  ctxs,          \* every TransactionContext: ID, Status and DataSources
  branches,      \* every sql.Tx: its data source and what became of it
  mu,            \* the goroutine inside tm.mu.Lock
  pc,            \* where each goroutine is
  local,         \* the local variables of its call: ctx, dataSource, tx, todo
  astray         \* history variable: the branches that left the manager's hands by a
                 \* join beside the end of the transaction, a second join of the same
                 \* data source, or a second transaction with the same id

vars == <<transactions, ctxs, branches, mu, pc, local, astray>>

(* The locals of a call: ctx, an index into ctxs, which before the lookup    *)
(* stands for the argument txID, its id; the argument dataSource;            *)
(* tx, an index into branches; and the keys that a range loop over           *)
(* ctx.DataSources has still to visit.                                       *)
NoLocals == [ctx |-> None, src |-> None, tx |-> None, todo |-> {}]

(* Before tm.mu.RLock of JoinTransaction and tm.mu.Lock of the other three. *)
Waiting == {"joinLookup", "commitLock", "rollbackLock", "closeLock"}

Holding == {"committing", "undoing", "rollingBack", "closing"}

Init ==
  /\ transactions = [i \in Ids |-> None]
  /\ ctxs = <<>>
  /\ branches = <<>>
  /\ mu = NoCaller
  /\ pc = [c \in Callers |-> "idle"]
  /\ local = [c \in Callers |-> NoLocals]
  /\ astray = {}
-----------------------------------------------------------------------------
Goto(c, from, to) ==
  /\ pc[c] = from
  /\ pc' = [pc EXCEPT ![c] = to]

(* The call returns and its locals are gone. *)
Return(c, from) ==
  /\ Goto(c, from, "idle")
  /\ local' = [local EXCEPT ![c] = NoLocals]

Joined(x) == {s \in Sources : ctxs[x].sources[s] # None}

OpenOn(s) == {b \in 1 .. Len(branches) : branches[b] = [source |-> s, state |-> "open"]}

(* The bound: calls under way keep room for what they will make. *)
In(states) == Cardinality({c \in Callers : pc[c] \in states})

Room(n) ==
  Len(ctxs) + Len(branches) + 2 * In({"begin"})
    + In({"newContext", "joinLookup", "joinStatus", "joinExists", "joinBegin", "execBegin"}) + n <= MaxMade

(* db.Begin: waits for a connection of the pool, then makes a branch. *)
MakeBranch(c) ==
  /\ Cardinality(OpenOn(local[c].src)) < Capacity[local[c].src]
  /\ branches' = Append(branches, [source |-> local[c].src, state |-> "open"])
  /\ local' = [local EXCEPT ![c].tx = Len(branches) + 1]

(* getDBConnection or db.Begin fails and the call returns its error. *)
BeginFails(c) ==
  /\ \E from \in {"begin", "joinBegin", "execBegin"} : Return(c, from)
  /\ UNCHANGED <<transactions, ctxs, branches, mu, astray>>

(* What a Commit or Rollback makes of a branch; one already done keeps its *)
(* state, and the connection goes back to the pool in every case.          *)
Settle(b, state) ==
  branches' = [branches EXCEPT ![b].state = IF @ = "open" THEN state ELSE @]
-----------------------------------------------------------------------------
(* BeginTransaction *)

CallBegin(c, s) ==
  /\ Goto(c, "idle", "begin")
  /\ Room(2)
  /\ local' = [local EXCEPT ![c].src = s]
  /\ UNCHANGED <<transactions, ctxs, branches, mu, astray>>

Begin(c) ==
  /\ Goto(c, "begin", "newContext")
  /\ MakeBranch(c)
  /\ UNCHANGED <<transactions, ctxs, mu, astray>>

NewContext(c) ==
  /\ Goto(c, "newContext", "publish")
  /\ \E t \in Instants :
       ctxs' = Append(ctxs, [id |-> IdAt(t), status |-> "active",
         sources |-> [s \in Sources |-> IF s = local[c].src THEN local[c].tx ELSE None]])
  /\ local' = [local EXCEPT ![c].ctx = Len(ctxs) + 1]
  /\ UNCHANGED <<transactions, branches, mu, astray>>

BranchesOf(x) == {ctxs[x].sources[s] : s \in Joined(x)}

(* A transaction that is there under the same id is no longer found. *)
Publish(c) ==
  LET i == ctxs[local[c].ctx].id IN
  /\ Return(c, "publish")
  /\ mu = NoCaller
  /\ transactions' = [transactions EXCEPT ![i] = local[c].ctx]
  /\ astray' = IF transactions[i] = None THEN astray
               ELSE astray \cup BranchesOf(transactions[i])
  /\ UNCHANGED <<ctxs, branches, mu>>
-----------------------------------------------------------------------------
(* The transactions that a call can name: whichever goroutine began one, *)
(* others may know its id.                                               *)
Registered == {transactions[i] : i \in Ids} \ {None}

(* What the map has for the id that the call was made with. *)
Found(c) == transactions[ctxs[local[c].ctx].id]

(* ErrTransactionNotFound, or nil from CloseTransaction; CommitTransaction *)
(* also refuses a transaction that is not active.                          *)
Refused(c) ==
  /\ \E from \in Waiting : Return(c, from)
  /\ mu = NoCaller
  /\ Found(c) # None => pc[c] = "commitLock" /\ ctxs[Found(c)].status # "active"
  /\ UNCHANGED <<transactions, ctxs, branches, mu, astray>>

(* JoinTransaction: only the lookup is under the lock. *)

CallJoin(c, x, s) ==
  /\ Goto(c, "idle", "joinLookup")
  /\ Room(1)
  /\ x \in Registered
  /\ local' = [local EXCEPT ![c].ctx = x, ![c].src = s]
  /\ UNCHANGED <<transactions, ctxs, branches, mu, astray>>

JoinLookup(c) ==
  /\ Goto(c, "joinLookup", "joinStatus")
  /\ mu = NoCaller
  /\ Found(c) # None
  /\ local' = [local EXCEPT ![c].ctx = Found(c)]
  /\ UNCHANGED <<transactions, ctxs, branches, mu, astray>>

JoinStatus(c) ==
  /\ Goto(c, "joinStatus", "joinExists")
  /\ ctxs[local[c].ctx].status = "active"
  /\ UNCHANGED <<transactions, ctxs, branches, mu, local, astray>>

JoinNotActive(c) ==
  /\ Return(c, "joinStatus")
  /\ ctxs[local[c].ctx].status # "active"
  /\ UNCHANGED <<transactions, ctxs, branches, mu, astray>>

JoinNew(c) ==
  /\ Goto(c, "joinExists", "joinBegin")
  /\ local[c].src \notin Joined(local[c].ctx)
  /\ UNCHANGED <<transactions, ctxs, branches, mu, local, astray>>

JoinedAlready(c) ==
  /\ Return(c, "joinExists")
  /\ local[c].src \in Joined(local[c].ctx)
  /\ UNCHANGED <<transactions, ctxs, branches, mu, astray>>

JoinBegin(c) ==
  /\ Goto(c, "joinBegin", "joinStore")
  /\ MakeBranch(c)
  /\ UNCHANGED <<transactions, ctxs, mu, astray>>

(* The unlocked write.  A range loop over the same map that is under way *)
(* may or may not visit a key that is new.                               *)
JoinStore(c) ==
  LET x == local[c].ctx
      s == local[c].src
      ending == mu # NoCaller /\ local[mu].ctx = x
      returned == [local EXCEPT ![c] = NoLocals] IN
  /\ Goto(c, "joinStore", "idle")
  /\ ctxs' = [ctxs EXCEPT ![x].sources[s] = local[c].tx]
  /\ \/ local' = returned
     \/ /\ ending /\ s \notin Joined(x)
        /\ local' = [returned EXCEPT ![mu].todo = @ \cup {s}]
  /\ astray' = astray \cup ({ctxs[x].sources[s]} \ {None})
                      \cup (IF ending \/ x \notin Registered THEN {local[c].tx} ELSE {})
  /\ UNCHANGED <<transactions, branches, mu>>
-----------------------------------------------------------------------------
(* The calls that end a transaction hold the lock from lookup to return. *)

CallEnd(c, x, to) ==
  /\ Goto(c, "idle", to)
  /\ x \in Registered
  /\ local' = [local EXCEPT ![c].ctx = x]
  /\ UNCHANGED <<transactions, ctxs, branches, mu, astray>>

Enter(c, from, to) ==
  /\ Goto(c, from, to)
  /\ mu = NoCaller
  /\ Found(c) # None
  /\ mu' = c
  /\ local' = [local EXCEPT ![c].ctx = Found(c), ![c].todo = Joined(Found(c))]
  /\ UNCHANGED <<transactions, ctxs, branches, astray>>

(* delete(tm.transactions, txID) *)
Unregister(c) == transactions' = [transactions EXCEPT ![ctxs[local[c].ctx].id] = None]

(* One round of a loop over ctx.DataSources that does something to a branch. *)
Visit(c, s, state) ==
  /\ s \in local[c].todo
  /\ Settle(ctxs[local[c].ctx].sources[s], state)
  /\ local' = [local EXCEPT ![c].todo = @ \ {s}]
  /\ UNCHANGED <<transactions, ctxs, mu, astray>>

RollbackOne(c, s) ==
  /\ pc[c] \in {"undoing", "rollingBack", "closing"}
  /\ Visit(c, s, "rolledBack")
  /\ UNCHANGED pc

(* CommitTransaction *)

CallCommit(c, x) == CallEnd(c, x, "commitLock")

CommitEnters(c) ==
  /\ Enter(c, "commitLock", "committing")
  /\ ctxs[Found(c)].status = "active"

CommitOne(c, s) ==
  /\ pc[c] = "committing" /\ s \in local[c].todo
  /\ branches[ctxs[local[c].ctx].sources[s]].state = "open"
  /\ Visit(c, s, "committed")
  /\ UNCHANGED pc

(* Fault variant: the error of one Commit is dropped. *)
CommitErrorDropped(c, s) ==
  /\ pc[c] = "committing"
  /\ Visit(c, s, "failed")
  /\ UNCHANGED pc

(* Fault variant: the loop stops without rolling back the other branches. *)
CommitErrorReturned(c, s) ==
  /\ Goto(c, "committing", "undoing")
  /\ s \in local[c].todo
  /\ Settle(ctxs[local[c].ctx].sources[s], "failed")
  /\ local' = [local EXCEPT ![c].todo = {}]
  /\ UNCHANGED <<transactions, ctxs, mu, astray>>

(* The data source refuses, or the branch was done before: sql.ErrTxDone. *)
CommitOneFails(c, s) ==
  /\ Goto(c, "committing", "undoing")
  /\ s \in local[c].todo
  /\ Settle(ctxs[local[c].ctx].sources[s], "failed")
  /\ local' = [local EXCEPT ![c].todo = Joined(local[c].ctx)]
  /\ UNCHANGED <<transactions, ctxs, mu, astray>>

(* The end of a call: its loop is done and the deferred Unlock runs. *)
Leave(c, from) ==
  /\ Return(c, from)
  /\ mu' = NoCaller
  /\ UNCHANGED <<branches, astray>>

SetStatus(c, status) == ctxs' = [ctxs EXCEPT ![local[c].ctx].status = status]

(* Fault variant: the committed transaction is not deleted from the map. *)
CommittedKept(c) ==
  /\ local[c].todo = {}
  /\ Leave(c, "committing")
  /\ SetStatus(c, "committed")
  /\ UNCHANGED transactions

CommitReturnsNil(c) ==
  /\ local[c].todo = {}
  /\ Leave(c, "committing")
  /\ SetStatus(c, "committed")
  /\ Unregister(c)

(* Fault variant: the lock is not released on the error path. *)
CommitErrorKeepsLock(c) ==
  /\ local[c].todo = {}
  /\ Return(c, "undoing")
  /\ UNCHANGED <<transactions, ctxs, branches, mu, astray>>

(* The transaction stays in the map, and active. *)
CommitReturnsError(c) ==
  /\ local[c].todo = {}
  /\ Leave(c, "undoing")
  /\ UNCHANGED <<transactions, ctxs>>

(* RollbackTransaction and CloseTransaction *)

CallRollback(c, x) == CallEnd(c, x, "rollbackLock")

RollbackEnters(c) == Enter(c, "rollbackLock", "rollingBack")

RollbackReturns(c) ==
  /\ local[c].todo = {}
  /\ Leave(c, "rollingBack")
  /\ SetStatus(c, "rolledBack")
  /\ Unregister(c)

CallClose(c, x) == CallEnd(c, x, "closeLock")

CloseEnters(c) == Enter(c, "closeLock", "closing")

(* Fault variant: the branches are left to themselves. *)
CloseWithoutRollback(c) ==
  /\ Leave(c, "closing")
  /\ Unregister(c)
  /\ UNCHANGED ctxs

(* The Status is left as it is; without an active one nothing is rolled back. *)
CloseReturns(c) ==
  /\ Leave(c, "closing")
  /\ ctxs[local[c].ctx].status = "active" => local[c].todo = {}
  /\ Unregister(c)
  /\ UNCHANGED ctxs
-----------------------------------------------------------------------------
(* ExecuteInTransaction: one branch, outside the manager. *)

CallExecute(c, s) ==
  /\ Goto(c, "idle", "execBegin")
  /\ Room(1)
  /\ local' = [local EXCEPT ![c].src = s]
  /\ UNCHANGED <<transactions, ctxs, branches, mu, astray>>

ExecBegin(c) ==
  /\ Goto(c, "execBegin", "execFn")
  /\ MakeBranch(c)
  /\ UNCHANGED <<transactions, ctxs, mu, astray>>

(* fn returns nil and Commit is tried; or fn fails or panics. *)
ExecReturns(c) ==
  /\ Return(c, "execFn")
  /\ \E state \in {"committed", "failed", "rolledBack"} : Settle(local[c].tx, state)
  /\ UNCHANGED <<transactions, ctxs, mu, astray>>
-----------------------------------------------------------------------------
Connect(c) == Begin(c) \/ JoinBegin(c) \/ ExecBegin(c)

(* The steps that wait for tm.mu. *)
Acquire(c) ==
  \/ Publish(c) \/ JoinLookup(c) \/ Refused(c)
  \/ CommitEnters(c) \/ RollbackEnters(c) \/ CloseEnters(c)

Proceed(c) ==
  \/ NewContext(c) \/ JoinStatus(c) \/ JoinNotActive(c)
  \/ JoinNew(c) \/ JoinedAlready(c) \/ JoinStore(c)
  \/ \E s \in Sources : CommitOne(c, s) \/ CommitOneFails(c, s) \/ RollbackOne(c, s)
  \/ CommitReturnsNil(c) \/ CommitReturnsError(c)
  \/ RollbackReturns(c) \/ CloseReturns(c) \/ ExecReturns(c)

Invoke(c) ==
  \/ \E s \in Sources : CallBegin(c, s) \/ CallExecute(c, s)
  \/ \E x \in 1 .. Len(ctxs), s \in Sources : CallJoin(c, x, s)
  \/ \E x \in 1 .. Len(ctxs) : CallCommit(c, x) \/ CallRollback(c, x) \/ CallClose(c, x)

Next ==
  \E c \in Callers :
    Connect(c) \/ BeginFails(c) \/ Acquire(c) \/ Proceed(c) \/ Invoke(c)

Spec == Init /\ [][Next]_vars

(* A goroutine that could go on again and again does: those that wait for the *)
(* mutex get it in turn, and a pool hands what comes back to it to one of the *)
(* requests that wait.                                                        *)
FairSpec ==
  /\ Spec
  /\ \A c \in Callers : SF_vars(Connect(c) \/ Acquire(c) \/ Proceed(c))
-----------------------------------------------------------------------------
TypeOK ==
  /\ transactions \in [Ids -> 0 .. Len(ctxs)]
  /\ ctxs \in Seq([id : Ids, status : {"active", "committed", "rolledBack"},
                   sources : [Sources -> 0 .. Len(branches)]])
  /\ branches \in Seq([source : Sources,
                       state : {"open", "committed", "failed", "rolledBack"}])
  /\ mu \in Callers \cup {NoCaller}
  /\ pc \in [Callers -> Holding \cup Waiting \cup {"idle", "begin", "newContext", "publish",
       "joinStatus", "joinExists", "joinBegin", "joinStore", "execBegin", "execFn"}]
  /\ local \in [Callers -> [ctx : 0 .. Len(ctxs), src : Sources \cup {None},
                           tx : 0 .. Len(branches), todo : SUBSET Sources]]
  /\ astray \subseteq 1 .. Len(branches)

(* Whenever the lock is free, a transaction in the map is active: what ended *)
(* cannot be found, joined or ended again, whichever goroutines race.        *)
RegisteredAreActive ==
  mu = NoCaller =>
    \A i \in Ids : transactions[i] # None => ctxs[transactions[i]].status = "active"

(* No branch keeps a connection that nobody can give back: unless a race     *)
(* led it astray, an open branch belongs to a transaction in the map or is   *)
(* in the hands of a call that is under way.                                 *)
NoBranchLeaks ==
  \A b \in 1 .. Len(branches) \ astray :
    branches[b].state = "open" =>
      \/ \E x \in Registered : b \in BranchesOf(x)
      \/ \E c \in Callers :
           pc[c] \in {"newContext", "publish", "joinStore", "execFn"} /\ local[c].tx = b

States(x) == {branches[b].state : b \in BranchesOf(x) \ astray}

(* CommitTransaction returns nil only if every branch was committed. *)
NilMeansCommitted ==
  [][\A c \in Callers : pc[c] = "committing" /\ pc'[c] = "idle"
                          => States(local[c].ctx) \subseteq {"committed"}]_vars

(* CommitTransaction returns an error only after every branch is done, so *)
(* that a failed commit keeps no connection.                              *)
ErrorMeansClosed ==
  [][\A c \in Callers : pc[c] = "undoing" /\ pc'[c] = "idle"
                          => "open" \notin States(local[c].ctx)]_vars

(* "ErrTransactionNotActive is returned when a transaction is not active"   *)
(* (transaction.go:202): JoinTransaction adds no branch to one that is not. *)
JoinsOnlyActive ==
  [][\A c \in Callers : pc[c] = "joinStore" /\ pc'[c] = "idle"
                          => ctxs[local[c].ctx].status = "active"]_vars

(* The call waits in db.Begin, and every connection of the pool is taken by *)
(* a branch that no goroutine has in its hands: its transaction was begun   *)
(* or joined and then left alone, or lost.                                  *)
Starved(c) ==
  /\ pc[c] \in {"begin", "joinBegin", "execBegin"}
  /\ Cardinality({b \in OpenOn(local[c].src) :
       \A d \in Callers : pc[d] \in {"newContext", "publish", "joinStore", "execFn"}
                             => local[d].tx # b}) = Capacity[local[c].src]

(* Every call returns, whatever is committed, rolled back, closed and joined *)
(* beside it and whatever fails: none waits for tm.mu for ever.  The only    *)
(* call that hangs is one that asks a pool whose connections nobody ever     *)
(* gives back: db.Begin has no timeout (transaction.go:63, 107).             *)
CallsReturn == \A c \in Callers : []<>(pc[c] = "idle") \/ <>[]Starved(c)
=============================================================================
