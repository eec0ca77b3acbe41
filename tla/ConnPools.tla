----------------------------- MODULE ConnPools ------------------------------
(***************************************************************************)
(* The process-wide registry of backend connection pools: the map dbPools, *)
(* guarded by the RWMutex dbMutex, and the three functions that touch it:  *)
(* getDBConnection (sqlrouter/router.go) with its double-checked lazy      *)
(* creation, GetPoolStats and CloseAllConnections (sqlrouter/              *)
(* transaction.go).  One step of a goroutine is one access to shared state *)
(* or one lock operation.  A pool (a sql.DB) is its index in `pools'.        *)
(***************************************************************************)
EXTENDS Naturals, Sequences

CONSTANTS
  Callers,       \* goroutines
  Names,         \* data source names that requests mention
  Configured,    \* names with an entry in dataSources and a usable URL
  NoCaller,      \* not a goroutine
  MaxPools,      \* bound: pools opened in a behaviour
  MaxCloses,     \* bound: calls of CloseAllConnections
  CloseFails     \* names whose pools may return an error from Close

ASSUME ConnPoolsAssumption ==
  /\ Configured \subseteq Names
  /\ NoCaller \notin Callers
  /\ MaxPools \in Nat
  /\ MaxCloses \in Nat
  /\ CloseFails \subseteq Names

Handles == 1 .. MaxPools
NoPool == 0

VARIABLES
  dbPools,   \* the map: name -> handle, NoPool where the map has no key
  pools,     \* pools[h]: the name sql.Open was called for to make handle h
  closed,    \* handles whose Close was called
  wlock,     \* the goroutine that holds or has announced dbMutex.Lock
  readers,   \* the goroutines inside dbMutex.RLock
  pc,        \* where each goroutine is
  target,    \* the name it asked for
  db,        \* its local db: the handle it found, opened or uses
  todo,      \* CloseAllConnections: the keys its range loop has still to visit
  closes     \* calls of CloseAllConnections so far

vars == <<dbPools, pools, closed, wlock, readers, pc, target, db, todo, closes>>

ReadSection  == {"peek", "stats"}
WriteSection == {"recheck", "open", "register", "closing"}
LockOwner    == WriteSection \cup {"drain", "closeDrain"}
Waiting      == {"rlock", "lock", "statsRLock", "closeLock"}
Outside      == {"idle", "holding"} \cup Waiting

Registered == {n \in Names : dbPools[n] # NoPool}

Init ==
  /\ dbPools = [n \in Names |-> NoPool]
  /\ pools = <<>>
  /\ closed = {}
  /\ wlock = NoCaller
  /\ readers = {}
  /\ pc = [c \in Callers |-> "idle"]
  /\ target \in [Callers -> Names]
  /\ db = [c \in Callers |-> NoPool]
  /\ todo = [c \in Callers |-> {}]
  /\ closes = 0
-----------------------------------------------------------------------------
(* dbMutex.  A writer first announces itself, which keeps new readers out, *)
(* and then waits for the readers inside to leave.                         *)

Goto(c, from, to) ==
  /\ pc[c] = from
  /\ pc' = [pc EXCEPT ![c] = to]

RLock(c, from, to) ==
  /\ Goto(c, from, to)
  /\ wlock = NoCaller
  /\ readers' = readers \cup {c}
  /\ UNCHANGED <<dbPools, pools, closed, wlock, target, db, todo, closes>>

Announce(c, from, to) ==
  /\ Goto(c, from, to)
  /\ wlock = NoCaller
  /\ wlock' = c
  /\ UNCHANGED <<dbPools, pools, closed, readers, target, db, todo, closes>>

(* Fault variant: RLock where Lock is meant. *)
DrainedAsReader(c, from, to) ==
  /\ Goto(c, from, to)
  /\ UNCHANGED <<dbPools, pools, closed, wlock, readers, target, db, closes>>

Drained(c, from, to) ==
  /\ Goto(c, from, to)
  /\ readers = {}
  /\ UNCHANGED <<dbPools, pools, closed, wlock, readers, target, db, closes>>
-----------------------------------------------------------------------------
(* getDBConnection *)

CallGet(c, n) ==
  /\ Goto(c, "idle", "rlock")
  /\ target' = [target EXCEPT ![c] = n]
  /\ UNCHANGED <<dbPools, pools, closed, wlock, readers, db, todo, closes>>

(* Read under the read lock, then RUnlock on both paths. *)
PeekHit(c) ==
  /\ Goto(c, "peek", "holding")
  /\ target[c] \in Registered
  /\ db' = [db EXCEPT ![c] = dbPools[target[c]]]
  /\ readers' = readers \ {c}
  /\ UNCHANGED <<dbPools, pools, closed, wlock, target, todo, closes>>

(* Fault variant: no RUnlock before Lock. *)
PeekMissKeepsRLock(c) ==
  /\ Goto(c, "peek", "lock")
  /\ target[c] \notin Registered
  /\ UNCHANGED <<dbPools, pools, closed, wlock, readers, target, db, todo, closes>>

PeekMiss(c) ==
  /\ Goto(c, "peek", "lock")
  /\ target[c] \notin Registered
  /\ readers' = readers \ {c}
  /\ UNCHANGED <<dbPools, pools, closed, wlock, target, db, todo, closes>>

(* Fault variant: the hit returns the nil db of the outer scope. *)
RecheckHitReturnsNil(c) ==
  /\ Goto(c, "recheck", "holding")
  /\ target[c] \in Registered
  /\ wlock' = NoCaller
  /\ UNCHANGED <<dbPools, pools, closed, readers, target, db, todo, closes>>

(* The second check, under the write lock. *)
RecheckHit(c) ==
  /\ Goto(c, "recheck", "holding")
  /\ target[c] \in Registered
  /\ db' = [db EXCEPT ![c] = dbPools[target[c]]]
  /\ wlock' = NoCaller
  /\ UNCHANGED <<dbPools, pools, closed, readers, target, todo, closes>>

(* Fault variant: no second check. *)
NoRecheck(c) ==
  /\ Goto(c, "recheck", "open")
  /\ UNCHANGED <<dbPools, pools, closed, wlock, readers, target, db, todo, closes>>

RecheckMiss(c) ==
  /\ Goto(c, "recheck", "open")
  /\ target[c] \notin Registered
  /\ UNCHANGED <<dbPools, pools, closed, wlock, readers, target, db, todo, closes>>

(* GetDataSource, BuildMySQLDSN or sql.Open fails: the error is returned *)
(* and the deferred Unlock runs.                                         *)
OpenFails(c) ==
  /\ Goto(c, "open", "idle")
  /\ target[c] \notin Configured
  /\ wlock' = NoCaller
  /\ UNCHANGED <<dbPools, pools, closed, readers, target, db, todo, closes>>

OpenPool(c) ==
  /\ Goto(c, "open", "register")
  /\ target[c] \in Configured
  /\ Len(pools) < MaxPools
  /\ pools' = Append(pools, target[c])
  /\ db' = [db EXCEPT ![c] = Len(pools) + 1]
  /\ UNCHANGED <<dbPools, closed, wlock, readers, target, todo, closes>>

Register(c) ==
  /\ Goto(c, "register", "holding")
  /\ dbPools' = [dbPools EXCEPT ![target[c]] = db[c]]
  /\ wlock' = NoCaller
  /\ UNCHANGED <<pools, closed, readers, target, db, todo, closes>>

(* The caller has run its statement on the pool and drops the handle. *)
Finish(c) ==
  /\ Goto(c, "holding", "idle")
  /\ db' = [db EXCEPT ![c] = NoPool]
  /\ UNCHANGED <<dbPools, pools, closed, wlock, readers, target, todo, closes>>
-----------------------------------------------------------------------------
(* GetPoolStats and CloseAllConnections *)

CallStats(c) ==
  /\ Goto(c, "idle", "statsRLock")
  /\ UNCHANGED <<dbPools, pools, closed, wlock, readers, target, db, todo, closes>>

StatsReturn(c) ==
  /\ Goto(c, "stats", "idle")
  /\ readers' = readers \ {c}
  /\ UNCHANGED <<dbPools, pools, closed, wlock, target, db, todo, closes>>

CallClose(c) ==
  /\ Goto(c, "idle", "closeLock")
  /\ closes < MaxCloses
  /\ closes' = closes + 1
  /\ UNCHANGED <<dbPools, pools, closed, wlock, readers, target, db, todo>>

CloseStart(c) ==
  /\ Drained(c, "closeDrain", "closing")
  /\ todo' = [todo EXCEPT ![c] = Registered]

(* Fault variant: the key is left in the map. *)
CloseOneKeepsKey(c, n) ==
  /\ pc[c] = "closing"
  /\ n \in todo[c]
  /\ closed' = closed \cup {dbPools[n]}
  /\ todo' = [todo EXCEPT ![c] = @ \ {n}]
  /\ UNCHANGED <<dbPools, pools, wlock, readers, pc, target, db, closes>>

(* One iteration of the range loop; after an error the key stays. *)
CloseOne(c, n) ==
  /\ pc[c] = "closing"
  /\ n \in todo[c]
  /\ closed' = closed \cup {dbPools[n]}
  /\ \/ dbPools' = [dbPools EXCEPT ![n] = NoPool]
     \/ n \in CloseFails /\ UNCHANGED dbPools
  /\ todo' = [todo EXCEPT ![c] = @ \ {n}]
  /\ UNCHANGED <<pools, wlock, readers, pc, target, db, closes>>

CloseReturn(c) ==
  /\ Goto(c, "closing", "idle")
  /\ todo[c] = {}
  /\ wlock' = NoCaller
  /\ UNCHANGED <<dbPools, pools, closed, readers, target, db, todo, closes>>
-----------------------------------------------------------------------------
TakeRLock(c) ==
  \/ RLock(c, "rlock", "peek")
  \/ RLock(c, "statsRLock", "stats")

TakeLock(c) ==
  \/ Announce(c, "lock", "drain")
  \/ Announce(c, "closeLock", "closeDrain")

(* What a goroutine does inside its call once it is past the lock's queue. *)
Proceed(c) ==
  \/ PeekHit(c) \/ PeekMiss(c)
  \/ Drained(c, "drain", "recheck") /\ UNCHANGED todo
  \/ RecheckHit(c) \/ RecheckMiss(c)
  \/ OpenFails(c) \/ OpenPool(c) \/ Register(c)
  \/ StatsReturn(c)
  \/ CloseStart(c) \/ (\E n \in Names : CloseOne(c, n)) \/ CloseReturn(c)

Invoke(c) ==
  \/ \E n \in Names : CallGet(c, n)
  \/ Finish(c) \/ CallStats(c) \/ CallClose(c)

Next == \E c \in Callers : TakeRLock(c) \/ TakeLock(c) \/ Proceed(c) \/ Invoke(c)

Spec == Init /\ [][Next]_vars

(* A goroutine that can run does run, and Go's RWMutex starves nobody: a *)
(* pending Lock stops new readers, Unlock lets the waiting readers in,   *)
(* and a waiting writer is handed the inner mutex in order.              *)
Fairness ==
  \A c \in Callers : /\ WF_vars(Proceed(c))
                     /\ SF_vars(TakeRLock(c))
                     /\ SF_vars(TakeLock(c))

FairSpec == Spec /\ Fairness
-----------------------------------------------------------------------------
TypeOK ==
  /\ dbPools \in [Names -> Handles \cup {NoPool}]
  /\ pools \in Seq(Names) /\ Len(pools) <= MaxPools
  /\ closed \subseteq Handles \cup {NoPool}
  /\ wlock \in Callers \cup {NoCaller}
  /\ readers \subseteq Callers
  /\ pc \in [Callers -> Outside \cup ReadSection \cup LockOwner]
  /\ target \in [Callers -> Names]
  /\ db \in [Callers -> Handles \cup {NoPool}]
  /\ todo \in [Callers -> SUBSET Names]
  /\ closes \in 0 .. MaxCloses

(* Every pool that is still open can be reached through the map, except    *)
(* the one a goroutine has just opened and is about to register: the       *)
(* double check of getDBConnection never opens two pools for one name,     *)
(* whatever the interleaving, so no pool leaks its connections.            *)
OnePoolPerName ==
  \A h \in 1 .. Len(pools) :
    \/ h \in closed
    \/ dbPools[pools[h]] = h
    \/ \E c \in Callers : pc[c] = "register" /\ db[c] = h /\ target[c] = pools[h]

(* dbPools is never written while a goroutine reads it: a concurrent map   *)
(* read and write is a fatal error of the Go runtime.                      *)
StableWhileRead == [][dbPools' # dbPools => readers = {}]_vars

(* getDBConnection hands out a pool that is open at that moment, also when *)
(* CloseAllConnections runs between its two checks and when closing the    *)
(* pool of another name fails: only a pool whose own Close failed stays in *)
(* the map closed.                                                         *)
HandsOutOpenPool ==
  [][\A c \in Callers :
       pc[c] # "holding" /\ pc'[c] = "holding" /\ target[c] \notin CloseFails
         => db'[c] \in Handles \ closed]_vars

(* The pools opened so far, but for the one about to be registered. *)
Opened == {h \in 1 .. Len(pools) : ~ \E c \in Callers : pc[c] = "register" /\ db[c] = h}

(* The name each goroutine asked for and the pool it was handed for it and *)
(* has not dropped yet.                                                    *)
Answer == [c \in Callers |-> IF pc[c] = "holding" THEN <<target[c], db[c]>> ELSE <<>>]

Registry == INSTANCE PoolRegistry WITH
  Pools <- Handles, registry <- dbPools, opened <- Opened, answer <- Answer

(* getDBConnection is an atomic get-or-create on the registry: each call    *)
(* returns the one pool registered for its name at that moment, and opens a *)
(* pool only when there is none.                                            *)
AtomicGetOrCreate == Registry!RSpec

(* Every call of the three functions returns: no path leaves with a lock   *)
(* held, and no goroutine waits for itself or for another forever.         *)
CallsReturn ==
  \A c \in Callers : pc[c] \notin {"idle", "holding"} ~> pc[c] \in {"idle", "holding"}
=============================================================================
