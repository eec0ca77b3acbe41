--------------------------- MODULE ConnPoolsProofs ---------------------------
(***************************************************************************)
(* Proofs about ConnPools, for any goroutines, names and bounds.           *)
(***************************************************************************)
EXTENDS ConnPools, TLAPS

(* The lock protocol: who holds or has announced the write lock, who reads, *)
(* and that the two sections exclude each other.                            *)
LockInv ==
  /\ \A c \in Callers : pc[c] \in LockOwner <=> wlock = c
  /\ readers = {c \in Callers : pc[c] \in ReadSection}
  /\ (\E c \in Callers : pc[c] \in WriteSection) => readers = {}

(* What a goroutine inside the write section knows about the map. *)
SectionInv ==
  \A c \in Callers :
    /\ pc[c] \in {"open", "register"} => dbPools[target[c]] = NoPool
    /\ pc[c] = "register" => /\ db[c] \in 1 .. Len(pools)
                             /\ pools[db[c]] = target[c]
                             /\ target[c] \in Configured
    /\ pc[c] = "closing" => \A n \in todo[c] : dbPools[n] # NoPool

(* A registered handle was opened for the name it is registered under. *)
MapInv ==
  \A n \in Names :
    dbPools[n] # NoPool => dbPools[n] \in 1 .. Len(pools) /\ pools[dbPools[n]] = n

(* A registered pool is open, unless its Close can fail and leave the key. *)
OpenInv ==
  /\ closed \subseteq 1 .. Len(pools)
  /\ \A n \in Names \ CloseFails : dbPools[n] \notin closed
  /\ \A c \in Callers : pc[c] = "register" => db[c] \notin closed
-----------------------------------------------------------------------------
(* Every variable keeps its type, for any number of goroutines. *)
THEOREM TypeCorrect == Spec => []TypeOK
<1>1. Init => TypeOK
  BY ConnPoolsAssumption DEF Init, TypeOK, Outside, Handles, NoPool
<1>2. TypeOK /\ [Next]_vars => TypeOK'
  <2> SUFFICES ASSUME TypeOK, [Next]_vars
               PROVE  TypeOK'
    OBVIOUS
  <2> USE ConnPoolsAssumption DEF TypeOK, Outside, ReadSection, WriteSection,
          LockOwner, Waiting, Handles, NoPool
  <2>1. CASE UNCHANGED vars
    BY <2>1 DEF vars
  <2>2. ASSUME NEW c \in Callers, TakeRLock(c) PROVE TypeOK'
    <3>1. CASE RLock(c, "rlock", "peek")
      BY <3>1 DEF RLock, Goto
    <3>2. CASE RLock(c, "statsRLock", "stats")
      BY <3>2 DEF RLock, Goto
    <3>3. QED
      BY <2>2, <3>1, <3>2 DEF TakeRLock
  <2>3. ASSUME NEW c \in Callers, TakeLock(c) PROVE TypeOK'
    <3>1. CASE Announce(c, "lock", "drain")
      BY <3>1 DEF Announce, Goto
    <3>2. CASE Announce(c, "closeLock", "closeDrain")
      BY <3>2 DEF Announce, Goto
    <3>3. QED
      BY <2>3, <3>1, <3>2 DEF TakeLock
  <2>4. ASSUME NEW c \in Callers, Proceed(c) PROVE TypeOK'
    <3>1. CASE PeekHit(c)
      BY <3>1 DEF PeekHit, Goto, Registered
    <3>2. CASE PeekMiss(c)
      BY <3>2 DEF PeekMiss, Goto, Registered
    <3>3. CASE Drained(c, "drain", "recheck") /\ UNCHANGED todo
      BY <3>3 DEF Drained, Goto
    <3>4. CASE RecheckHit(c)
      BY <3>4 DEF RecheckHit, Goto, Registered
    <3>5. CASE RecheckMiss(c)
      BY <3>5 DEF RecheckMiss, Goto, Registered
    <3>6. CASE OpenFails(c)
      BY <3>6 DEF OpenFails, Goto
    <3>7. CASE OpenPool(c)
      BY <3>7 DEF OpenPool, Goto
    <3>8. CASE Register(c)
      BY <3>8 DEF Register, Goto
    <3>9. CASE StatsReturn(c)
      BY <3>9 DEF StatsReturn, Goto
    <3>10. CASE CloseStart(c)
      BY <3>10 DEF CloseStart, Drained, Goto, Registered
    <3>11. ASSUME NEW n \in Names, CloseOne(c, n) PROVE TypeOK'
      BY <3>11 DEF CloseOne
    <3>12. CASE CloseReturn(c)
      BY <3>12 DEF CloseReturn, Goto
    <3>13. QED
      BY <2>4, <3>1, <3>2, <3>3, <3>4, <3>5, <3>6, <3>7, <3>8, <3>9, <3>10, <3>11, <3>12 DEF Proceed
  <2>5. ASSUME NEW c \in Callers, Invoke(c) PROVE TypeOK'
    <3>1. CASE \E n \in Names : CallGet(c, n)
      BY <3>1 DEF CallGet, Goto
    <3>2. CASE Finish(c)
      BY <3>2 DEF Finish, Goto
    <3>3. CASE CallStats(c)
      BY <3>3 DEF CallStats, Goto
    <3>4. CASE CallClose(c)
      BY <3>4 DEF CallClose, Goto
    <3>5. QED
      BY <2>5, <3>1, <3>2, <3>3, <3>4 DEF Invoke
  <2>6. QED
    BY <2>1, <2>2, <2>3, <2>4, <2>5 DEF Next
<1>3. QED
  BY <1>1, <1>2, PTL DEF Spec

(* The write lock and the read lock exclude each other on every path. *)
THEOREM LockProtocol == Spec => []LockInv
<1>1. Init => LockInv
  BY ConnPoolsAssumption DEF Init, LockInv, Outside, ReadSection, WriteSection,
          LockOwner, Waiting
<1>2. TypeOK /\ LockInv /\ (TypeOK)' /\ [Next]_vars => LockInv'
  <2> SUFFICES ASSUME TypeOK, LockInv, TypeOK', [Next]_vars
               PROVE  LockInv'
    OBVIOUS
  <2> USE ConnPoolsAssumption DEF TypeOK, LockInv, Outside, ReadSection, WriteSection,
          LockOwner, Waiting
  <2>1. CASE UNCHANGED vars
    BY <2>1 DEF vars
  <2>2. ASSUME NEW c \in Callers, TakeRLock(c) PROVE LockInv'
    <3>1. CASE RLock(c, "rlock", "peek")
      BY <3>1 DEF RLock, Goto
    <3>2. CASE RLock(c, "statsRLock", "stats")
      BY <3>2 DEF RLock, Goto
    <3>3. QED
      BY <2>2, <3>1, <3>2 DEF TakeRLock
  <2>3. ASSUME NEW c \in Callers, TakeLock(c) PROVE LockInv'
    <3>1. CASE Announce(c, "lock", "drain")
      BY <3>1 DEF Announce, Goto
    <3>2. CASE Announce(c, "closeLock", "closeDrain")
      BY <3>2 DEF Announce, Goto
    <3>3. QED
      BY <2>3, <3>1, <3>2 DEF TakeLock
  <2>4. ASSUME NEW c \in Callers, Proceed(c) PROVE LockInv'
    <3>1. CASE PeekHit(c)
      BY <3>1 DEF PeekHit, Goto, Registered
    <3>2. CASE PeekMiss(c)
      BY <3>2 DEF PeekMiss, Goto, Registered
    <3>3. CASE Drained(c, "drain", "recheck") /\ UNCHANGED todo
      BY <3>3 DEF Drained, Goto
    <3>4. CASE RecheckHit(c)
      BY <3>4 DEF RecheckHit, Goto, Registered
    <3>5. CASE RecheckMiss(c)
      BY <3>5 DEF RecheckMiss, Goto, Registered
    <3>6. CASE OpenFails(c)
      BY <3>6 DEF OpenFails, Goto
    <3>7. CASE OpenPool(c)
      BY <3>7 DEF OpenPool, Goto
    <3>8. CASE Register(c)
      BY <3>8 DEF Register, Goto
    <3>9. CASE StatsReturn(c)
      BY <3>9 DEF StatsReturn, Goto
    <3>10. CASE CloseStart(c)
      BY <3>10 DEF CloseStart, Drained, Goto, Registered
    <3>11. ASSUME NEW n \in Names, CloseOne(c, n) PROVE LockInv'
      BY <3>11 DEF CloseOne
    <3>12. CASE CloseReturn(c)
      BY <3>12 DEF CloseReturn, Goto
    <3>13. QED
      BY <2>4, <3>1, <3>2, <3>3, <3>4, <3>5, <3>6, <3>7, <3>8, <3>9, <3>10, <3>11, <3>12 DEF Proceed
  <2>5. ASSUME NEW c \in Callers, Invoke(c) PROVE LockInv'
    <3>1. CASE \E n \in Names : CallGet(c, n)
      BY <3>1 DEF CallGet, Goto
    <3>2. CASE Finish(c)
      BY <3>2 DEF Finish, Goto
    <3>3. CASE CallStats(c)
      BY <3>3 DEF CallStats, Goto
    <3>4. CASE CallClose(c)
      BY <3>4 DEF CallClose, Goto
    <3>5. QED
      BY <2>5, <3>1, <3>2, <3>3, <3>4 DEF Invoke
  <2>6. QED
    BY <2>1, <2>2, <2>3, <2>4, <2>5 DEF Next
<1>3. QED
  BY <1>1, <1>2, TypeCorrect, PTL DEF Spec

(* What the second check established still holds when the pool is opened and registered. *)
THEOREM SectionsKnowTheMap == Spec => []SectionInv
<1>1. Init => SectionInv
  BY ConnPoolsAssumption DEF Init, SectionInv, Outside, ReadSection, WriteSection,
          LockOwner, Waiting
<1>2. TypeOK /\ LockInv /\ SectionInv /\ (TypeOK /\ LockInv)' /\ [Next]_vars => SectionInv'
  <2> SUFFICES ASSUME TypeOK, LockInv, SectionInv, TypeOK', LockInv', [Next]_vars
               PROVE  SectionInv'
    OBVIOUS
  <2> USE ConnPoolsAssumption DEF TypeOK, LockInv, SectionInv, Outside, ReadSection, WriteSection,
          LockOwner, Waiting, Handles, NoPool
  <2>1. CASE UNCHANGED vars
    BY <2>1 DEF vars
  <2>2. ASSUME NEW c \in Callers, TakeRLock(c) PROVE SectionInv'
    <3>1. CASE RLock(c, "rlock", "peek")
      BY <3>1 DEF RLock, Goto
    <3>2. CASE RLock(c, "statsRLock", "stats")
      BY <3>2 DEF RLock, Goto
    <3>3. QED
      BY <2>2, <3>1, <3>2 DEF TakeRLock
  <2>3. ASSUME NEW c \in Callers, TakeLock(c) PROVE SectionInv'
    <3>1. CASE Announce(c, "lock", "drain")
      BY <3>1 DEF Announce, Goto
    <3>2. CASE Announce(c, "closeLock", "closeDrain")
      BY <3>2 DEF Announce, Goto
    <3>3. QED
      BY <2>3, <3>1, <3>2 DEF TakeLock
  <2>4. ASSUME NEW c \in Callers, Proceed(c) PROVE SectionInv'
    <3>1. CASE PeekHit(c)
      BY <3>1 DEF PeekHit, Goto, Registered
    <3>2. CASE PeekMiss(c)
      BY <3>2 DEF PeekMiss, Goto, Registered
    <3>3. CASE Drained(c, "drain", "recheck") /\ UNCHANGED todo
      BY <3>3 DEF Drained, Goto
    <3>4. CASE RecheckHit(c)
      BY <3>4 DEF RecheckHit, Goto, Registered
    <3>5. CASE RecheckMiss(c)
      BY <3>5 DEF RecheckMiss, Goto, Registered
    <3>6. CASE OpenFails(c)
      BY <3>6 DEF OpenFails, Goto
    <3>7. CASE OpenPool(c)
      BY <3>7 DEF OpenPool, Goto
    <3>8. CASE Register(c)
      BY <3>8 DEF Register, Goto
    <3>9. CASE StatsReturn(c)
      BY <3>9 DEF StatsReturn, Goto
    <3>10. CASE CloseStart(c)
      BY <3>10 DEF CloseStart, Drained, Goto, Registered
    <3>11. ASSUME NEW n \in Names, CloseOne(c, n) PROVE SectionInv'
      BY <3>11 DEF CloseOne
    <3>12. CASE CloseReturn(c)
      BY <3>12 DEF CloseReturn, Goto
    <3>13. QED
      BY <2>4, <3>1, <3>2, <3>3, <3>4, <3>5, <3>6, <3>7, <3>8, <3>9, <3>10, <3>11, <3>12 DEF Proceed
  <2>5. ASSUME NEW c \in Callers, Invoke(c) PROVE SectionInv'
    <3>1. CASE \E n \in Names : CallGet(c, n)
      BY <3>1 DEF CallGet, Goto
    <3>2. CASE Finish(c)
      BY <3>2 DEF Finish, Goto
    <3>3. CASE CallStats(c)
      BY <3>3 DEF CallStats, Goto
    <3>4. CASE CallClose(c)
      BY <3>4 DEF CallClose, Goto
    <3>5. QED
      BY <2>5, <3>1, <3>2, <3>3, <3>4 DEF Invoke
  <2>6. QED
    BY <2>1, <2>2, <2>3, <2>4, <2>5 DEF Next
<1>3. QED
  BY <1>1, <1>2, TypeCorrect, LockProtocol, PTL DEF Spec

(* Every name is registered with a pool that was opened for it. *)
THEOREM MapNamesPools == Spec => []MapInv
<1>1. Init => MapInv
  BY ConnPoolsAssumption DEF Init, MapInv, Outside, ReadSection, WriteSection,
          LockOwner, Waiting
<1>2. TypeOK /\ LockInv /\ SectionInv /\ MapInv /\ (TypeOK /\ LockInv /\ SectionInv)' /\ [Next]_vars => MapInv'
  <2> SUFFICES ASSUME TypeOK, LockInv, SectionInv, MapInv, TypeOK', LockInv', SectionInv', [Next]_vars
               PROVE  MapInv'
    OBVIOUS
  <2> USE ConnPoolsAssumption DEF TypeOK, LockInv, SectionInv, MapInv, Outside, ReadSection, WriteSection,
          LockOwner, Waiting, Handles, NoPool
  <2>1. CASE UNCHANGED vars
    BY <2>1 DEF vars
  <2>2. ASSUME NEW c \in Callers, TakeRLock(c) PROVE MapInv'
    <3>1. CASE RLock(c, "rlock", "peek")
      BY <3>1 DEF RLock, Goto
    <3>2. CASE RLock(c, "statsRLock", "stats")
      BY <3>2 DEF RLock, Goto
    <3>3. QED
      BY <2>2, <3>1, <3>2 DEF TakeRLock
  <2>3. ASSUME NEW c \in Callers, TakeLock(c) PROVE MapInv'
    <3>1. CASE Announce(c, "lock", "drain")
      BY <3>1 DEF Announce, Goto
    <3>2. CASE Announce(c, "closeLock", "closeDrain")
      BY <3>2 DEF Announce, Goto
    <3>3. QED
      BY <2>3, <3>1, <3>2 DEF TakeLock
  <2>4. ASSUME NEW c \in Callers, Proceed(c) PROVE MapInv'
    <3>1. CASE PeekHit(c)
      BY <3>1 DEF PeekHit, Goto, Registered
    <3>2. CASE PeekMiss(c)
      BY <3>2 DEF PeekMiss, Goto, Registered
    <3>3. CASE Drained(c, "drain", "recheck") /\ UNCHANGED todo
      BY <3>3 DEF Drained, Goto
    <3>4. CASE RecheckHit(c)
      BY <3>4 DEF RecheckHit, Goto, Registered
    <3>5. CASE RecheckMiss(c)
      BY <3>5 DEF RecheckMiss, Goto, Registered
    <3>6. CASE OpenFails(c)
      BY <3>6 DEF OpenFails, Goto
    <3>7. CASE OpenPool(c)
      BY <3>7 DEF OpenPool, Goto
    <3>8. CASE Register(c)
      BY <3>8 DEF Register, Goto
    <3>9. CASE StatsReturn(c)
      BY <3>9 DEF StatsReturn, Goto
    <3>10. CASE CloseStart(c)
      BY <3>10 DEF CloseStart, Drained, Goto, Registered
    <3>11. ASSUME NEW n \in Names, CloseOne(c, n) PROVE MapInv'
      BY <3>11 DEF CloseOne
    <3>12. CASE CloseReturn(c)
      BY <3>12 DEF CloseReturn, Goto
    <3>13. QED
      BY <2>4, <3>1, <3>2, <3>3, <3>4, <3>5, <3>6, <3>7, <3>8, <3>9, <3>10, <3>11, <3>12 DEF Proceed
  <2>5. ASSUME NEW c \in Callers, Invoke(c) PROVE MapInv'
    <3>1. CASE \E n \in Names : CallGet(c, n)
      BY <3>1 DEF CallGet, Goto
    <3>2. CASE Finish(c)
      BY <3>2 DEF Finish, Goto
    <3>3. CASE CallStats(c)
      BY <3>3 DEF CallStats, Goto
    <3>4. CASE CallClose(c)
      BY <3>4 DEF CallClose, Goto
    <3>5. QED
      BY <2>5, <3>1, <3>2, <3>3, <3>4 DEF Invoke
  <2>6. QED
    BY <2>1, <2>2, <2>3, <2>4, <2>5 DEF Next
<1>3. QED
  BY <1>1, <1>2, TypeCorrect, LockProtocol, SectionsKnowTheMap, PTL DEF Spec

(* No interleaving opens two pools for one name: an open pool is reachable through the map. *)
THEOREM NoDuplicatePool == Spec => []OnePoolPerName
<1>1. Init => OnePoolPerName
  BY ConnPoolsAssumption DEF Init, OnePoolPerName, Outside, ReadSection, WriteSection,
          LockOwner, Waiting
<1>2. TypeOK /\ LockInv /\ SectionInv /\ MapInv /\ OnePoolPerName /\ (TypeOK /\ LockInv /\ SectionInv /\ MapInv)' /\ [Next]_vars => OnePoolPerName'
  <2> SUFFICES ASSUME TypeOK, LockInv, SectionInv, MapInv, OnePoolPerName, TypeOK', LockInv', SectionInv', MapInv', [Next]_vars
               PROVE  OnePoolPerName'
    OBVIOUS
  <2> USE ConnPoolsAssumption DEF TypeOK, LockInv, SectionInv, MapInv, OnePoolPerName, Outside, ReadSection, WriteSection,
          LockOwner, Waiting, Handles, NoPool
  <2>1. CASE UNCHANGED vars
    BY <2>1 DEF vars
  <2>2. ASSUME NEW c \in Callers, TakeRLock(c) PROVE OnePoolPerName'
    <3>1. CASE RLock(c, "rlock", "peek")
      BY <3>1 DEF RLock, Goto
    <3>2. CASE RLock(c, "statsRLock", "stats")
      BY <3>2 DEF RLock, Goto
    <3>3. QED
      BY <2>2, <3>1, <3>2 DEF TakeRLock
  <2>3. ASSUME NEW c \in Callers, TakeLock(c) PROVE OnePoolPerName'
    <3>1. CASE Announce(c, "lock", "drain")
      BY <3>1 DEF Announce, Goto
    <3>2. CASE Announce(c, "closeLock", "closeDrain")
      BY <3>2 DEF Announce, Goto
    <3>3. QED
      BY <2>3, <3>1, <3>2 DEF TakeLock
  <2>4. ASSUME NEW c \in Callers, Proceed(c) PROVE OnePoolPerName'
    <3>1. CASE PeekHit(c)
      BY <3>1 DEF PeekHit, Goto, Registered
    <3>2. CASE PeekMiss(c)
      BY <3>2 DEF PeekMiss, Goto, Registered
    <3>3. CASE Drained(c, "drain", "recheck") /\ UNCHANGED todo
      BY <3>3 DEF Drained, Goto
    <3>4. CASE RecheckHit(c)
      BY <3>4 DEF RecheckHit, Goto, Registered
    <3>5. CASE RecheckMiss(c)
      BY <3>5 DEF RecheckMiss, Goto, Registered
    <3>6. CASE OpenFails(c)
      BY <3>6 DEF OpenFails, Goto
    <3>7. CASE OpenPool(c)
      BY <3>7 DEF OpenPool, Goto
    <3>8. CASE Register(c)
      BY <3>8 DEF Register, Goto
    <3>9. CASE StatsReturn(c)
      BY <3>9 DEF StatsReturn, Goto
    <3>10. CASE CloseStart(c)
      BY <3>10 DEF CloseStart, Drained, Goto, Registered
    <3>11. ASSUME NEW n \in Names, CloseOne(c, n) PROVE OnePoolPerName'
      BY <3>11 DEF CloseOne
    <3>12. CASE CloseReturn(c)
      BY <3>12 DEF CloseReturn, Goto
    <3>13. QED
      BY <2>4, <3>1, <3>2, <3>3, <3>4, <3>5, <3>6, <3>7, <3>8, <3>9, <3>10, <3>11, <3>12 DEF Proceed
  <2>5. ASSUME NEW c \in Callers, Invoke(c) PROVE OnePoolPerName'
    <3>1. CASE \E n \in Names : CallGet(c, n)
      BY <3>1 DEF CallGet, Goto
    <3>2. CASE Finish(c)
      BY <3>2 DEF Finish, Goto
    <3>3. CASE CallStats(c)
      BY <3>3 DEF CallStats, Goto
    <3>4. CASE CallClose(c)
      BY <3>4 DEF CallClose, Goto
    <3>5. QED
      BY <2>5, <3>1, <3>2, <3>3, <3>4 DEF Invoke
  <2>6. QED
    BY <2>1, <2>2, <2>3, <2>4, <2>5 DEF Next
<1>3. QED
  BY <1>1, <1>2, TypeCorrect, LockProtocol, SectionsKnowTheMap, MapNamesPools, PTL DEF Spec

(* A pool leaves the map before anyone can be handed it closed. *)
THEOREM RegisteredIsOpen == Spec => []OpenInv
<1>1. Init => OpenInv
  BY ConnPoolsAssumption DEF Init, OpenInv, Outside, ReadSection, WriteSection,
          LockOwner, Waiting
<1>2. TypeOK /\ LockInv /\ SectionInv /\ MapInv /\ OpenInv /\ (TypeOK /\ LockInv /\ SectionInv /\ MapInv)' /\ [Next]_vars => OpenInv'
  <2> SUFFICES ASSUME TypeOK, LockInv, SectionInv, MapInv, OpenInv, TypeOK', LockInv', SectionInv', MapInv', [Next]_vars
               PROVE  OpenInv'
    OBVIOUS
  <2> USE ConnPoolsAssumption DEF TypeOK, LockInv, SectionInv, MapInv, OpenInv, Outside, ReadSection, WriteSection,
          LockOwner, Waiting, Handles, NoPool
  <2>1. CASE UNCHANGED vars
    BY <2>1 DEF vars
  <2>2. ASSUME NEW c \in Callers, TakeRLock(c) PROVE OpenInv'
    <3>1. CASE RLock(c, "rlock", "peek")
      BY <3>1 DEF RLock, Goto
    <3>2. CASE RLock(c, "statsRLock", "stats")
      BY <3>2 DEF RLock, Goto
    <3>3. QED
      BY <2>2, <3>1, <3>2 DEF TakeRLock
  <2>3. ASSUME NEW c \in Callers, TakeLock(c) PROVE OpenInv'
    <3>1. CASE Announce(c, "lock", "drain")
      BY <3>1 DEF Announce, Goto
    <3>2. CASE Announce(c, "closeLock", "closeDrain")
      BY <3>2 DEF Announce, Goto
    <3>3. QED
      BY <2>3, <3>1, <3>2 DEF TakeLock
  <2>4. ASSUME NEW c \in Callers, Proceed(c) PROVE OpenInv'
    <3>1. CASE PeekHit(c)
      BY <3>1 DEF PeekHit, Goto, Registered
    <3>2. CASE PeekMiss(c)
      BY <3>2 DEF PeekMiss, Goto, Registered
    <3>3. CASE Drained(c, "drain", "recheck") /\ UNCHANGED todo
      BY <3>3 DEF Drained, Goto
    <3>4. CASE RecheckHit(c)
      BY <3>4 DEF RecheckHit, Goto, Registered
    <3>5. CASE RecheckMiss(c)
      BY <3>5 DEF RecheckMiss, Goto, Registered
    <3>6. CASE OpenFails(c)
      BY <3>6 DEF OpenFails, Goto
    <3>7. CASE OpenPool(c)
      BY <3>7 DEF OpenPool, Goto
    <3>8. CASE Register(c)
      BY <3>8 DEF Register, Goto
    <3>9. CASE StatsReturn(c)
      BY <3>9 DEF StatsReturn, Goto
    <3>10. CASE CloseStart(c)
      BY <3>10 DEF CloseStart, Drained, Goto, Registered
    <3>11. ASSUME NEW n \in Names, CloseOne(c, n) PROVE OpenInv'
      <4>1. /\ dbPools[n] \in 1 .. Len(pools)
            /\ pools[dbPools[n]] = n
        BY <3>11 DEF CloseOne, Registered
      <4>2. closed' = closed \cup {dbPools[n]} /\ UNCHANGED <<pools, pc, db>>
        BY <3>11 DEF CloseOne
      <4>3. closed' \subseteq 1 .. Len(pools')
        BY <4>1, <4>2
      <4>4. ASSUME NEW m \in Names \ CloseFails PROVE dbPools'[m] \notin closed'
        <5>1. CASE m = n
          <6>1. dbPools'[m] = 0
            BY <3>11, <5>1 DEF CloseOne
          <6>2. QED
            BY <4>3, <6>1
        <5>2. CASE m # n
          <6>1. dbPools'[m] = dbPools[m]
            BY <3>11, <5>2 DEF CloseOne
          <6>2. dbPools[m] # dbPools[n]
            BY <4>1, <5>2
          <6>3. QED
            BY <4>2, <6>1, <6>2
        <5>3. QED
          BY <5>1, <5>2
      <4>5. \A e \in Callers : pc'[e] # "register"
        BY <3>11 DEF CloseOne
      <4>6. QED
        BY <4>3, <4>4, <4>5
    <3>12. CASE CloseReturn(c)
      BY <3>12 DEF CloseReturn, Goto
    <3>13. QED
      BY <2>4, <3>1, <3>2, <3>3, <3>4, <3>5, <3>6, <3>7, <3>8, <3>9, <3>10, <3>11, <3>12 DEF Proceed
  <2>5. ASSUME NEW c \in Callers, Invoke(c) PROVE OpenInv'
    <3>1. CASE \E n \in Names : CallGet(c, n)
      BY <3>1 DEF CallGet, Goto
    <3>2. CASE Finish(c)
      BY <3>2 DEF Finish, Goto
    <3>3. CASE CallStats(c)
      BY <3>3 DEF CallStats, Goto
    <3>4. CASE CallClose(c)
      BY <3>4 DEF CallClose, Goto
    <3>5. QED
      BY <2>5, <3>1, <3>2, <3>3, <3>4 DEF Invoke
  <2>6. QED
    BY <2>1, <2>2, <2>3, <2>4, <2>5 DEF Next
<1>3. QED
  BY <1>1, <1>2, TypeCorrect, LockProtocol, SectionsKnowTheMap, MapNamesPools, PTL DEF Spec
-----------------------------------------------------------------------------
(* dbPools is written only while nobody is inside the read lock. *)
THEOREM MapStableWhileRead == Spec => StableWhileRead
<1>1. LockInv /\ [Next]_vars => [dbPools' # dbPools => readers = {}]_vars
  <2> SUFFICES ASSUME LockInv, Next, dbPools' # dbPools
               PROVE  readers = {}
    OBVIOUS
  <2>1. \E c \in Callers : Register(c) \/ \E n \in Names : CloseOne(c, n)
    BY DEF Next, TakeRLock, TakeLock, Proceed, Invoke, RLock, Announce, Drained,
           PeekHit, PeekMiss, RecheckHit, RecheckMiss, OpenFails, OpenPool,
           StatsReturn, CloseStart, CloseReturn, CallGet, Finish, CallStats, CallClose
  <2>2. \E c \in Callers : pc[c] \in WriteSection
    BY <2>1 DEF Register, CloseOne, Goto, WriteSection
  <2>3. QED
    BY <2>2 DEF LockInv
<1>2. QED
  BY <1>1, LockProtocol, PTL DEF Spec, StableWhileRead

(* Every handle returned for a name whose Close does not fail is an open     *)
(* pool, also when CloseAllConnections runs between the two checks.          *)
THEOREM OpenPoolsOnly == Spec => HandsOutOpenPool
<1>1. TypeOK /\ LockInv /\ SectionInv /\ MapInv /\ OpenInv /\ [Next]_vars =>
        [\A c \in Callers :
           pc[c] # "holding" /\ pc'[c] = "holding" /\ target[c] \notin CloseFails
             => db'[c] \in Handles \ closed]_vars
  <2> SUFFICES ASSUME TypeOK, SectionInv, MapInv, OpenInv, Next, NEW c \in Callers,
                      pc[c] # "holding", pc'[c] = "holding", target[c] \notin CloseFails
               PROVE  db'[c] \in Handles \ closed
    OBVIOUS
  <2> USE DEF TypeOK, Goto
  <2>1. PeekHit(c) \/ RecheckHit(c) \/ Register(c)
    <3>1. PICK e \in Callers : TakeRLock(e) \/ TakeLock(e) \/ Proceed(e) \/ Invoke(e)
      BY DEF Next
    <3>2. ~ TakeRLock(e) /\ ~ TakeLock(e)
      BY DEF TakeRLock, TakeLock, RLock, Announce
    <3>3. ~ Invoke(e)
      BY DEF Invoke, CallGet, Finish, CallStats, CallClose
    <3>4. CASE Proceed(e)
      <4>1. PeekHit(e) \/ RecheckHit(e) \/ Register(e)
        <5>1. ~ PeekMiss(e) /\ ~ RecheckMiss(e) /\ ~ Drained(e, "drain", "recheck")
          BY DEF PeekMiss, RecheckMiss, Drained
        <5>2. ~ OpenFails(e) /\ ~ OpenPool(e) /\ ~ StatsReturn(e)
          BY DEF OpenFails, OpenPool, StatsReturn
        <5>3. ~ CloseStart(e) /\ ~ CloseReturn(e)
          BY DEF CloseStart, CloseReturn, Drained
        <5>4. ~ \E n \in Names : CloseOne(e, n)
          BY DEF CloseOne
        <5>5. QED
          BY <3>4, <5>1, <5>2, <5>3, <5>4 DEF Proceed
      <4>2. e = c
        BY <4>1 DEF PeekHit, RecheckHit, Register
      <4>3. QED
        BY <4>1, <4>2
    <3>5. QED
      BY <3>1, <3>2, <3>3, <3>4
  <2>2. CASE PeekHit(c)
    BY <2>2 DEF PeekHit, Registered, MapInv, OpenInv, Handles, NoPool
  <2>3. CASE RecheckHit(c)
    BY <2>3 DEF RecheckHit, Registered, MapInv, OpenInv, Handles, NoPool
  <2>4. CASE Register(c)
    BY <2>4, ConnPoolsAssumption DEF Register, SectionInv, OpenInv, Handles
  <2>5. QED
    BY <2>1, <2>2, <2>3, <2>4
<1>2. QED
  BY <1>1, TypeCorrect, LockProtocol, SectionsKnowTheMap, MapNamesPools,
     RegisteredIsOpen, PTL DEF Spec, HandsOutOpenPool
-----------------------------------------------------------------------------
(* Initially nothing is registered, opened or handed out. *)
LEMMA InitRefines == Init => Registry!RInit
BY DEF Init, Opened, Answer, Registry!RInit, NoPool, Registry!NoPool, Registry!NoAnswer

(* A goroutine that was handed a registered pool has done an abstract get. *)
LEMMA HitRefines ==
  ASSUME TypeOK, LockInv, NEW c \in Callers, PeekHit(c) \/ RecheckHit(c)
  PROVE  Registry!GetExisting(c, target[c])
<1> USE DEF TypeOK, PeekHit, RecheckHit, Goto
<1>1. dbPools[target[c]] # NoPool /\ UNCHANGED <<dbPools, pools>>
  BY DEF Registered
<1>2. /\ Answer[c] = <<>>
      /\ Answer' = [Answer EXCEPT ![c] = <<target[c], dbPools[target[c]]>>]
  BY DEF Answer
<1>3. Opened' = Opened
  BY DEF Opened
<1>4. QED
  BY <1>1, <1>2, <1>3 DEF NoPool, Registry!GetExisting, Registry!NoPool, Registry!NoAnswer

(* Registering the pool opened under the write lock is the abstract creation. *)
LEMMA RegisterRefines ==
  ASSUME TypeOK, LockInv, SectionInv, NEW c \in Callers, Register(c)
  PROVE  Registry!GetFresh(c, target[c])
<1>1. /\ dbPools[target[c]] = NoPool
      /\ target[c] \in Configured
      /\ db[c] \in Handles \ Opened
  BY ConnPoolsAssumption DEF Register, Goto, SectionInv, Handles, TypeOK, Opened
<1>2. \A e \in Callers : e # c => pc[e] # "register"
  BY DEF Register, Goto, LockInv, LockOwner, WriteSection
<1>3. Opened' = Opened \cup {db[c]}
  BY <1>2 DEF Register, Goto, TypeOK, SectionInv, Opened
<1>4. /\ Answer[c] = <<>>
      /\ Answer' = [Answer EXCEPT ![c] = <<target[c], db[c]>>]
  BY DEF Register, Goto, TypeOK, Answer
<1>5. QED
  BY <1>1, <1>3, <1>4 DEF Register, Registry!GetFresh, Registry!NoPool, NoPool,
     Registry!NoAnswer

(* Opening a pool is invisible until it is registered. *)
LEMMA OpenRefines ==
  ASSUME TypeOK, LockInv, SectionInv, NEW c \in Callers, OpenPool(c)
  PROVE  UNCHANGED <<dbPools, Opened, Answer>>
<1>1. \A e \in Callers : pc[e] # "register"
  BY DEF OpenPool, Goto, LockInv, LockOwner, WriteSection
<1>2. \A e \in Callers : pc'[e] = "register" <=> e = c
  BY <1>1 DEF OpenPool, Goto, TypeOK
<1>3. db'[c] = Len(pools) + 1 /\ Len(pools') = Len(pools) + 1 /\ Len(pools) \in Nat
  BY DEF OpenPool, TypeOK
<1>4. Opened' = Opened
  BY <1>1, <1>2, <1>3 DEF Opened
<1>5. Answer' = Answer
  BY DEF OpenPool, Goto, TypeOK, Answer
<1>6. QED
  BY <1>4, <1>5 DEF OpenPool

(* Every step of the implementation is a step of the abstract registry, or *)
(* changes nothing the registry's callers can see.                         *)
LEMMA StepRefines ==
  ASSUME TypeOK, LockInv, SectionInv, [Next]_vars
  PROVE  [Registry!RNext]_<<dbPools, Opened, Answer>>
<1>1. CASE UNCHANGED vars
  BY <1>1 DEF vars, Opened, Answer
<1>2. ASSUME NEW c \in Callers, TakeRLock(c) \/ TakeLock(c)
      PROVE  UNCHANGED <<dbPools, Opened, Answer>>
  BY <1>2 DEF TakeRLock, TakeLock, RLock, Announce, Goto, TypeOK, Opened, Answer
<1>3. ASSUME NEW c \in Callers, Invoke(c)
      PROVE  Registry!Release(c) \/ UNCHANGED <<dbPools, Opened, Answer>>
  <2>1. CASE Finish(c)
    <3>1. Opened' = Opened
      BY <2>1 DEF Finish, Goto, TypeOK, Opened
    <3>2. Answer' = [Answer EXCEPT ![c] = <<>>]
      BY <2>1 DEF Finish, Goto, TypeOK, Answer
    <3>3. QED
      BY <2>1, <3>1, <3>2 DEF Finish, Registry!Release, Registry!NoAnswer
  <2>2. CASE (\E n \in Names : CallGet(c, n)) \/ CallStats(c) \/ CallClose(c)
    BY <2>2 DEF CallGet, CallStats, CallClose, Goto, TypeOK, Opened, Answer
  <2>3. QED
    BY <1>3, <2>1, <2>2 DEF Invoke
<1>4. ASSUME NEW c \in Callers, Proceed(c)
      PROVE  [Registry!RNext]_<<dbPools, Opened, Answer>>
  <2>1. CASE PeekHit(c) \/ RecheckHit(c)
    BY <2>1, HitRefines DEF Registry!RNext, TypeOK
  <2>2. CASE Register(c)
    BY <2>2, RegisterRefines DEF Registry!RNext, TypeOK
  <2>3. CASE OpenPool(c)
    BY <2>3, OpenRefines
  <2>4. ASSUME NEW n \in Names, CloseOne(c, n)
        PROVE  Registry!Unregister(n) \/ UNCHANGED <<dbPools, Opened, Answer>>
    BY <2>4 DEF CloseOne, Opened, Answer, Registry!Unregister, Registry!NoPool, NoPool
  <2>5. CASE PeekMiss(c) \/ RecheckMiss(c) \/ StatsReturn(c) \/ OpenFails(c)
    BY <2>5 DEF PeekMiss, RecheckMiss, StatsReturn, OpenFails, Goto, TypeOK, Opened, Answer
  <2>6. CASE Drained(c, "drain", "recheck") \/ CloseStart(c) \/ CloseReturn(c)
    BY <2>6 DEF Drained, CloseStart, CloseReturn, Goto, TypeOK, Opened, Answer
  <2>7. QED
    BY <1>4, <2>1, <2>2, <2>3, <2>4, <2>5, <2>6 DEF Proceed, Registry!RNext
<1>5. QED
  BY <1>1, <1>2, <1>3, <1>4 DEF Next, Registry!RNext

(* getDBConnection, GetPoolStats and CloseAllConnections, interleaved in any *)
(* way, behave like atomic operations on a registry of pools.                *)
THEOREM RegistryRefined == Spec => AtomicGetOrCreate
<1>1. TypeOK /\ LockInv /\ SectionInv /\ [Next]_vars
        => [Registry!RNext]_(Registry!rvars)
  BY StepRefines DEF Registry!rvars
<1>2. QED
  BY <1>1, InitRefines, TypeCorrect, LockProtocol, SectionsKnowTheMap, PTL
     DEF Spec, AtomicGetOrCreate, Registry!RSpec
=============================================================================
