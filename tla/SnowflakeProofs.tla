--------------------------- MODULE SnowflakeProofs ---------------------------
(***************************************************************************)
(* Proofs about Snowflake, for any callers, generators, field sizes and    *)
(* clock bound: one generator's ids grow, and different worker ids never   *)
(* meet.                                                                   *)
(***************************************************************************)
EXTENDS Snowflake, TLAPS

(* Arithmetic of the bit fields: a larger high field outweighs any low field. *)
LEMMA HighFieldDecides ==
  ASSUME NEW S \in Nat \ {0}, NEW a \in Int, NEW b \in Int, a < b,
         NEW r \in 0 .. S - 1, NEW s \in 0 .. S - 1
  PROVE  a * S + r < b * S + s
<1>1. PICK d \in Nat : b = a + 1 + d
  <2>1. b - a - 1 \in Nat /\ b = a + 1 + (b - a - 1)
    OBVIOUS
  <2>2. QED
    BY <2>1
<1>2. b * S = a * S + S + d * S
  BY <1>1
<1>3. d * S >= 0
  BY <1>1
<1>4. a * S \in Int /\ b * S \in Int /\ d * S \in Int
  BY <1>1
<1>5. QED
  BY <1>2, <1>3, <1>4

(* Two composed values are equal only if both fields are. *)
LEMMA FieldsUnique ==
  ASSUME NEW S \in Nat \ {0}, NEW a \in Int, NEW b \in Int,
         NEW r \in 0 .. S - 1, NEW s \in 0 .. S - 1,
         a * S + r = b * S + s
  PROVE  a = b
<1>1. ~ (a < b)
  BY HighFieldDecides
<1>2. ~ (b < a)
  BY HighFieldDecides
<1>3. QED
  BY <1>1, <1>2

(* Before TimeLimit milliseconds have passed, the shift loses nothing. *)
LEMMA TimestampExact ==
  ASSUME NEW t \in Nat, t < TimeLimit
  PROVE  Timestamp(t) = t
<1>1. TimeLimit \in Nat \ {0}
  BY SnowflakeAssumption
<1>2. t + TimeLimit \in 0 .. 2 * TimeLimit - 1
  BY <1>1
<1>3. \A m \in Nat \ {0} : \A x \in 0 .. m - 1 : x % m = x
  OBVIOUS
<1>4. (t + TimeLimit) % (2 * TimeLimit) = t + TimeLimit
  BY <1>1, <1>2, <1>3
<1>5. QED
  BY <1>1, <1>4 DEF Timestamp

(* The worker field holds the masked worker id. *)
LEMMA WorkerFieldFits ==
  ASSUME NEW g \in Generators
  PROVE  WorkerId[g] % WorkerSize \in 0 .. WorkerSize - 1
BY SnowflakeAssumption

(* Sequence numbers count modulo SeqSize. *)
LEMMA NextSequence ==
  ASSUME NEW x \in 0 .. SeqSize - 1
  PROVE  /\ (x + 1) % SeqSize \in 0 .. SeqSize - 1
         /\ (x + 1) % SeqSize # 0 => (x + 1) % SeqSize = x + 1
<1>1. SeqSize \in Nat \ {0} /\ x + 1 \in 0 .. SeqSize
  BY SnowflakeAssumption
<1>2. CASE x + 1 = SeqSize
  BY <1>1, <1>2
<1>3. CASE x + 1 < SeqSize
  BY <1>1, <1>3
<1>4. QED
  BY <1>1, <1>2, <1>3
-----------------------------------------------------------------------------
(* The mutex: who is inside a generator is its owner. *)
OwnerInv ==
  \A c \in Callers : pc[c] \in {"read", "spin", "emit"} => mu[gen[c]] = c

(* What the local time of a goroutine has to do with its generator. *)
LocalInv ==
  \A c \in Callers :
    /\ pc[c] = "spin" => sequence[gen[c]] = 0
    /\ pc[c] = "emit" => curTime[c] >= lastTime[gen[c]]

(* Key k lies before every key of time t and sequence number s or later. *)
Before(k, t, s) == k.time < t \/ (k.time = t /\ k.seq < s)

(* Key k lies before the ids its generator can still issue. *)
Settled(k) ==
  /\ k.time <= lastTime[k.gen]
  /\ \A c \in Callers : pc[c] = "emit" /\ gen[c] = k.gen
                          => Before(k, curTime[c], sequence[k.gen])
  /\ (\A c \in Callers : pc[c] \in {"spin", "emit"} => gen[c] # k.gen)
       => Before(k, lastTime[k.gen], sequence[k.gen] + 1)

IssuedInv == \A i \in 1 .. Len(issued) : Settled(issued[i])

(* The ids of one generator are ordered by time and sequence number. *)
OrderInv ==
  \A i, j \in 1 .. Len(issued) :
    i < j /\ issued[i].gen = issued[j].gen
      => Before(issued[i], issued[j].time, issued[j].seq)

(* Every variable keeps its type: no field outgrows its bits. *)
THEOREM TypeCorrect == Spec => []TypeOK
<1>1. Init => TypeOK
  BY SnowflakeAssumption DEF Init, TypeOK, Times, Keys, NeverUsed, Generators
<1>2. TypeOK /\ [Next]_vars => TypeOK'
  <2> SUFFICES ASSUME TypeOK, [Next]_vars
               PROVE  TypeOK'
    OBVIOUS
  <2> USE SnowflakeAssumption DEF TypeOK, Times, Keys, NeverUsed
  <2>1. CASE UNCHANGED vars
    BY <2>1 DEF vars
  <2>2. ASSUME NEW c \in Callers, CallShared(c) PROVE TypeOK'
    BY <2>2 DEF CallShared, Generate, Goto, Generators
  <2>3. ASSUME NEW c \in Callers, GenerateKey(c) PROVE TypeOK'
    BY <2>3 DEF GenerateKey, Generate, Goto, Generators
  <2>4. ASSUME NEW c \in Callers, Lock(c) PROVE TypeOK'
    BY <2>4 DEF Lock, Goto
  <2>5. ASSUME NEW c \in Callers, NewMillisecond(c) PROVE TypeOK'
    BY <2>5 DEF NewMillisecond, Clamped, Goto
  <2>6. ASSUME NEW c \in Callers, SameMillisecond(c) PROVE TypeOK'
    <3>1. gen[c] \in Generators /\ sequence[gen[c]] \in 0 .. SeqSize - 1
      OBVIOUS
    <3>2. (sequence[gen[c]] + 1) % SeqSize \in 0 .. SeqSize - 1
      BY <3>1, NextSequence
    <3>3. lastTime[gen[c]] \in Times
      BY <2>6, <3>1 DEF SameMillisecond, Clamped
    <3>4. QED
      BY <2>6, <3>1, <3>2, <3>3 DEF SameMillisecond, AfterIncrement, Goto
  <2>7. ASSUME NEW c \in Callers, SpinEnds(c) PROVE TypeOK'
    BY <2>7 DEF SpinEnds, Goto
  <2>8. ASSUME NEW c \in Callers, Emit(c) PROVE TypeOK'
    BY <2>8 DEF Emit, Goto
  <2>9. ASSUME Tick PROVE TypeOK'
    BY <2>9 DEF Tick
  <2>10. ASSUME SetBack PROVE TypeOK'
    BY <2>10 DEF SetBack
  <2>11. QED
    BY <2>1, <2>2, <2>3, <2>4, <2>5, <2>6, <2>7, <2>8, <2>9, <2>10 DEF Next, Proceed
<1>3. QED
  BY <1>1, <1>2, PTL DEF Spec

(* A generator is computing for one goroutine at a time. *)
THEOREM MutexProtocol == Spec => []OwnerInv
<1>1. Init => OwnerInv
  BY SnowflakeAssumption DEF Init, OwnerInv
<1>2. TypeOK /\ OwnerInv /\ (TypeOK)' /\ [Next]_vars => OwnerInv'
  <2> SUFFICES ASSUME TypeOK, OwnerInv, TypeOK', [Next]_vars
               PROVE  OwnerInv'
    OBVIOUS
  <2> USE SnowflakeAssumption DEF TypeOK, OwnerInv
  <2>1. CASE UNCHANGED vars
    BY <2>1 DEF vars
  <2>2. ASSUME NEW c \in Callers, CallShared(c) PROVE OwnerInv'
    BY <2>2 DEF CallShared, Generate, Goto
  <2>3. ASSUME NEW c \in Callers, GenerateKey(c) PROVE OwnerInv'
    BY <2>3 DEF GenerateKey, Generate, Goto
  <2>4. ASSUME NEW c \in Callers, Lock(c) PROVE OwnerInv'
    BY <2>4 DEF Lock, Goto
  <2>5. ASSUME NEW c \in Callers, NewMillisecond(c) PROVE OwnerInv'
    BY <2>5 DEF NewMillisecond, Goto
  <2>6. ASSUME NEW c \in Callers, SameMillisecond(c) PROVE OwnerInv'
    BY <2>6 DEF SameMillisecond, AfterIncrement, Goto
  <2>7. ASSUME NEW c \in Callers, SpinEnds(c) PROVE OwnerInv'
    BY <2>7 DEF SpinEnds, Goto
  <2>8. ASSUME NEW c \in Callers, Emit(c) PROVE OwnerInv'
    BY <2>8 DEF Emit, Goto
  <2>9. ASSUME Tick PROVE OwnerInv'
    BY <2>9 DEF Tick
  <2>10. ASSUME SetBack PROVE OwnerInv'
    BY <2>10 DEF SetBack
  <2>11. QED
    BY <2>1, <2>2, <2>3, <2>4, <2>5, <2>6, <2>7, <2>8, <2>9, <2>10 DEF Next, Proceed
<1>3. QED
  BY <1>1, <1>2, TypeCorrect, PTL DEF Spec

(* The time a goroutine is about to write is not behind its generator. *)
THEOREM LocalsFit == Spec => []LocalInv
<1>1. Init => LocalInv
  BY SnowflakeAssumption DEF Init, LocalInv
<1>2. TypeOK /\ OwnerInv /\ LocalInv /\ (TypeOK /\ OwnerInv)' /\ [Next]_vars => LocalInv'
  <2> SUFFICES ASSUME TypeOK, OwnerInv, LocalInv, TypeOK', OwnerInv', [Next]_vars
               PROVE  LocalInv'
    OBVIOUS
  <2> USE SnowflakeAssumption DEF TypeOK, OwnerInv, LocalInv, Times, NeverUsed
  <2>1. CASE UNCHANGED vars
    BY <2>1 DEF vars
  <2>2. ASSUME NEW c \in Callers, CallShared(c) PROVE LocalInv'
    BY <2>2 DEF CallShared, Generate, Goto
  <2>3. ASSUME NEW c \in Callers, GenerateKey(c) PROVE LocalInv'
    BY <2>3 DEF GenerateKey, Generate, Goto
  <2>4. ASSUME NEW c \in Callers, Lock(c) PROVE LocalInv'
    BY <2>4 DEF Lock, Goto
  <2>5. ASSUME NEW c \in Callers, NewMillisecond(c) PROVE LocalInv'
    BY <2>5 DEF NewMillisecond, Clamped, Goto
  <2>6. ASSUME NEW c \in Callers, SameMillisecond(c) PROVE LocalInv'
    <3>1. curTime'[c] = lastTime[gen[c]] /\ lastTime' = lastTime /\ gen' = gen
      BY <2>6 DEF SameMillisecond, Goto
    <3>2. pc'[c] = "spin" => sequence'[gen[c]] = 0
      BY <2>6 DEF SameMillisecond, AfterIncrement, Goto
    <3>3. ASSUME NEW e \in Callers, e # c
          PROVE  /\ pc'[e] = pc[e] /\ curTime'[e] = curTime[e]
                 /\ pc[e] = "spin" => sequence'[gen[e]] = sequence[gen[e]]
      BY <2>6, <3>3 DEF SameMillisecond, Goto
    <3>4. lastTime[gen[c]] \in Int
      OBVIOUS
    <3>5. \A e \in Callers : e # c /\ pc[e] = "emit" => gen[e] # gen[c]
      BY <2>6 DEF SameMillisecond, Goto
    <3>6. ASSUME NEW e \in Callers, pc'[e] = "spin" PROVE sequence'[gen'[e]] = 0
      BY <3>1, <3>2, <3>3, <3>6
    <3>7. ASSUME NEW e \in Callers, pc'[e] = "emit" PROVE curTime'[e] >= lastTime'[gen'[e]]
      <4>1. CASE e = c
        BY <3>1, <3>4, <4>1
      <4>2. CASE e # c
        <5>1. pc[e] = "emit"
          BY <3>3, <3>7, <4>2
        <5>2. curTime[e] >= lastTime[gen[e]]
          BY <5>1
        <5>3. QED
          BY <3>1, <3>3, <4>2, <5>2
      <4>3. QED
        BY <4>1, <4>2
    <3>8. QED
      BY <3>6, <3>7
  <2>7. ASSUME NEW c \in Callers, SpinEnds(c) PROVE LocalInv'
    <3>1. curTime'[c] >= lastTime'[gen'[c]] /\ pc'[c] = "emit"
      <4>1. lastTime[gen[c]] \in Int /\ clock \in Int
        OBVIOUS
      <4>2. QED
        BY <2>7, <4>1 DEF SpinEnds, Goto
    <3>2. ASSUME NEW e \in Callers, e # c
          PROVE  /\ pc'[e] = "spin" => sequence'[gen'[e]] = 0
                 /\ pc'[e] = "emit" => curTime'[e] >= lastTime'[gen'[e]]
      BY <2>7, <3>2 DEF SpinEnds, Goto
    <3>3. QED
      BY <3>1, <3>2
  <2>8. ASSUME NEW c \in Callers, Emit(c) PROVE LocalInv'
    BY <2>8 DEF Emit, Goto
  <2>9. ASSUME Tick PROVE LocalInv'
    BY <2>9 DEF Tick
  <2>10. ASSUME SetBack PROVE LocalInv'
    BY <2>10 DEF SetBack
  <2>11. QED
    BY <2>1, <2>2, <2>3, <2>4, <2>5, <2>6, <2>7, <2>8, <2>9, <2>10 DEF Next, Proceed
<1>3. QED
  BY <1>1, <1>2, TypeCorrect, MutexProtocol, PTL DEF Spec

(* A settled key stays settled: no step can bring its generator back to it. *)
LEMMA SettledForGood ==
  ASSUME TypeOK, OwnerInv, LocalInv, NEW k \in Keys, Settled(k), [Next]_vars
  PROVE  Settled(k)'
<1> USE SnowflakeAssumption DEF TypeOK, OwnerInv, LocalInv, Settled, Before, Keys, Times, NeverUsed
<1>1. CASE UNCHANGED vars
  BY <1>1 DEF vars
<1>2. ASSUME NEW c \in Callers, CallShared(c) \/ GenerateKey(c) PROVE Settled(k)'
  <2>1. PICK g \in Generators : Generate(c, g)
    BY <1>2 DEF CallShared, GenerateKey, Generators
  <2>2. UNCHANGED <<lastTime, sequence, curTime>> /\ pc[c] = "idle" /\ pc'[c] = "lock"
    BY <2>1 DEF Generate, Goto
  <2>3. \A e \in Callers : e # c => pc'[e] = pc[e] /\ gen'[e] = gen[e]
    BY <2>1 DEF Generate, Goto
  <2>4. ASSUME NEW e \in Callers, pc'[e] = "emit", gen'[e] = k.gen
        PROVE  Before(k, curTime'[e], sequence'[k.gen])
    <3>1. pc[e] = "emit" /\ gen[e] = k.gen
      BY <2>2, <2>3, <2>4
    <3>2. QED
      BY <2>2, <3>1
  <2>5. ASSUME \A e \in Callers : pc'[e] \in {"spin", "emit"} => gen'[e] # k.gen
        PROVE  \A e \in Callers : pc[e] \in {"spin", "emit"} => gen[e] # k.gen
    BY <2>2, <2>3, <2>5
  <2>6. QED
    BY <2>2, <2>4, <2>5
<1>3. ASSUME NEW c \in Callers, Lock(c) PROVE Settled(k)'
  BY <1>3 DEF Lock, Goto
<1>4. ASSUME NEW c \in Callers, NewMillisecond(c) PROVE Settled(k)'
  <2>1. CASE gen[c] = k.gen
    <3>1. clock' = clock /\ lastTime' = lastTime /\ gen' = gen /\ k.time < curTime'[c]
      BY <1>4, <2>1 DEF NewMillisecond, Clamped, Goto
    <3>2. pc'[c] = "emit"
      BY <1>4, <2>1 DEF NewMillisecond, Goto
    <3>3. \A e \in Callers : pc'[e] = "emit" /\ gen[e] = k.gen => e = c
      BY <1>4, <2>1 DEF NewMillisecond, Goto
    <3>4. QED
      BY <2>1, <3>1, <3>2, <3>3
  <2>2. CASE gen[c] # k.gen
    BY <1>4, <2>2 DEF NewMillisecond, Goto
  <2>3. QED
    BY <2>1, <2>2
<1>5. ASSUME NEW c \in Callers, SameMillisecond(c) PROVE Settled(k)'
  <2>1. /\ UNCHANGED <<lastTime, gen>> /\ pc'[c] \in {"spin", "emit"}
        /\ curTime'[c] = lastTime[gen[c]]
        /\ sequence' = [sequence EXCEPT ![gen[c]] = (sequence[gen[c]] + 1) % SeqSize]
        /\ pc'[c] = "emit" => sequence'[gen[c]] # 0
    BY <1>5 DEF SameMillisecond, AfterIncrement, Goto
  <2>2. \A e \in Callers : e # c => pc'[e] = pc[e] /\ curTime'[e] = curTime[e]
    BY <1>5 DEF SameMillisecond, Goto
  <2>3. CASE gen[c] = k.gen
    <3>1. \A e \in Callers : e # c /\ gen[e] = k.gen => pc[e] \notin {"spin", "emit"}
      BY <1>5, <2>3 DEF SameMillisecond, Goto
    <3>2. Before(k, lastTime[k.gen], sequence[k.gen] + 1)
      BY <1>5, <2>3 DEF SameMillisecond, Goto
    <3>3. sequence[k.gen] \in 0 .. SeqSize - 1
      OBVIOUS
    <3>4. sequence'[k.gen] # 0 => sequence'[k.gen] = sequence[k.gen] + 1
      BY <2>1, <2>3, <3>3, NextSequence
    <3>5. QED
      BY <2>1, <2>2, <2>3, <3>1, <3>2, <3>3, <3>4
  <2>4. CASE gen[c] # k.gen
    BY <2>1, <2>2, <2>4
  <2>5. QED
    BY <2>3, <2>4
<1>6. ASSUME NEW c \in Callers, SpinEnds(c) PROVE Settled(k)'
  <2>1. CASE gen[c] = k.gen
    <3>1. curTime'[c] = clock /\ clock > lastTime[k.gen]
      BY <1>6, <2>1 DEF SpinEnds, Goto
    <3>2. k.time < curTime'[c]
      <4>1. k.time \in Int /\ lastTime[k.gen] \in Int /\ clock \in Int
        OBVIOUS
      <4>2. QED
        BY <3>1, <4>1
    <3>3. lastTime' = lastTime /\ gen' = gen /\ pc'[c] = "emit"
      BY <1>6, <2>1 DEF SpinEnds, Goto
    <3>4. \A e \in Callers : pc'[e] = "emit" /\ gen[e] = k.gen => e = c
      BY <1>6, <2>1 DEF SpinEnds, Goto
    <3>5. QED
      BY <2>1, <3>2, <3>3, <3>4
  <2>2. CASE gen[c] # k.gen
    BY <1>6, <2>2 DEF SpinEnds, Goto
  <2>3. QED
    BY <2>1, <2>2
<1>7. ASSUME NEW c \in Callers, Emit(c) PROVE Settled(k)'
  BY <1>7 DEF Emit, Goto
<1>8. ASSUME Tick PROVE Settled(k)'
  BY <1>8 DEF Tick
<1>9. ASSUME SetBack PROVE Settled(k)'
  BY <1>9 DEF SetBack
<1>10. QED
  BY <1>1, <1>2, <1>3, <1>4, <1>5, <1>6, <1>7, <1>8, <1>9 DEF Next, Proceed

(* A step leaves the list of ids alone, or an Emit appends one. *)
LEMMA IssuedGrows ==
  ASSUME TypeOK, [Next]_vars
  PROVE  \/ issued' = issued
         \/ \E c \in Callers :
              /\ Emit(c)
              /\ issued' = Append(issued, [gen |-> gen[c], time |-> curTime[c],
                                           seq |-> sequence[gen[c]]])
BY DEF Next, vars, Proceed, CallShared, GenerateKey, Generate, Lock, NewMillisecond,
       SameMillisecond, SpinEnds, Emit, Tick, SetBack

(* The id just issued is settled. *)
LEMMA EmitSettles ==
  ASSUME TypeOK, OwnerInv, NEW c \in Callers, Emit(c), NEW k \in Keys,
         k = [gen |-> gen[c], time |-> curTime[c], seq |-> sequence[gen[c]]]
  PROVE  Settled(k)'
<1>1. /\ k.gen = gen[c] /\ k.time = curTime[c] /\ k.seq = sequence[k.gen]
      /\ k.time \in Int /\ k.seq \in Int /\ k.gen \in Generators
  BY SnowflakeAssumption DEF Keys, Times, TypeOK
<1>2. lastTime'[k.gen] = k.time /\ sequence' = sequence /\ gen' = gen
  BY <1>1 DEF Emit, TypeOK
<1>3. \A e \in Callers : pc'[e] \in {"spin", "emit"} => gen[e] # k.gen
  BY <1>1 DEF Emit, Goto, TypeOK, OwnerInv
<1>4. QED
  BY <1>1, <1>2, <1>3 DEF Settled, Before

(* No id is issued twice or out of order, whatever the clock does. *)
THEOREM IssuedAreSettled == Spec => []IssuedInv
<1>1. Init => IssuedInv
  BY DEF Init, IssuedInv
<1>2. TypeOK /\ OwnerInv /\ LocalInv /\ IssuedInv /\ TypeOK' /\ [Next]_vars => IssuedInv'
  <2> SUFFICES ASSUME TypeOK, OwnerInv, LocalInv, IssuedInv, TypeOK', [Next]_vars,
                      NEW i \in 1 .. Len(issued')
               PROVE  Settled(issued[i])'
    BY DEF IssuedInv
  <2>1. PICK k \in Keys : k = issued'[i]
    BY DEF TypeOK
  <2>2. CASE i \in 1 .. Len(issued) /\ k = issued[i]
    <3>1. Settled(k)
      BY <2>2 DEF IssuedInv
    <3>2. Settled(k)'
      BY <3>1, SettledForGood
    <3>3. QED
      BY <2>1, <3>2 DEF Settled
  <2>3. CASE \E c \in Callers : /\ Emit(c)
                                /\ k = [gen |-> gen[c], time |-> curTime[c],
                                        seq |-> sequence[gen[c]]]
    <3>1. Settled(k)'
      BY <2>3, EmitSettles
    <3>2. QED
      BY <2>1, <3>1 DEF Settled
  <2>4. CASE issued' = issued
    BY <2>1, <2>2, <2>4
  <2>5. ASSUME NEW c \in Callers, Emit(c), NEW e,
               e = [gen |-> gen[c], time |-> curTime[c], seq |-> sequence[gen[c]]],
               issued' = Append(issued, e)
        PROVE  Settled(issued[i])'
    <3>1. k = e \/ (i \in 1 .. Len(issued) /\ k = issued[i])
      BY <2>1, <2>5 DEF TypeOK
    <3>2. QED
      BY <2>2, <2>3, <2>5, <3>1
  <2>6. QED
    BY <2>4, <2>5, IssuedGrows
<1>3. QED
  BY <1>1, <1>2, TypeCorrect, MutexProtocol, LocalsFit, PTL DEF Spec

(* The ids of a generator are issued in the order of time and sequence number. *)
THEOREM IdsOrdered == Spec => []OrderInv
<1>1. Init => OrderInv
  BY DEF Init, OrderInv
<1>2. TypeOK /\ IssuedInv /\ OrderInv /\ TypeOK' /\ [Next]_vars => OrderInv'
  <2> SUFFICES ASSUME TypeOK, IssuedInv, OrderInv, TypeOK', [Next]_vars
               PROVE  OrderInv'
    OBVIOUS
  <2>1. CASE issued' = issued
    BY <2>1 DEF OrderInv, Before
  <2>2. ASSUME NEW c \in Callers, Emit(c), NEW k,
               k = [gen |-> gen[c], time |-> curTime[c], seq |-> sequence[gen[c]]],
               issued' = Append(issued, k)
        PROVE  OrderInv'
    <3>1. \A i \in 1 .. Len(issued) :
            issued[i].gen = k.gen => Before(issued[i], k.time, k.seq)
      BY <2>2 DEF IssuedInv, Settled, Emit, Goto
    <3>2. /\ Len(issued') = Len(issued) + 1 /\ Len(issued) \in Nat
          /\ issued'[Len(issued) + 1] = k
          /\ \A i \in 1 .. Len(issued) : issued'[i] = issued[i]
      BY <2>2 DEF TypeOK
    <3>3. QED
      BY <3>1, <3>2 DEF OrderInv, Before
  <2>3. QED
    BY <2>1, <2>2, IssuedGrows
<1>3. QED
  BY <1>1, <1>2, TypeCorrect, IssuedAreSettled, PTL DEF Spec
-----------------------------------------------------------------------------
(* The order of time and sequence number is the order of the ids. *)
LEMMA IdKeepsOrder ==
  ASSUME MaxClock < TimeLimit, NEW k \in Keys, NEW l \in Keys, k.gen = l.gen,
         Before(k, l.time, l.seq)
  PROVE  Id(k) < Id(l)
<1> DEFINE w == WorkerId[k.gen] % WorkerSize
<1>1. /\ k.gen \in Generators /\ k.time \in Times /\ k.seq \in 0 .. SeqSize - 1
      /\ l.gen \in Generators /\ l.time \in Times /\ l.seq \in 0 .. SeqSize - 1
  BY DEF Keys
<1>2. Timestamp(k.time) = k.time /\ Timestamp(l.time) = l.time
  BY <1>1, TimestampExact, SnowflakeAssumption DEF Times
<1>3. w \in 0 .. WorkerSize - 1
  BY <1>1, WorkerFieldFits
<1>4. /\ Id(k) = (k.time * WorkerSize + w) * SeqSize + k.seq
      /\ Id(l) = (l.time * WorkerSize + w) * SeqSize + l.seq
  BY <1>2 DEF Id
<1> HIDE DEF w
<1>5. CASE k.time < l.time
  <2>1. k.time \in Int /\ l.time \in Int /\ WorkerSize \in Nat \ {0} /\ SeqSize \in Nat \ {0}
    BY <1>1, SnowflakeAssumption DEF Times
  <2>2. k.time * WorkerSize + w < l.time * WorkerSize + w
    BY <1>3, <1>5, <2>1, HighFieldDecides
  <2>3. k.time * WorkerSize + w \in Int /\ l.time * WorkerSize + w \in Int
    BY <1>3, <2>1
  <2>4. QED
    BY <1>1, <1>4, <2>1, <2>2, <2>3, HighFieldDecides
<1>6. CASE k.time = l.time /\ k.seq < l.seq
  <2>1. (k.time * WorkerSize + w) * SeqSize \in Int /\ k.seq \in Int /\ l.seq \in Int
    BY <1>1, <1>3, SnowflakeAssumption DEF Times
  <2>2. QED
    BY <1>4, <1>6, <2>1
<1>7. QED
  BY <1>5, <1>6 DEF Before

(* While the milliseconds since 2021 fit 41 bits, a generator's ids grow, for *)
(* any number of callers, any pauses and any setting back of the clock.       *)
THEOREM IdsIncrease == ASSUME MaxClock < TimeLimit PROVE Spec => []Increasing
<1>1. TypeOK /\ OrderInv => Increasing
  BY IdKeepsOrder DEF TypeOK, OrderInv, Increasing
<1>2. QED
  BY <1>1, TypeCorrect, IdsOrdered, PTL

(* Ids with equal values have equal worker fields. *)
LEMMA WorkerFieldReadable ==
  ASSUME MaxClock < TimeLimit, NEW k \in Keys, NEW l \in Keys, Id(k) = Id(l)
  PROVE  WorkerId[k.gen] % WorkerSize = WorkerId[l.gen] % WorkerSize
<1> DEFINE v == WorkerId[k.gen] % WorkerSize
           w == WorkerId[l.gen] % WorkerSize
<1>1. /\ k.gen \in Generators /\ k.time \in Times /\ k.seq \in 0 .. SeqSize - 1
      /\ l.gen \in Generators /\ l.time \in Times /\ l.seq \in 0 .. SeqSize - 1
  BY DEF Keys
<1>2. Timestamp(k.time) = k.time /\ Timestamp(l.time) = l.time
  BY <1>1, TimestampExact, SnowflakeAssumption DEF Times
<1>3. v \in 0 .. WorkerSize - 1 /\ w \in 0 .. WorkerSize - 1
  BY <1>1, WorkerFieldFits
<1>4. (k.time * WorkerSize + v) * SeqSize + k.seq = (l.time * WorkerSize + w) * SeqSize + l.seq
  BY <1>2 DEF Id
<1> HIDE DEF v, w
<1>5. k.time \in Int /\ l.time \in Int /\ WorkerSize \in Nat \ {0} /\ SeqSize \in Nat \ {0}
  BY <1>1, SnowflakeAssumption DEF Times
<1> DEFINE p == k.time * WorkerSize + v
           q == l.time * WorkerSize + w
<1>6. p \in Int /\ q \in Int
  BY <1>3, <1>5
<1>7. p = q
  <2>1. p * SeqSize + k.seq = q * SeqSize + l.seq
    BY <1>4
  <2> HIDE DEF p, q
  <2>2. QED
    BY <1>1, <1>5, <1>6, <2>1, FieldsUnique
<1>8. k.time = l.time
  BY <1>3, <1>5, <1>7, FieldsUnique
<1>9. v = w
  BY <1>3, <1>5, <1>7, <1>8
<1>10. QED
  BY <1>9 DEF v, w

(* Generators whose worker ids differ in the bits an id holds never collide. *)
THEOREM WorkersNeverCollide == ASSUME MaxClock < TimeLimit PROVE Spec => []WorkersDisjoint
<1>1. TypeOK => WorkersDisjoint
  <2> SUFFICES ASSUME TypeOK, NEW i \in 1 .. Len(issued), NEW j \in 1 .. Len(issued),
                      Id(issued[i]) = Id(issued[j])
               PROVE  WorkerId[issued[i].gen] % WorkerSize
                        = WorkerId[issued[j].gen] % WorkerSize
    BY DEF WorkersDisjoint
  <2>1. issued[i] \in Keys /\ issued[j] \in Keys
    BY DEF TypeOK
  <2>2. QED
    BY <2>1, WorkerFieldReadable
<1>2. QED
  BY <1>1, TypeCorrect, PTL
=============================================================================
