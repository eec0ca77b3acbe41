------------------------------ MODULE Snowflake ------------------------------
(***************************************************************************)
(* Primary keys: SnowflakeKeyGenerator.Generate and GenerateKey            *)
(* (sqlrouter/sharding.go).  A generator is shared by goroutines and       *)
(* guarded by its mutex; the wall clock it reads moves on between any two  *)
(* steps and may be set back.  Times are milliseconds since the epoch of   *)
(* the generator (2021-01-01).                                             *)
(***************************************************************************)
EXTENDS Integers, Sequences

CONSTANTS
  Callers,     \* goroutines that ask for keys
  Shared,      \* generators made by NewSnowflakeKeyGenerator and shared
  PerCall,     \* generators that calls of GenerateKey make for themselves
  WorkerId,    \* generator -> its worker id
  NoCaller,    \* not a goroutine
  SeqSize,     \* sequence numbers in a millisecond, 2^12
  WorkerSize,  \* worker ids an id can hold, 2^10
  TimeLimit,   \* milliseconds an id can hold, 2^41: 63 bits without the 22 below
  MaxClock,    \* bound: last millisecond of a behaviour
  MaxSetbacks  \* bound: how often the clock is set back

Generators == Shared \cup PerCall

ASSUME SnowflakeAssumption ==
  /\ WorkerId \in [Generators -> Nat]
  /\ NoCaller \notin Callers
  /\ SeqSize \in Nat \ {0} /\ WorkerSize \in Nat \ {0}
  /\ TimeLimit \in Nat \ {0}
  /\ MaxClock \in Nat /\ MaxSetbacks \in Nat

NeverUsed == -1   \* lastTime of a new generator, 1970: before every reading

VARIABLES
  clock,      \* time.Now() in milliseconds
  setbacks,   \* how often it was set back
  lastTime,   \* generator -> the time of its latest id
  sequence,   \* generator -> the sequence number of its latest id
  mu,         \* generator -> the goroutine inside its mutex
  made,       \* the generators of PerCall that exist
  pc,         \* goroutine -> where it is in Generate
  gen,        \* goroutine -> the generator it calls
  curTime,    \* goroutine -> its local curTime
  issued      \* the ids returned so far: generator, time and sequence number

vars == <<clock, setbacks, lastTime, sequence, mu, made, pc, gen, curTime, issued>>

Times == 0 .. MaxClock

Init ==
  /\ clock = 0 /\ setbacks = 0
  /\ lastTime = [g \in Generators |-> NeverUsed]
  /\ sequence = [g \in Generators |-> 0]
  /\ mu = [g \in Generators |-> NoCaller]
  /\ made = {}
  /\ pc = [c \in Callers |-> "idle"]
  /\ gen \in [Callers -> Generators]
  /\ curTime = [c \in Callers |-> 0]
  /\ issued = <<>>
-----------------------------------------------------------------------------
(* The 64-bit shift of the time keeps 41 bits and a sign. *)
Timestamp(t) == ((t + TimeLimit) % (2 * TimeLimit)) - TimeLimit

(* Fault variant: the worker id is shifted too little and meets the sequence. *)
OverlappingId(k) ==
  Timestamp(k.time) * WorkerSize * SeqSize + (WorkerId[k.gen] % WorkerSize) + k.seq

(* The three bit fields of an id are disjoint, so | is +. *)
Id(k) ==
  (Timestamp(k.time) * WorkerSize + (WorkerId[k.gen] % WorkerSize)) * SeqSize + k.seq

Goto(c, from, to) ==
  /\ pc[c] = from
  /\ pc' = [pc EXCEPT ![c] = to]

(* The bound MaxClock ends a behaviour: no call starts when it is reached. *)
InTime == clock < MaxClock /\ \A g \in Generators : lastTime[g] < MaxClock

Generate(c, g) ==
  /\ InTime
  /\ Goto(c, "idle", "lock")
  /\ gen' = [gen EXCEPT ![c] = g]
  /\ UNCHANGED <<clock, setbacks, lastTime, sequence, mu, curTime, issued>>

(* A caller of the shared generator. *)
CallShared(c) == (\E g \in Shared : Generate(c, g)) /\ UNCHANGED made

(* GenerateKey makes a new generator on every call.  An unknown generator *)
(* name or type is refused before that and changes nothing.               *)
GenerateKey(c) ==
  \E g \in PerCall \ made :
    /\ Generate(c, g)
    /\ made' = made \cup {g}

Lock(c) ==
  /\ Goto(c, "lock", "read")
  /\ mu[gen[c]] = NoCaller
  /\ mu' = [mu EXCEPT ![gen[c]] = c]
  /\ UNCHANGED <<clock, setbacks, lastTime, sequence, made, gen, curTime, issued>>

(* Fault variant: a clock that was set back is not clamped. *)
NoClamp(g) == clock

(* The reading, clamped to lastTime when the clock was set back. *)
Clamped(g) == IF clock < lastTime[g] THEN lastTime[g] ELSE clock

(* Read the clock and take the next sequence number of that millisecond. *)
NewMillisecond(c) ==
  LET g == gen[c] IN
  /\ Goto(c, "read", "emit")
  /\ Clamped(g) # lastTime[g]
  /\ curTime' = [curTime EXCEPT ![c] = Clamped(g)]
  /\ sequence' = [sequence EXCEPT ![g] = 0]
  /\ UNCHANGED <<clock, setbacks, lastTime, mu, made, gen, issued>>

AfterIncrement(s) == IF s = 0 THEN "spin" ELSE "emit"

SameMillisecond(c) ==
  LET g == gen[c]
      s == (sequence[g] + 1) % SeqSize IN
  /\ Goto(c, "read", AfterIncrement(s))
  /\ Clamped(g) = lastTime[g]
  /\ curTime' = [curTime EXCEPT ![c] = lastTime[g]]
  /\ sequence' = [sequence EXCEPT ![g] = s]
  /\ UNCHANGED <<clock, setbacks, lastTime, mu, made, gen, issued>>

(* Fault variant: the loop does not read the clock again. *)
SpinOnOldReading(c) ==
  /\ Goto(c, "spin", "emit")
  /\ curTime[c] > lastTime[gen[c]]
  /\ UNCHANGED <<clock, setbacks, lastTime, sequence, mu, made, gen, curTime, issued>>

(* The busy wait, mutex held, until the clock has passed lastTime. *)
SpinEnds(c) ==
  /\ Goto(c, "spin", "emit")
  /\ clock > lastTime[gen[c]]
  /\ curTime' = [curTime EXCEPT ![c] = clock]
  /\ UNCHANGED <<clock, setbacks, lastTime, sequence, mu, made, gen, issued>>

Emit(c) ==
  LET g == gen[c] IN
  /\ Goto(c, "emit", "idle")
  /\ lastTime' = [lastTime EXCEPT ![g] = curTime[c]]
  /\ issued' = Append(issued, [gen |-> g, time |-> curTime[c], seq |-> sequence[g]])
  /\ mu' = [mu EXCEPT ![g] = NoCaller]
  /\ UNCHANGED <<clock, setbacks, sequence, made, gen, curTime>>
-----------------------------------------------------------------------------
(* The wall clock, outside the program. *)
Tick ==
  /\ clock < MaxClock
  /\ clock' = clock + 1
  /\ UNCHANGED <<setbacks, lastTime, sequence, mu, made, pc, gen, curTime, issued>>

SetBack ==
  /\ setbacks < MaxSetbacks
  /\ \E t \in Times : t < clock /\ clock' = t
  /\ setbacks' = setbacks + 1
  /\ UNCHANGED <<lastTime, sequence, mu, made, pc, gen, curTime, issued>>

Proceed(c) ==
  NewMillisecond(c) \/ SameMillisecond(c) \/ SpinEnds(c) \/ Emit(c)

Next ==
  \/ \E c \in Callers : CallShared(c) \/ GenerateKey(c) \/ Lock(c) \/ Proceed(c)
  \/ Tick \/ SetBack

Spec == Init /\ [][Next]_vars

(* Goroutines run, sync.Mutex starves nobody, and time goes on. *)
FairSpec ==
  /\ Spec
  /\ WF_vars(Tick)
  /\ \A c \in Callers : WF_vars(Proceed(c)) /\ SF_vars(Lock(c))
-----------------------------------------------------------------------------
Keys == [gen : Generators, time : Times, seq : 0 .. SeqSize - 1]

TypeOK ==
  /\ clock \in Times
  /\ setbacks \in 0 .. MaxSetbacks
  /\ lastTime \in [Generators -> Times \cup {NeverUsed}]
  /\ sequence \in [Generators -> 0 .. SeqSize - 1]
  /\ mu \in [Generators -> Callers \cup {NoCaller}]
  /\ made \subseteq PerCall
  /\ pc \in [Callers -> {"idle", "lock", "read", "spin", "emit"}]
  /\ gen \in [Callers -> Generators]
  /\ curTime \in [Callers -> Times]
  /\ issued \in Seq(Keys)

(* The ids of one generator grow in the order its mutex was taken, although *)
(* the clock is set back, stands still or is outrun by the callers.         *)
Increasing ==
  \A i, j \in 1 .. Len(issued) :
    i < j /\ issued[i].gen = issued[j].gen => Id(issued[i]) < Id(issued[j])

(* Generators whose worker ids differ in their low 10 bits never return the *)
(* same id.                                                                 *)
WorkersDisjoint ==
  \A i, j \in 1 .. Len(issued) :
    WorkerId[issued[i].gen] % WorkerSize # WorkerId[issued[j].gen] % WorkerSize
      => Id(issued[i]) # Id(issued[j])

(* The key generator of config.yaml:57-60 makes primary keys: no two calls *)
(* of GenerateKey return the same one.                                     *)
PrimaryKeysUnique ==
  \A i, j \in 1 .. Len(issued) : i # j => Id(issued[i]) # Id(issued[j])

(* Generate returns: the wait for the next millisecond ends although the *)
(* mutex is held during it, and the other callers get their turn.        *)
GenerateReturns == \A c \in Callers : pc[c] # "idle" ~> pc[c] = "idle"
=============================================================================
