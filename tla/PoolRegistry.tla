---------------------------- MODULE PoolRegistry ----------------------------
(***************************************************************************)
(* What the registry of backend connection pools promises to its callers:  *)
(* asking for a data source returns the one pool registered for it, and a  *)
(* pool is opened only when none is registered, all in one atomic step.    *)
(* ConnPools, the translation of getDBConnection, implements this.         *)
(***************************************************************************)
EXTENDS Naturals

CONSTANTS
  Callers,      \* goroutines that ask for pools
  Names,        \* data source names they may ask for
  Configured,   \* the names a pool can be opened for
  Pools         \* pool identities

NoPool == 0
NoAnswer == <<>>

VARIABLES
  registry,     \* name -> the pool registered for it, or NoPool
  opened,       \* the pools registered so far
  answer        \* caller -> the name it asked for and the pool it was given
                \* for it and still uses, or NoAnswer

rvars == <<registry, opened, answer>>

RInit ==
  /\ registry = [n \in Names |-> NoPool]
  /\ opened = {}
  /\ answer = [c \in Callers |-> NoAnswer]

(* A caller is given the registered pool. *)
GetExisting(c, n) ==
  /\ answer[c] = NoAnswer
  /\ registry[n] # NoPool
  /\ answer' = [answer EXCEPT ![c] = <<n, registry[n]>>]
  /\ UNCHANGED <<registry, opened>>

(* Nothing is registered: a pool nobody was given before is opened. *)
GetFresh(c, n) ==
  /\ answer[c] = NoAnswer
  /\ registry[n] = NoPool
  /\ n \in Configured
  /\ \E p \in Pools \ opened :
       /\ registry' = [registry EXCEPT ![n] = p]
       /\ opened' = opened \cup {p}
       /\ answer' = [answer EXCEPT ![c] = <<n, p>>]

Release(c) ==
  /\ answer' = [answer EXCEPT ![c] = NoAnswer]
  /\ UNCHANGED <<registry, opened>>

Unregister(n) ==
  /\ registry' = [registry EXCEPT ![n] = NoPool]
  /\ UNCHANGED <<opened, answer>>

RNext ==
  \/ \E c \in Callers, n \in Names : GetExisting(c, n) \/ GetFresh(c, n)
  \/ \E c \in Callers : Release(c)
  \/ \E n \in Names : Unregister(n)

RSpec == RInit /\ [][RNext]_rvars
=============================================================================
