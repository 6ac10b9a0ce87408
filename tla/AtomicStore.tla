---------------------------- MODULE AtomicStore ----------------------------
(***************************************************************************)
(* What every other module takes for granted when it models a transaction  *)
(* as one action: a write request changes all the tables it touches in one *)
(* step, on top of the latest state, at most once.                         *)
(***************************************************************************)
EXTENDS Integers, FiniteSets

CONSTANTS Tables, WriteRequests

VARIABLES store, committed

atomicVars == <<store, committed>>

AtomicInit ==
  /\ store = [t \in Tables |-> 0]
  /\ committed = {}

Apply(w) ==
  /\ w \notin committed
  /\ store' = [t \in Tables |-> store[t] + 1]
  /\ committed' = committed \cup {w}

AtomicNext == \E w \in WriteRequests : Apply(w)

AtomicSpec == AtomicInit /\ [][AtomicNext]_atomicVars

(* No update is lost and none is made twice: every table has been raised once by
   each request that reported success, and by no other. *)
NothingLost == \A t \in Tables : store[t] = Cardinality(committed)
=============================================================================
