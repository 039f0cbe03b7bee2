------------------------------ MODULE TimerPool ------------------------------
(***************************************************************************)
(* What the worker loop expects of ctx->io_pool and ctx->sleep_pool: a set *)
(* of threads, each with the time at which it is due.  Threads enter when  *)
(* they yield, leave when an event comes, and the ones that are due are    *)
(* handed out by asthread_remove_timeout_threads: never one that is not    *)
(* due, and at least one when there is any.                                *)
(***************************************************************************)
EXTENDS Naturals

CONSTANTS Node, MaxEt

VARIABLES members, et, now, taken

poolVars == <<members, et, now, taken>>

Init ==
  /\ members = {} /\ taken = {} /\ now = 0
  /\ et = [n \in Node |-> 0]

Add(n, e) ==
  /\ n \notin members
  /\ members' = members \cup {n} /\ et' = [et EXCEPT ![n] = e]
  /\ taken' = {} /\ UNCHANGED now

Del(n) ==
  /\ n \in members
  /\ members' = members \ {n} /\ et' = [et EXCEPT ![n] = 0]
  /\ taken' = {} /\ UNCHANGED now

Due == {n \in members : et[n] <= now}

Expire(S) ==
  /\ S \subseteq Due /\ (Due # {} => S # {})
  /\ members' = members \ S /\ taken' = {<<n, et[n]>> : n \in S}
  /\ et' = [n \in Node |-> IF n \in S THEN 0 ELSE et[n]] /\ UNCHANGED now

Tick == now' = now + 1 /\ taken' = {} /\ UNCHANGED <<members, et>>

Next ==
  \/ \E n \in Node : Del(n) \/ \E e \in 1 .. MaxEt : Add(n, e)
  \/ \E S \in SUBSET Node : Expire(S)
  \/ Tick

Spec == Init /\ [][Next]_poolVars
=============================================================================
