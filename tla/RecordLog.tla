------------------------------ MODULE RecordLog ------------------------------
(***************************************************************************)
(* What a tier of the history promises, without blocks, files, journals or *)
(* power cuts: records are only ever added at the end, and only records    *)
(* that have left the tier's retention window are forgotten, oldest first. *)
(***************************************************************************)
EXTENDS Integers

CONSTANTS
  Tier,      \* the tiers of the history
  Window,    \* Window[t]: how long tier t keeps a record
  Clearable, \* the tiers an administrator may clear
  Time       \* timestamps

VARIABLES
  log,  \* log[t]: the timestamps recorded in tier t
  clock \* the present

vars == <<log, clock>>

Init ==
  /\ log \in [Tier -> SUBSET Time]
  /\ clock \in Time
  /\ \A t \in Tier : \A x \in log[t] : x <= clock

Tick ==
  /\ clock' \in Time /\ clock' > clock
  /\ UNCHANGED log

\* What is left of tier t when everything up to time k is forgotten.
After(t, k) == {x \in log[t] : x > k}

Outdated(t, k) == k + Window[t] <= clock

Record(t, x) ==
  /\ \A y \in log[t] : y < x
  /\ x <= clock
  /\ \E k \in Time : Outdated(t, k) /\ log' = [log EXCEPT ![t] = After(t, k) \union {x}]
  /\ UNCHANGED clock

RecordKeepingAll(t, x) ==
  /\ \A y \in log[t] : y < x
  /\ x <= clock
  /\ log' = [log EXCEPT ![t] = @ \union {x}]
  /\ UNCHANGED clock

Forget(t) ==
  /\ \E k \in Time : Outdated(t, k) /\ log' = [log EXCEPT ![t] = After(t, k)]
  /\ UNCHANGED clock

\* An administrator deletes the tier.
Clear(t) ==
  /\ t \in Clearable
  /\ log' = [log EXCEPT ![t] = {}]
  /\ UNCHANGED clock

Next ==
  \/ Tick
  \/ \E t \in Tier :
       \/ \E x \in Time : Record(t, x) \/ RecordKeepingAll(t, x)
       \/ Forget(t) \/ Clear(t)

Spec == Init /\ [][Next]_vars
=============================================================================
