----------------------------- MODULE UpdatePair -----------------------------
(***************************************************************************)
(* What an update of firmware and assets promises, without flash, journal  *)
(* or power cuts: a device has one installed release; a new release is     *)
(* first on trial and then either accepted or rejected as a whole.         *)
(***************************************************************************)
CONSTANTS Version, None

VARIABLES
  installed,  \* the release the device has, and falls back to
  trial       \* the release being tried, or None

vars == <<installed, trial>>

Init ==
  /\ installed \in Version
  /\ trial = None

Try(v) ==
  /\ trial = None
  /\ trial' = v
  /\ UNCHANGED installed

Accept ==
  /\ trial # None
  /\ installed' = trial
  /\ trial' = None

Reject ==
  /\ trial # None
  /\ trial' = None
  /\ UNCHANGED installed

Next == (\E v \in Version : Try(v)) \/ Accept \/ Reject

\* A trial does not stay undecided.
Spec == Init /\ [][Next]_vars /\ WF_vars(Accept \/ Reject)
=============================================================================
