---------------------------- MODULE ProductSafety ----------------------------
(***************************************************************************)
(* The protection against boot loops (core/ProductSafety.cpp and           *)
(* core/ProductRuntime.cpp): a counter of crashes shortly after the start, *)
(* in RTC memory, and the recovery mode that it leads to.                  *)
(***************************************************************************)
EXTENDS Integers

CONSTANTS
  CrashLimit, \* kIrEarlyCrashLimit
  CountMax    \* largest value of the counter (255)

VARIABLES
  kept,     \* irSafeMagic is set, irEarlyCrashCount, irPreviousBootHealthy
  running,  \* setup() has begun, and nothing has stopped the device since
  recovery, \* productSafety.safeRecovery
  uptime    \* "young", "minute" from kIrHealthyBootMs on, "pass" when the loop ran since

safetyVars == <<kept, running, recovery, uptime>>
-----------------------------------------------------------------------------
Lost == [magic |-> FALSE, count |-> 0, healthy |-> FALSE]

\* The memory as beginProductSafety() uses it.
Known(found) == IF found.magic THEN found ELSE [Lost EXCEPT !.magic = TRUE]

\* beginProductSafety(), called from setup(), for a reset of either kind.
BeginProductSafety(found, crashLike) ==
  LET before == Known(found)
      count == IF ~crashLike THEN 0
               ELSE IF ~before.healthy /\ before.count < CountMax THEN before.count + 1
               ELSE before.count
  IN /\ kept' = [magic |-> TRUE, count |-> count, healthy |-> FALSE]
     /\ recovery' = (count >= CrashLimit)

\* A start: after a panic, a watchdog or a brownout, or for another reason.
\* Whether the memory survives that reset is up to the platform.
Restart ==
  /\ running' = TRUE /\ uptime' = "young"
  /\ \E crashLike \in BOOLEAN, found \in {kept, Lost} :
       (crashLike => running) /\ BeginProductSafety(found, crashLike)

\* Without power the memory is lost, and the reset is not crash-like.
PowerCycle ==
  /\ running /\ running' = FALSE
  /\ kept' = Lost
  /\ recovery' = FALSE /\ uptime' = "young"

Minute ==
  /\ running /\ uptime = "young" /\ uptime' = "minute"
  /\ UNCHANGED <<kept, running, recovery>>

\* A pass of loop(), which calls neither manageProductRuntime() nor
\* manageProductSafety().
LoopPass ==
  /\ running /\ uptime' = IF uptime = "minute" THEN "pass" ELSE uptime
  /\ UNCHANGED <<kept, running, recovery>>

SafetyInit ==
  /\ kept = Lost
  /\ running = FALSE /\ recovery = FALSE /\ uptime = "young"

SafetyNext == Restart \/ PowerCycle \/ Minute \/ LoopPass

SafetySpec == SafetyInit /\ [][SafetyNext]_safetyVars
-----------------------------------------------------------------------------
\* "The early-crash counter is cleared after 60 seconds of stable runtime"
\* (CHANGELOG.md:65): once the loop has run after that time, the counter is 0.
EarlyCrashCleared == uptime = "pass" => kept.count = 0
=============================================================================
