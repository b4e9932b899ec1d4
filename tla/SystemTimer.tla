----------------------------- MODULE SystemTimer -----------------------------
(***************************************************************************)
(* The system timer and jiffies (kernel/device/bcm2835/timer.cpp).         *)
(*                                                                         *)
(* A free-running counter raises the timer interrupt when its lower bits   *)
(* reach compare1.  The interrupt handler moves compare1 on by whole       *)
(* periods until it is no longer behind the counter, sets compare3, clears *)
(* the match flag and adds to jiffies.  The counter runs on meanwhile, so  *)
(* every read of lower_bits is a step of its own.                          *)
(***************************************************************************)
EXTENDS Integers

CONSTANTS
  Match,           \* timer_counter_match, counter ticks per jiffy
  Fallback,        \* FALLBACK_SYS_HZ_SCALER
  CounterModulus,  \* number of values of lower_bits
  Boots,           \* counter values at which init() may run
  MaxCounter       \* bound: the counter value at which we stop looking

ASSUME SystemTimerAssumption ==
  /\ Match \in Nat \ {0}
  /\ Fallback \in Nat \ {0}
  /\ CounterModulus \in Nat
  /\ CounterModulus > Fallback * Match
  /\ Boots \subseteq 0 .. MaxCounter
  /\ MaxCounter \in Nat

VARIABLES
  boot,      \* counter when init() ran
  counter,   \* the whole counter, upper_bits and lower_bits
  compare1,
  compare3,
  matched,   \* bit 1 of control
  stage,     \* where the interrupt handler is
  jif_diff,  \* local variable of handle_irq
  jiffies_since_boot

vars == <<boot, counter, compare1, compare3, matched, stage, jif_diff,
          jiffies_since_boot>>

lower_bits == counter % CounterModulus

\* u32 addition
Plus(a, b) == (a + b) % CounterModulus

\* init()
Init ==
  /\ boot \in Boots
  /\ counter = boot
  /\ compare1 = Plus(lower_bits, Match)
  /\ compare3 = Plus(lower_bits, Fallback * Match)
  /\ matched = FALSE
  /\ stage = "idle"
  /\ jif_diff = 0
  /\ jiffies_since_boot = 0

\* The counter never stops; the flag goes up when it reaches compare1.
Tick ==
  /\ counter < MaxCounter
  /\ counter' = counter + 1
  /\ matched' = (matched \/ (counter + 1) % CounterModulus = compare1)
  /\ UNCHANGED <<boot, compare1, compare3, stage, jif_diff, jiffies_since_boot>>

\* Mutant: a fallback match is assumed one period early.
jiffies_since_last_matchEarly ==
  IF compare3 - Match < lower_bits THEN Fallback ELSE 1

\* jiffies_since_last_match()
jiffies_since_last_match == IF compare3 < lower_bits THEN Fallback ELSE 1

\* handle_irq() is entered, at any time after the match: interrupts may be masked.
handle_irq ==
  /\ stage = "idle"
  /\ matched
  /\ jif_diff' = jiffies_since_last_match
  /\ stage' = "reinit"
  /\ UNCHANGED <<boot, counter, compare1, compare3, matched, jiffies_since_boot>>

\* Mutant: compare1 is moved on from the counter, not from compare1.
MoveCompare1FromCounter ==
  /\ stage = "reinit"
  /\ compare1 < lower_bits
  /\ compare1' = Plus(lower_bits, 1)
  /\ UNCHANGED <<boot, counter, compare3, matched, stage, jif_diff, jiffies_since_boot>>

\* One round of the loop of reinit().
MoveCompare1 ==
  /\ stage = "reinit"
  /\ compare1 < lower_bits
  /\ compare1' = Plus(compare1, Match)
  /\ UNCHANGED <<boot, counter, compare3, matched, stage, jif_diff, jiffies_since_boot>>

\* The loop ends.
LoopEnds ==
  /\ stage = "reinit"
  /\ ~(compare1 < lower_bits)
  /\ stage' = "compare3"
  /\ UNCHANGED <<boot, counter, compare1, compare3, matched, jif_diff, jiffies_since_boot>>

\* compare3 is set, from another read of lower_bits.
SetCompare3 ==
  /\ stage = "compare3"
  /\ compare3' = Plus(lower_bits, Fallback * Match)
  /\ stage' = "clear"
  /\ UNCHANGED <<boot, counter, compare1, matched, jif_diff, jiffies_since_boot>>

\* The flag is cleared, whatever the counter has reached by now, and time goes on.
ClearMatch ==
  /\ stage = "clear"
  /\ matched' = FALSE
  /\ jiffies_since_boot' = jiffies_since_boot + jif_diff
  /\ stage' = "idle"
  /\ UNCHANGED <<boot, counter, compare1, compare3, jif_diff>>

Next == Tick \/ handle_irq \/ MoveCompare1 \/ LoopEnds \/ SetCompare3 \/ ClearMatch

Spec == Init /\ [][Next]_vars
-----------------------------------------------------------------------------
TypeOK ==
  /\ boot \in Boots
  /\ counter \in boot .. MaxCounter
  /\ compare1 \in 0 .. CounterModulus - 1
  /\ compare3 \in 0 .. CounterModulus - 1
  /\ matched \in BOOLEAN
  /\ stage \in {"idle", "reinit", "compare3", "clear"}
  /\ jif_diff \in {0, 1, Fallback}
  /\ jiffies_since_boot \in Nat

\* Neither compare register has wrapped yet.
NotWrapped == counter < CounterModulus - Fallback * Match

\* jiffies() may fall behind real time ("potentially missing jiffies") but never runs
\* ahead of it, however late the handler runs and wherever the counter moves on
\* inside it: an interrupt that counts for FALLBACK_SYS_HZ_SCALER jiffies stands for at
\* least as many periods.
JiffiesNeverAhead == NotWrapped => jiffies_since_boot * Match <= counter - boot

(***************************************************************************)
(* The inductive invariant behind it.  Stated with the points in time that *)
(* the registers stand for: what jiffies show, and will show when the      *)
(* handler is done, is a whole number of periods away from compare1.       *)
(***************************************************************************)
Shown == boot + Match * jiffies_since_boot
ShownNext == IF stage = "idle" THEN Shown ELSE Shown + Match * jif_diff

InStep ==
  /\ ShownNext <= counter
  /\ (compare1 - Shown) % Match = 0
  /\ stage \notin {"reinit", "compare3"} => ShownNext <= compare3 - Fallback * Match
  /\ stage = "idle" =>
       /\ matched => compare1 <= counter
       /\ Shown < compare1 \/ (~matched /\ compare1 <= counter)
  /\ stage \in {"compare3", "clear"} => ShownNext < compare1 \/ compare1 <= counter
TimerInv == TypeOK /\ (NotWrapped => InStep)
=============================================================================
