-------------------------- MODULE SystemTimerProofs --------------------------
(***************************************************************************)
(* Proofs about module SystemTimer, for any period, fallback period and    *)
(* width of the counter.                                                   *)
(***************************************************************************)
EXTENDS SystemTimer, TLAPS

\* The constants, without the product that they contain.
LEMMA Constants ==
  /\ Match \in Nat \ {0}
  /\ Fallback \in Nat \ {0}
  /\ Fallback * Match \in Nat
  /\ Match * Fallback = Fallback * Match
  /\ Match <= Fallback * Match
  /\ CounterModulus \in Nat
  /\ CounterModulus > Fallback * Match
  /\ \A b \in Boots : b \in Nat
<1>1. Match \in Nat \ {0} /\ Fallback \in Nat \ {0}
  BY SystemTimerAssumption
<1>2. Fallback * Match \in Nat /\ Match * Fallback = Fallback * Match
  BY <1>1
<1>3. Match <= Fallback * Match
  BY <1>1
<1>4. QED
  BY <1>1, <1>2, <1>3, SystemTimerAssumption

\* Reduction modulo the width of the counter.
LEMMA ModInRange ==
  ASSUME NEW n \in Nat
  PROVE  /\ n % CounterModulus \in 0 .. CounterModulus - 1
         /\ n < CounterModulus => n % CounterModulus = n
<1>1. CounterModulus \in Nat /\ CounterModulus > 0
  BY Constants
<1>2. QED
  BY <1>1

\* Multiples of the period.
LEMMA Periods ==
  ASSUME NEW m \in Int, NEW d \in Int
  PROVE  /\ Match * m \in Int /\ Match * d \in Int
         /\ Match * (m + d) = Match * m + Match * d
         /\ Match * (m - d) = Match * m - Match * d
         /\ Match * 1 = Match
         /\ Match * m > 0 => Match * m >= Match
<1>1. Match \in Nat \ {0}
  BY Constants
<1>2. /\ Match * m \in Int /\ Match * d \in Int
      /\ Match * (m + d) = Match * m + Match * d
      /\ Match * (m - d) = Match * m - Match * d
      /\ Match * 1 = Match
  BY <1>1
<1>3. Match * m > 0 => Match * m >= Match
  <2>1. CASE m <= 0
    BY <1>1, <2>1
  <2>2. CASE m >= 1
    BY <1>1, <2>2
  <2>3. QED
    BY <2>1, <2>2
<1>4. QED
  BY <1>2, <1>3

\* A multiple of the period is what has no remainder.
LEMMA Multiples ==
  ASSUME NEW x \in Int
  PROVE  (x % Match = 0) <=> (\E m \in Int : x = Match * m)
<1>1. Match \in Nat \ {0} /\ Match > 0
  BY Constants
<1>2. ASSUME x % Match = 0 PROVE \E m \in Int : x = Match * m
  <2>1. x \div Match \in Int
    BY <1>1
  <2>2. x = Match * (x \div Match) + (x % Match)
    BY <1>1, Z3T(60)
  <2>3. Match * (x \div Match) \in Int
    BY <1>1, <2>1
  <2>4. x = Match * (x \div Match)
    BY <1>2, <2>2, <2>3
  <2>5. QED
    BY <2>1, <2>4
<1>3. ASSUME NEW m \in Int, x = Match * m PROVE x % Match = 0
  BY <1>1, <1>3, Z3T(60)
<1>4. QED
  BY <1>2, <1>3
-----------------------------------------------------------------------------
(***************************************************************************)
(* The inductive invariant.                                                *)
(***************************************************************************)

\* The quantities that InStep compares are integers.
LEMMA PointsInTime ==
  ASSUME TypeOK
  PROVE  /\ boot \in Nat /\ counter \in Nat /\ compare1 \in Nat /\ compare3 \in Nat
         /\ jif_diff \in Nat /\ jiffies_since_boot \in Nat
         /\ Shown \in Int /\ Match * jif_diff \in Int /\ ShownNext \in Int
         /\ compare1 - Shown \in Int
         /\ lower_bits \in 0 .. CounterModulus - 1
         /\ NotWrapped => lower_bits = counter
<1>1. /\ boot \in Nat /\ counter \in Nat /\ compare1 \in Nat /\ compare3 \in Nat
      /\ jif_diff \in Nat /\ jiffies_since_boot \in Nat
  BY Constants DEF TypeOK
<1>2. Match * jif_diff \in Int /\ Match * jiffies_since_boot \in Int
  BY <1>1, Constants
<1>3. Shown \in Int
  BY <1>1, <1>2 DEF Shown
<1>4. NotWrapped => counter < CounterModulus
  BY <1>1, Constants DEF NotWrapped
<1>5. QED
  BY <1>1, <1>2, <1>3, <1>4, ModInRange DEF ShownNext, lower_bits

\* The invariant holds when init() is done.
LEMMA InitEstablishes == Init => TimerInv
<1> SUFFICES ASSUME Init PROVE TimerInv
  OBVIOUS
<1>1. /\ boot \in Nat /\ counter = boot /\ boot \in Boots
      /\ stage = "idle" /\ matched = FALSE /\ jif_diff = 0 /\ jiffies_since_boot = 0
  BY Constants DEF Init
<1>2. lower_bits \in 0 .. CounterModulus - 1
  BY <1>1, ModInRange DEF lower_bits
<1>3. lower_bits + Match \in Nat /\ lower_bits + Fallback * Match \in Nat
  BY <1>2, Constants
<1>4. /\ compare1 \in 0 .. CounterModulus - 1
      /\ compare3 \in 0 .. CounterModulus - 1
  BY <1>3, ModInRange DEF Init, Plus
<1>5. counter \in boot .. MaxCounter
  BY <1>1, SystemTimerAssumption
<1>6. TypeOK
  BY <1>1, <1>4, <1>5 DEF TypeOK
<1>7. ASSUME NotWrapped PROVE InStep
  <2>1. lower_bits = boot /\ counter + Fallback * Match < CounterModulus
    BY <1>1, <1>6, <1>7, PointsInTime, Constants DEF NotWrapped
  <2>2. boot + Match < CounterModulus /\ boot + Fallback * Match < CounterModulus
    BY <1>1, <2>1, Constants
  <2>3. compare1 = boot + Match /\ compare3 = boot + Fallback * Match
    BY <1>1, <1>3, <2>1, <2>2, ModInRange DEF Init, Plus
  <2>4. Shown = boot
    BY <1>1, Constants DEF Shown
  <2>5. compare1 - Shown = Match * 1
    BY <1>1, <2>3, <2>4, Constants
  <2>6. (compare1 - Shown) % Match = 0
    <3>1. compare1 - Shown \in Int
      BY <1>6, PointsInTime
    <3>2. QED
      BY <2>5, <3>1, Multiples
  <2>7. QED
    BY <1>1, <2>3, <2>4, <2>6, Constants DEF InStep, ShownNext
<1>8. QED
  BY <1>6, <1>7 DEF TimerInv

\* Type correctness is preserved.
LEMMA TypePreserved ==
  ASSUME TypeOK, [Next]_vars
  PROVE  TypeOK'
<1>1. lower_bits \in Nat /\ compare1 \in Nat
  BY PointsInTime, Constants
<1>2. \A a, b \in Nat : Plus(a, b) \in 0 .. CounterModulus - 1
  BY ModInRange DEF Plus
<1>3. CASE UNCHANGED vars
  BY <1>3 DEF vars, TypeOK
<1>4. CASE Tick
  <2>1. counter' \in boot .. MaxCounter
    BY <1>4, PointsInTime, SystemTimerAssumption DEF Tick, TypeOK
  <2>2. matched' \in BOOLEAN
    BY <1>4 DEF Tick, TypeOK
  <2>3. QED
    BY <1>4, <2>1, <2>2 DEF Tick, TypeOK
<1>5. CASE handle_irq
  BY <1>5 DEF handle_irq, TypeOK, jiffies_since_last_match
<1>6. CASE MoveCompare1
  BY <1>1, <1>2, <1>6, Constants DEF MoveCompare1, TypeOK
<1>7. CASE LoopEnds
  BY <1>7 DEF LoopEnds, TypeOK
<1>8. CASE SetCompare3
  BY <1>1, <1>2, <1>8, Constants DEF SetCompare3, TypeOK
<1>9. CASE ClearMatch
  <2>1. jiffies_since_boot' \in Nat
    BY <1>9, PointsInTime DEF ClearMatch
  <2>2. QED
    BY <1>9, <2>1 DEF ClearMatch, TypeOK
<1>10. QED
  BY <1>3, <1>4, <1>5, <1>6, <1>7, <1>8, <1>9 DEF Next

\* Every step keeps the registers in step, as long as nothing wraps: one case per action.
LEMMA NextPreserves == TimerInv /\ [Next]_vars => TimerInv'
<1> SUFFICES ASSUME TimerInv, [Next]_vars PROVE TimerInv'
  OBVIOUS
<1>1. TypeOK /\ TypeOK'
  BY TypePreserved DEF TimerInv
<1>2. /\ boot \in Nat /\ counter \in Nat /\ compare1 \in Nat /\ compare3 \in Nat
      /\ jif_diff \in Nat /\ jiffies_since_boot \in Nat
      /\ Shown \in Int /\ Match * jif_diff \in Int /\ ShownNext \in Int
      /\ compare1 - Shown \in Int
      /\ NotWrapped => lower_bits = counter
  BY <1>1, PointsInTime
<1>3. Match \in Nat \ {0} /\ Fallback * Match \in Nat /\ Match <= Fallback * Match
      /\ CounterModulus \in Nat
  BY Constants
<1> SUFFICES ASSUME NotWrapped' PROVE InStep'
  BY <1>1 DEF TimerInv
<1>4. NotWrapped
  BY <1>2, <1>3 DEF Next, vars, NotWrapped, Tick, handle_irq, MoveCompare1, LoopEnds,
                    SetCompare3, ClearMatch
<1>5. InStep /\ lower_bits = counter /\ counter + Fallback * Match < CounterModulus
  BY <1>2, <1>3, <1>4 DEF TimerInv, NotWrapped
<1>6. CASE UNCHANGED vars
  BY <1>5, <1>6 DEF vars, InStep, ShownNext, Shown
<1>7. CASE Tick
  <2>1. /\ counter' = counter + 1 /\ Shown' = Shown /\ ShownNext' = ShownNext
        /\ UNCHANGED <<compare1, compare3, stage>>
    BY <1>7 DEF Tick, Shown, ShownNext
  <2>2. (counter + 1) % CounterModulus = counter + 1
    <3>1. counter + 1 \in Nat /\ counter + 1 < CounterModulus
      BY <1>2, <1>3, <1>5
    <3>2. QED
      BY <3>1, ModInRange
  <2>3. matched' = (matched \/ counter' = compare1)
    BY <1>7, <2>2 DEF Tick
  <2>4. ASSUME stage = "idle"
        PROVE  /\ matched' => compare1 <= counter'
               /\ Shown < compare1 \/ (~matched' /\ compare1 <= counter')
    <3>1. /\ matched => compare1 <= counter
          /\ Shown < compare1 \/ (~matched /\ compare1 <= counter)
      BY <1>5, <2>4 DEF InStep
    <3>2. compare1 <= counter => compare1 <= counter' /\ counter' # compare1
      BY <1>2, <2>1
    <3>3. counter' = compare1 => compare1 <= counter'
      BY <1>2, <2>1
    <3>4. QED
      BY <2>3, <3>1, <3>2, <3>3
  <2>5. /\ ShownNext <= counter'
        /\ stage \in {"compare3", "clear"} => ShownNext < compare1 \/ compare1 <= counter'
    BY <1>2, <1>5, <2>1 DEF InStep
  <2>6. QED
    BY <1>5, <2>1, <2>4, <2>5 DEF InStep
<1>8. CASE handle_irq
  \* compare1 was reached, and is at least a period after the time shown.
  <2>1. /\ stage = "idle" /\ matched /\ stage' = "reinit" /\ Shown' = Shown
        /\ UNCHANGED <<counter, compare1, compare3>>
        /\ jif_diff' = IF compare3 < counter THEN Fallback ELSE 1
    BY <1>5, <1>8 DEF handle_irq, Shown, jiffies_since_last_match
  <2>2. Shown < compare1 /\ compare1 <= counter
    BY <1>5, <2>1 DEF InStep
  <2>3. Shown + Match <= compare1
    <3>1. PICK m \in Int : compare1 - Shown = Match * m
      BY <1>2, <1>5, Multiples DEF InStep
    <3>2. Match * m > 0
      BY <1>2, <2>2, <3>1
    <3>3. Match * m >= Match
      BY <3>2, Periods
    <3>4. QED
      BY <1>2, <1>3, <3>1, <3>3
  <2>4. Shown <= compare3 - Fallback * Match
    BY <1>5, <2>1 DEF InStep, ShownNext
  <2>5. Shown + Match * jif_diff' <= counter
    <3>1. CASE compare3 < counter
      BY <1>2, <1>3, <2>1, <2>4, <3>1, Constants
    <3>2. CASE ~(compare3 < counter)
      BY <1>2, <1>3, <2>1, <2>2, <2>3, <3>2
    <3>3. QED
      BY <3>1, <3>2
  <2>6. ShownNext' = Shown + Match * jif_diff'
    BY <2>1 DEF ShownNext
  <2>7. QED
    BY <1>5, <2>1, <2>5, <2>6 DEF InStep
<1>9. CASE MoveCompare1
  <2>1. /\ stage = "reinit" /\ compare1 < counter
        /\ compare1' = Plus(compare1, Match)
        /\ Shown' = Shown /\ ShownNext' = ShownNext
        /\ UNCHANGED <<counter, compare3, stage>>
    BY <1>5, <1>9 DEF MoveCompare1, Shown, ShownNext
  <2>2. compare1 + Match \in Nat /\ compare1 + Match < CounterModulus
    BY <1>2, <1>3, <1>5, <2>1
  <2>3. compare1' = compare1 + Match
    BY <2>1, <2>2, ModInRange DEF Plus
  <2>4. (compare1' - Shown') % Match = 0
    <3>1. PICK m \in Int : compare1 - Shown = Match * m
      BY <1>2, <1>5, Multiples DEF InStep
    <3>2. Match * m \in Int /\ Match * (m + 1) = Match * m + Match
      BY <3>1, Periods
    <3>3. compare1' - Shown' = Match * (m + 1)
      BY <1>2, <1>3, <2>1, <2>3, <3>1, <3>2
    <3>4. compare1' - Shown' \in Int /\ m + 1 \in Int
      BY <1>2, <1>3, <2>1, <2>3
    <3>5. QED
      BY <3>3, <3>4, Multiples
  <2>5. QED
    BY <1>5, <2>1, <2>4 DEF InStep
<1>10. CASE LoopEnds
  <2>1. /\ stage = "reinit" /\ stage' = "compare3" /\ ~(compare1 < counter)
        /\ Shown' = Shown /\ ShownNext' = ShownNext
        /\ UNCHANGED <<counter, compare1, compare3>>
    BY <1>5, <1>10 DEF LoopEnds, Shown, ShownNext
  <2>2. QED
    BY <1>2, <1>5, <2>1 DEF InStep
<1>11. CASE SetCompare3
  <2>1. /\ stage = "compare3" /\ stage' = "clear"
        /\ compare3' = Plus(counter, Fallback * Match)
        /\ Shown' = Shown /\ ShownNext' = ShownNext
        /\ UNCHANGED <<counter, compare1>>
    BY <1>5, <1>11 DEF SetCompare3, Shown, ShownNext
  <2>2. compare3' = counter + Fallback * Match
    <3>1. counter + Fallback * Match \in Nat /\ counter + Fallback * Match < CounterModulus
      BY <1>2, <1>3, <1>5, <2>1
    <3>2. (counter + Fallback * Match) % CounterModulus = counter + Fallback * Match
      BY <3>1, ModInRange, Zenon
    <3>3. QED
      BY <2>1, <3>2, Zenon DEF Plus
  <2>3. QED
    BY <1>2, <1>3, <1>5, <2>1, <2>2 DEF InStep
<1>12. CASE ClearMatch
  <2>1. /\ stage = "clear" /\ stage' = "idle" /\ matched' = FALSE
        /\ jiffies_since_boot' = jiffies_since_boot + jif_diff
        /\ UNCHANGED <<boot, counter, compare1, compare3>>
    BY <1>12 DEF ClearMatch
  <2>2. Shown' = Shown + Match * jif_diff
    <3>1. /\ Match * jiffies_since_boot \in Int
          /\ Match * (jiffies_since_boot + jif_diff)
               = Match * jiffies_since_boot + Match * jif_diff
      <4>1. jiffies_since_boot \in Int /\ jif_diff \in Int
        BY <1>2
      <4>2. QED
        BY <4>1, Periods
    <3>2. QED
      BY <1>2, <2>1, <3>1 DEF Shown
  <2>3. Shown' = ShownNext /\ ShownNext' = ShownNext
    BY <2>1, <2>2 DEF ShownNext
  <2>4. (compare1' - Shown') % Match = 0
    <3>1. PICK m \in Int : compare1 - Shown = Match * m
      BY <1>2, <1>5, Multiples DEF InStep
    <3>2. Match * m \in Int /\ Match * (m - jif_diff) = Match * m - Match * jif_diff
      BY <1>2, <3>1, Periods
    <3>3. compare1' - Shown' = Match * (m - jif_diff)
      BY <1>2, <2>1, <2>2, <3>1, <3>2
    <3>4. compare1' - Shown' \in Int /\ m - jif_diff \in Int
      BY <1>2, <2>1, <2>2
    <3>5. QED
      BY <3>3, <3>4, Multiples
  <2>5. QED
    BY <1>2, <1>5, <2>1, <2>3, <2>4 DEF InStep
<1>13. QED
  BY <1>6, <1>7, <1>8, <1>9, <1>10, <1>11, <1>12 DEF Next

\* The registers stay in step with jiffies until the counter comes within the fallback
\* period of its overflow.
THEOREM TimerInvariant == Spec => []TimerInv
<1>1. QED
  BY InitEstablishes, NextPreserves, PTL DEF Spec

\* Jiffies never run ahead of the counter: however long interrupts were masked before
\* handle_irq runs, and whatever the counter does while it runs, a jiffy is counted at
\* most once per period.
THEOREM JiffiesAreNeverAhead == Spec => []JiffiesNeverAhead
<1>1. TimerInv => JiffiesNeverAhead
  <2> SUFFICES ASSUME TimerInv, NotWrapped PROVE jiffies_since_boot * Match <= counter - boot
    BY DEF JiffiesNeverAhead
  <2>1. TypeOK /\ ShownNext <= counter
    BY DEF TimerInv, InStep
  <2>2. /\ boot \in Nat /\ counter \in Nat /\ jif_diff \in Nat
        /\ jiffies_since_boot \in Nat /\ Shown \in Int
    BY <2>1, PointsInTime
  <2>3. /\ Match * jiffies_since_boot = jiffies_since_boot * Match
        /\ jiffies_since_boot * Match \in Int
        /\ Match * jif_diff \in Int /\ Match * jif_diff >= 0
    BY <2>2, Constants
  <2>4. Shown <= counter
    BY <2>1, <2>2, <2>3 DEF ShownNext
  <2>5. QED
    BY <2>2, <2>3, <2>4 DEF Shown
<1>2. QED
  BY <1>1, TimerInvariant, PTL
=============================================================================
