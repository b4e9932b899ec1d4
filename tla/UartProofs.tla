----------------------------- MODULE UartProofs -----------------------------
(***************************************************************************)
(* Proofs about module Uart, for any FIFO depth and triggers, any request  *)
(* sizes but zero, and any input.  The last part is about what module      *)
(* MCUart records: that what was typed is what the reads return.           *)
(***************************************************************************)
EXTENDS MCUart, TLAPS, WellFoundedInduction, SequenceTheorems

\* The least-number principle, for a set.
LEMMA LeastOf ==
  ASSUME NEW T \in SUBSET Nat, T # {}
  PROVE  \E m \in T : \A k \in 0 .. m - 1 : k \notin T
<1>1. IsWellFoundedOn(OpToRel(<, Nat), Nat)
  BY NatLessThanWellFounded
<1>2. PICK m \in T : \A y \in T : ~ (<<y, m>> \in OpToRel(<, Nat))
  BY <1>1, WFMin
<1>3. \A k \in 0 .. m - 1 : k \in Nat /\ k < m
  OBVIOUS
<1>4. QED
  BY <1>2, <1>3 DEF OpToRel

\* There is a first line end, or there is none.
LEMMA LineLengthInRange ==
  ASSUME NEW q \in Seq(Chars)
  PROVE  /\ LineLength(q) \in 0 .. Len(q)
         /\ LineLength(q) < Len(q) => q[LineLength(q) + 1] = Break
<1> DEFINE T == {n \in 0 .. Len(q) : n < Len(q) => q[n + 1] = Break}
<1>1. T \in SUBSET Nat /\ Len(q) \in T
  OBVIOUS
<1>2. PICK m \in T : \A k \in 0 .. m - 1 : k \notin T
  BY <1>1, LeastOf
<1>3. m \in 0 .. Len(q) /\ (m < Len(q) => q[m + 1] = Break)
  OBVIOUS
<1>4. ASSUME NEW i \in 1 .. m
      PROVE  q[i] # Break
  <2>1. i - 1 \in 0 .. m - 1 /\ i - 1 \in 0 .. Len(q) /\ i - 1 < Len(q)
    BY <1>3
  <2>2. i - 1 \notin T
    BY <1>2, <2>1
  <2>3. (i - 1) + 1 = i
    OBVIOUS
  <2>4. QED
    BY <2>1, <2>2, <2>3
<1>5. \E n \in 0 .. Len(q) : /\ \A i \in 1 .. n : q[i] # Break
                             /\ n < Len(q) => q[n + 1] = Break
  BY <1>3, <1>4
<1>6. QED
  BY <1>5 DEF LineLength

\* What a reader leaves in the FIFO.
LEMMA SuffixIsSequence ==
  ASSUME NEW S, NEW q \in Seq(S), NEW k \in 1 .. Len(q) + 1
  PROVE  SubSeq(q, k, Len(q)) \in Seq(S)
<1>1. k \in Nat /\ Len(q) \in Nat
  OBVIOUS
<1>2. \A i \in k .. Len(q) : q[i] \in S
  OBVIOUS
<1>3. QED
  BY <1>1, <1>2

\* fill_from_uart() for a read stores at most what was asked for.
LEMMA ReadStaysInside ==
  ASSUME TypeOK, m_request.m_size <= m_request.m_capacity, try_read
  PROVE  /\ m_request' \in UARTRequest
         /\ m_request'.m_size <= m_request'.m_capacity
         /\ m_request'.m_is_write_request = m_request.m_is_write_request
         /\ buffer' \in Seq(Chars)
         /\ rxFifo' \in Seq(Chars)
         /\ txLevel' \in 0 .. FifoDepth
<1> DEFINE left == m_request.m_capacity - m_request.m_size
           n == Minimum(left, LineLength(rxFifo))
           stopped == n < left /\ n < Len(rxFifo)
           taken == IF stopped THEN n + 1 ELSE n
           size == m_request.m_size + n
<1>1. /\ m_request.m_size \in Nat /\ m_request.m_capacity \in Nat
      /\ left \in Nat
      /\ rxFifo \in Seq(Chars) /\ Len(rxFifo) \in Nat
      /\ txLevel \in 0 .. FifoDepth /\ FifoDepth \in Nat
  BY UartAssumption DEF TypeOK, UARTRequest
<1>2. LineLength(rxFifo) \in 0 .. Len(rxFifo)
  BY <1>1, LineLengthInRange
<1>3. n \in Nat /\ n <= left /\ n <= Len(rxFifo)
  BY <1>1, <1>2 DEF Minimum
<1>4. taken \in Nat /\ taken <= Len(rxFifo)
  BY <1>1, <1>3
<1>5. /\ m_request' = [m_request EXCEPT
                         !.m_size = size,
                         !.m_capacity = IF stopped THEN size ELSE @]
      /\ buffer' = buffer \o SubSeq(rxFifo, 1, n)
      /\ rxFifo' = SubSeq(rxFifo, taken + 1, Len(rxFifo))
      /\ txLevel' = Minimum(FifoDepth, txLevel + taken)
  BY DEF try_read
<1> DEFINE cap == IF stopped THEN size ELSE m_request.m_capacity
<1>6. size \in Nat /\ cap \in Nat /\ size <= cap
  BY <1>1, <1>3
<1>7. m_request' = [m_request EXCEPT !.m_size = size, !.m_capacity = cap]
  BY <1>5
<1> HIDE DEF n, stopped, taken, size, cap
<1>8. /\ m_request' \in UARTRequest
      /\ m_request'.m_size <= m_request'.m_capacity
      /\ m_request'.m_is_write_request = m_request.m_is_write_request
  BY <1>1, <1>6, <1>7 DEF TypeOK, UARTRequest
<1>9. buffer' \in Seq(Chars)
  <2>1. SubSeq(rxFifo, 1, n) \in Seq(Chars)
    BY <1>1, <1>3
  <2>2. buffer \in Seq(Chars)
    BY DEF TypeOK
  <2>3. QED
    BY <1>5, <2>1, <2>2
<1>10. rxFifo' \in Seq(Chars)
  <2>1. taken + 1 \in 1 .. Len(rxFifo) + 1
    BY <1>1, <1>4
  <2>2. SubSeq(rxFifo, taken + 1, Len(rxFifo)) \in Seq(Chars)
    BY <1>1, <2>1, SuffixIsSequence
  <2>3. QED
    BY <1>5, <2>2, Zenon
<1>11. txLevel' \in 0 .. FifoDepth
  <2>1. txLevel' = Minimum(FifoDepth, txLevel + taken)
    BY <1>5
  <2>2. txLevel + taken \in Nat
    BY <1>1, <1>4
  <2>3. QED
    BY <1>1, <2>1, <2>2 DEF Minimum
<1>12. QED
  BY <1>8, <1>9, <1>10, <1>11

\* So does fill_from_uart() for a write.
LEMMA WriteStaysInside ==
  ASSUME TypeOK, m_request.m_size <= m_request.m_capacity, try_write
  PROVE  /\ m_request' \in UARTRequest
         /\ m_request'.m_size <= m_request'.m_capacity
         /\ m_request'.m_is_write_request = m_request.m_is_write_request
         /\ buffer' \in Seq(Chars)
         /\ rxFifo' \in Seq(Chars)
         /\ txLevel' \in 0 .. FifoDepth
<1> DEFINE left == m_request.m_capacity - m_request.m_size
<1>1. /\ m_request.m_size \in Nat /\ m_request.m_capacity \in Nat
      /\ left \in Nat
      /\ txLevel \in 0 .. FifoDepth /\ FifoDepth \in Nat
  BY UartAssumption DEF TypeOK, UARTRequest
<1>2. PICK n \in 0 .. left, z \in 0 .. FifoDepth :
        /\ txLevel' = Minimum(FifoDepth, txLevel + n + z)
        /\ m_request' = [m_request EXCEPT !.m_size = @ + n]
        /\ UNCHANGED <<buffer, rxFifo>>
  BY DEF try_write
<1>3. /\ m_request.m_size + n \in Nat
      /\ m_request.m_size + n <= m_request.m_capacity
  BY <1>1, <1>2
<1>4. /\ m_request' \in UARTRequest
      /\ m_request'.m_size <= m_request'.m_capacity
      /\ m_request'.m_is_write_request = m_request.m_is_write_request
  BY <1>1, <1>2, <1>3 DEF TypeOK, UARTRequest
<1>5. txLevel' \in 0 .. FifoDepth
  BY <1>1, <1>2 DEF Minimum
<1>6. QED
  BY <1>2, <1>4, <1>5 DEF TypeOK
-----------------------------------------------------------------------------
(***************************************************************************)
(* The inductive invariant.                                                *)
(***************************************************************************)

\* The direction of a request is one of the two interrupts.
LEMMA DirectionOfRequest == \A r : Direction(r) \in {"RX", "TX"}
BY DEF Direction

\* The invariant holds before the first call.
LEMMA InitEstablishes == Init => UartInv
<1> SUFFICES ASSUME Init PROVE UartInv
  OBVIOUS
<1>1. TypeOK
  <2>1. m_request \in UARTRequest
    BY DEF Init, UARTRequest
  <2>2. txLevel \in 0 .. FifoDepth
    BY UartAssumption DEF Init
  <2>3. <<>> \in Seq(Chars)
    OBVIOUS
  <2>4. QED
    BY <2>1, <2>2, <2>3 DEF Init, TypeOK, Stage
<1>2. is_finished(m_request)
  BY DEF Init, is_finished
<1>3. QED
  BY <1>1, <1>2 DEF Init, UartInv, NoPanic, MaskFollowsRequest, CallerInv

\* The interrupt handler, wherever the caller is.
LEMMA handle_irqPreserves ==
  ASSUME UartInv, handle_irq
  PROVE  UartInv'
<1>1. /\ TypeOK /\ m_request.m_size <= m_request.m_capacity
      /\ panicked' = panicked /\ stage' = stage /\ ~panicked
  BY DEF handle_irq, UartInv, NoPanic
<1>2. /\ m_request' \in UARTRequest
      /\ m_request'.m_size <= m_request'.m_capacity
      /\ m_request'.m_is_write_request = m_request.m_is_write_request
      /\ buffer' \in Seq(Chars)
      /\ rxFifo' \in Seq(Chars)
      /\ txLevel' \in 0 .. FifoDepth
  <2>1. CASE m_request.m_is_write_request
    BY <1>1, <2>1, WriteStaysInside DEF handle_irq
  <2>2. CASE ~m_request.m_is_write_request
    BY <1>1, <2>2, ReadStaysInside DEF handle_irq
  <2>3. QED
    BY <2>1, <2>2
<1>3. Direction(m_request') = Direction(m_request)
  BY <1>2 DEF Direction
<1>4. /\ imsc' = IF is_finished(m_request') THEN imsc \ {Direction(m_request)} ELSE imsc
      /\ uart_pending
  BY DEF handle_irq, enable
<1>5. TypeOK'
  BY <1>1, <1>2, <1>4 DEF TypeOK
<1>6. imsc = {Direction(m_request)} /\ ~is_finished(m_request)
  \* An interrupt was pending, so the mask is not empty.
  <2>1. imsc # {}
    BY <1>4 DEF uart_pending
  <2>2. QED
    BY <2>1 DEF UartInv, MaskFollowsRequest
<1>7. MaskFollowsRequest'
  BY <1>3, <1>4, <1>6 DEF MaskFollowsRequest
<1>8. ASSUME NEW t \in Callers PROVE CallerInv(t)'
  <2>1. CallerInv(t)
    BY DEF UartInv
  <2>2. stage[t] \in {"enabled", "unfinished", "waiting"}
    BY <1>1, <1>6, <2>1 DEF CallerInv, TypeOK, Stage
  <2>3. QED
    BY <1>1, <1>3, <1>4, <1>6, <2>2 DEF CallerInv
<1>9. QED
  BY <1>1, <1>2, <1>5, <1>7, <1>8 DEF UartInv, NoPanic

\* Every step preserves the invariant: one case per action.
LEMMA NextPreserves ==
  ASSUME OneCaller, NoEmptyRequest, UartInv, [Next]_vars
  PROVE  UartInv'
<1> USE DEF UartInv
<1>1. CASE UNCHANGED vars
  BY <1>1 DEF vars, TypeOK, NoPanic, MaskFollowsRequest, CallerInv, is_finished, Direction
<1>2. CASE Drain
  <2>1. txLevel' \in 0 .. FifoDepth
    BY <1>2, UartAssumption DEF Drain, TypeOK
  <2>2. QED
    BY <1>2, <2>1
    DEF Drain, TypeOK, NoPanic, MaskFollowsRequest, CallerInv, is_finished, Direction
<1>3. ASSUME NEW c \in Chars, Arrive(c) PROVE UartInv'
  <2>1. rxFifo' \in Seq(Chars)
    BY <1>3 DEF Arrive, TypeOK
  <2>2. QED
    BY <1>3, <2>1
    DEF Arrive, TypeOK, NoPanic, MaskFollowsRequest, CallerInv, is_finished, Direction
<1>4. CASE handle_irq
  BY <1>4, handle_irqPreserves
<1>5. ASSUME NEW t \in Callers, CallerStep(t) \/ Wake(t) PROVE UartInv'
  \* There is no other caller whose place in its call could be disturbed.
  <2>1. Callers = {t}
    BY DEF OneCaller
  <2>2. CallerInv(t) /\ stage[t] \in Stage /\ ~panicked
    BY DEF TypeOK, NoPanic
  <2>3. ASSUME NEW size \in RequestSizes, NEW isWrite \in BOOLEAN, Call(t, size, isWrite)
        PROVE  UartInv'
    <3>1. is_finished(m_request) /\ imsc = {} /\ ~panicked' /\ stage[t] = "user"
      BY <2>2, <2>3 DEF Call, At, CallerInv, MaskFollowsRequest
    <3>2. size \in Nat /\ size # 0
      BY UartAssumption DEF NoEmptyRequest
    <3>3. /\ m_request' = [m_buf |-> t, m_size |-> 0, m_capacity |-> size,
                           m_is_write_request |-> isWrite]
          /\ buffer' = <<>>
          /\ stage' = [stage EXCEPT ![t] = "created"]
          /\ UNCHANGED <<imsc, rxFifo, txLevel>>
      BY <2>3, <3>1 DEF Call
    <3>4. /\ m_request' \in UARTRequest
          /\ m_request'.m_size <= m_request'.m_capacity
          /\ ~is_finished(m_request')
      BY <3>2, <3>3 DEF UARTRequest, is_finished
    <3>5. TypeOK'
      <4>1. <<>> \in Seq(Chars)
        OBVIOUS
      <4>2. panicked' \in BOOLEAN
        BY <2>3 DEF Call
      <4>3. QED
        BY <3>3, <3>4, <4>1, <4>2 DEF TypeOK, Stage
    <3>6. stage'[t] = "created" /\ imsc' = {}
      BY <3>1, <3>3 DEF TypeOK
    <3>7. QED
      BY <2>1, <3>1, <3>4, <3>5, <3>6 DEF NoPanic, MaskFollowsRequest, CallerInv
  <2>4. CASE enable_irq(t)
    <3>1. /\ ~is_finished(m_request) /\ imsc = {}
          /\ imsc' = {Direction(m_request)}
          /\ stage' = [stage EXCEPT ![t] = "enabled"]
          /\ UNCHANGED <<m_request, buffer, rxFifo, txLevel, panicked>>
      BY <2>2, <2>4 DEF enable_irq, disable, At, CallerInv
    <3>2. TypeOK' /\ stage'[t] = "enabled"
      BY <3>1, DirectionOfRequest DEF TypeOK, Stage
    <3>3. QED
      BY <2>1, <2>2, <3>1, <3>2 DEF NoPanic, MaskFollowsRequest, CallerInv
  <2>5. ASSUME NEW s \in Stage, stage' = [stage EXCEPT ![t] = s],
               UNCHANGED <<m_request, buffer, imsc, rxFifo, txLevel, panicked>>,
               \/ s \in {"user", "woken"} /\ is_finished(m_request)
               \/ /\ s \in {"unfinished", "waiting"}
                  /\ stage[t] \in {"enabled", "unfinished"}
        PROVE  UartInv'
    <3>1. TypeOK' /\ stage'[t] = s
      BY <2>5 DEF TypeOK
    <3>2. MaskFollowsRequest' /\ NoPanic'
      BY <2>2, <2>5 DEF MaskFollowsRequest, NoPanic
    <3>3. CallerInv(t)'
      BY <2>2, <2>5, <3>1 DEF CallerInv
    <3>4. QED
      BY <2>1, <2>5, <3>1, <3>2, <3>3
  <2>6. CASE TestFinished(t)
    BY <2>2, <2>5, <2>6 DEF TestFinished, At, Stage
  <2>7. CASE Wait(t)
    BY <2>2, <2>5, <2>7 DEF Wait, At, Stage
  <2>8. CASE Wake(t)
    BY <2>2, <2>5, <2>8 DEF Wake, GoOn, At, Stage
  <2>9. CASE Return(t)
    <3>1. is_finished(m_request) /\ ~panicked' /\ panicked' = panicked
      BY <2>2, <2>9 DEF Return, At, CallerInv, TypeOK
    <3>2. stage' = [stage EXCEPT ![t] = "user"]
      BY <2>9, <3>1 DEF Return
    <3>3. QED
      BY <2>2, <2>5, <2>9, <3>1, <3>2 DEF Return, At, Stage
  <2>10. QED
    BY <1>5, <2>3, <2>4, <2>6, <2>7, <2>8, <2>9 DEF CallerStep
<1>6. CASE print
  <2>1. txLevel' \in 0 .. FifoDepth
    BY <1>6, UartAssumption DEF print, PolledLevels
  <2>2. QED
    BY <1>6, <2>1
    DEF print, TypeOK, NoPanic, MaskFollowsRequest, CallerInv, is_finished, Direction
<1>7. QED
  BY <1>1, <1>2, <1>3, <1>4, <1>5, <1>6 DEF Next, Device

\* The inductive invariant holds in every reachable state when one task calls and no
\* request is empty: the mask register never lets through an interrupt that the request
\* in progress does not want, and lets through the one it wants from enable_irq() on.
THEOREM UartInvariant ==
  ASSUME OneCaller, NoEmptyRequest
  PROVE  Spec => []UartInv
<1>1. UartInv /\ [Next]_vars => UartInv'
  BY NextPreserves
<1>2. QED
  BY <1>1, InitEstablishes, PTL DEF Spec

\* Neither PANIC_IF of UARTFile::read and UARTFile::write fires, wherever the interrupt
\* handler interrupts the call.
THEOREM UartNeverPanics ==
  ASSUME OneCaller, NoEmptyRequest
  PROVE  Spec => []NoPanic
<1>1. UartInv => NoPanic
  BY DEF UartInv
<1>2. QED
  BY <1>1, UartInvariant, PTL

\* No interrupt storm: every interrupt of the UART moves at least one byte.
THEOREM NoInterruptStorm ==
  ASSUME OneCaller, NoEmptyRequest
  PROVE  Spec => []IrqMakesProgress
<1>1. ASSUME UartInv PROVE IrqMakesProgress
  <2> SUFFICES ASSUME uart_pending PROVE IrqMakesProgress
    BY DEF IrqMakesProgress
  <2>1. imsc # {}
    BY DEF uart_pending
  <2>2. imsc = {Direction(m_request)} /\ ~is_finished(m_request)
    BY <1>1, <2>1 DEF UartInv, MaskFollowsRequest
  <2>3. rxFifo \in Seq(Chars) /\ txLevel \in 0 .. FifoDepth
    BY <1>1 DEF UartInv, TypeOK
  <2>4. CASE m_request.m_is_write_request
    <3>1. TxRaised
      BY <2>2, <2>4 DEF uart_pending, Direction
    <3>2. txLevel < FifoDepth
      BY <2>3, <3>1, UartAssumption DEF TxRaised
    <3>3. QED
      BY <2>2, <2>4, <3>2 DEF IrqMakesProgress
  <2>5. CASE ~m_request.m_is_write_request
    <3>1. RxRaised
      BY <2>2, <2>5 DEF uart_pending, Direction
    <3>2. rxFifo # <<>>
      BY <2>3, <3>1, UartAssumption DEF RxRaised
    <3>3. QED
      BY <2>2, <2>5, <3>2 DEF IrqMakesProgress
  <2>6. QED
    BY <2>4, <2>5
<1>2. QED
  BY <1>1, UartInvariant, PTL
-----------------------------------------------------------------------------
(***************************************************************************)
(* The input, which only a read takes out of the receive FIFO.  Between    *)
(* the calls nothing is taken, because the request is finished then.       *)
(***************************************************************************)
\* While a read is not finished there is a caller in it, and it wants what was asked for.
RequestInv ==
  ~m_request.m_is_write_request /\ ~is_finished(m_request)
    => InRead /\ m_request.m_capacity = asked

InputInv ==
  /\ UartInv
  /\ typed \in Seq(Chars)
  /\ returned \in Seq(Chars)
  /\ RequestInv
  /\ InputInOrder

\* What the characters taken, the line end behind them and the rest make up.
LEMMA CutAtLineEnd ==
  ASSUME NEW S, NEW q \in Seq(S), NEW n \in 0 .. Len(q)
  PROVE  /\ SubSeq(q, 1, n) \o SubSeq(q, n + 1, Len(q)) = q
         /\ n < Len(q) =>
              SubSeq(q, 1, n) \o (<<q[n + 1]>> \o SubSeq(q, n + 2, Len(q))) = q
<1>1. SubSeq(q, 1, n) \o SubSeq(q, n + 1, Len(q)) = q
  <2>1. 1 \in 1 .. Len(q) + 1 /\ n \in 1 - 1 .. Len(q) /\ Len(q) \in n .. Len(q)
    OBVIOUS
  <2>2. SubSeq(q, 1, n) \o SubSeq(q, n + 1, Len(q)) = SubSeq(q, 1, Len(q))
    BY <2>1, ConcatAdjacentSubSeq
  <2>3. QED
    BY <2>2, SubSeqFull
<1>2. ASSUME n < Len(q)
      PROVE  SubSeq(q, n + 1, Len(q)) = <<q[n + 1]>> \o SubSeq(q, n + 2, Len(q))
  <2>1. n + 1 \in 1 .. Len(q) /\ Len(q) \in n + 1 .. Len(q) /\ (n + 1) + 1 = n + 2
    BY <1>2
  <2>2. QED
    BY <2>1, SubSeqRecursiveFirst
<1>3. QED
  BY <1>1, <1>2

\* Concatenation, under a name that hides from the provers what it is made of.
Then(x, y) == x \o y

LEMMA ThenIsAssociative ==
  ASSUME NEW S, NEW x \in Seq(S), NEW y \in Seq(S), NEW z \in Seq(S)
  PROVE  Then(Then(x, y), z) = Then(x, Then(y, z))
BY DEF Then

\* Moving the front of one sequence to the end of another.
LEMMA MoveFront ==
  ASSUME NEW S, NEW a \in Seq(S), NEW b \in Seq(S), NEW f \in Seq(S),
         NEW g \in Seq(S), NEW h \in Seq(S)
  PROVE  Then(Then(a, b), Then(f, Then(g, h))) = Then(Then(a, Then(Then(b, f), g)), h)
<1> DEFINE Q == Seq(S)
<1>1. ASSUME NEW x \in Q, NEW y \in Q
      PROVE  Then(x, y) \in Q
  BY ConcatProperties DEF Then
<1>2. ASSUME NEW x \in Q, NEW y \in Q, NEW z \in Q
      PROVE  Then(Then(x, y), z) = Then(x, Then(y, z))
  BY ThenIsAssociative
<1>3. a \in Q /\ b \in Q /\ f \in Q /\ g \in Q /\ h \in Q
  OBVIOUS
<1> HIDE DEF Q
<1>4. /\ Then(g, h) \in Q /\ Then(b, f) \in Q /\ Then(Then(b, f), g) \in Q
      /\ Then(f, Then(g, h)) \in Q
  BY <1>1, <1>3
<1>5. Then(Then(a, Then(Then(b, f), g)), h) = Then(a, Then(Then(Then(b, f), g), h))
  BY <1>2, <1>3, <1>4
<1>6. Then(Then(Then(b, f), g), h) = Then(Then(b, f), Then(g, h))
  BY <1>2, <1>3, <1>4
<1>7. Then(Then(b, f), Then(g, h)) = Then(b, Then(f, Then(g, h)))
  BY <1>2, <1>3, <1>4
<1>8. Then(Then(a, b), Then(f, Then(g, h))) = Then(a, Then(b, Then(f, Then(g, h))))
  BY <1>2, <1>3, <1>4
<1>9. QED
  BY <1>5, <1>6, <1>7, <1>8

\* A read takes what is in front in the FIFO, and the line end only when it stops there.
LEMMA try_readTakesTheFront ==
  ASSUME UartInv, RequestInv, ~m_request.m_is_write_request, ~is_finished(m_request),
         try_read, UNCHANGED <<stage, asked>>
  PROVE  /\ Taken \in Seq(Chars) /\ Taken' \in Seq(Chars) /\ rxFifo' \in Seq(Chars)
         /\ \A r \in Seq(Chars) : (r \o Taken') \o rxFifo' = (r \o Taken) \o rxFifo
         /\ RequestInv'
         /\ InRead /\ InRead'
<1>1. PICK left \in Nat, n \in Nat, size \in Nat :
        /\ left = m_request.m_capacity - m_request.m_size
        /\ n = Minimum(left, LineLength(rxFifo))
        /\ size = m_request.m_size + n
  <2>1. /\ m_request.m_size \in Nat /\ m_request.m_capacity \in Nat
        /\ m_request.m_size <= m_request.m_capacity /\ rxFifo \in Seq(Chars)
    BY DEF UartInv, TypeOK, UARTRequest
  <2>2. LineLength(rxFifo) \in Nat
    BY <2>1, LineLengthInRange
  <2>3. m_request.m_capacity - m_request.m_size \in Nat
    BY <2>1
  <2>4. Minimum(m_request.m_capacity - m_request.m_size, LineLength(rxFifo)) \in Nat
    BY <2>2, <2>3 DEF Minimum
  <2>5. QED
    BY <2>1, <2>3, <2>4
<1> DEFINE stopped == n < left /\ n < Len(rxFifo)
           front == SubSeq(rxFifo, 1, n)
           end == IF stopped THEN <<Break>> ELSE <<>>
<1>2. /\ m_request' = [m_request EXCEPT
                         !.m_size = size,
                         !.m_capacity = IF stopped THEN size ELSE @]
      /\ buffer' = buffer \o front
      /\ rxFifo' = SubSeq(rxFifo, (IF stopped THEN n + 1 ELSE n) + 1, Len(rxFifo))
  BY <1>1 DEF try_read
<1>3. /\ rxFifo \in Seq(Chars) /\ buffer \in Seq(Chars) /\ Len(rxFifo) \in Nat
      /\ m_request.m_size \in Nat /\ m_request.m_capacity \in Nat
      /\ m_request.m_size <= m_request.m_capacity
      /\ m_request \in UARTRequest
  BY DEF UartInv, TypeOK, UARTRequest
<1>4. InRead /\ m_request.m_capacity = asked
  BY DEF RequestInv
<1>5. m_request'.m_is_write_request = m_request.m_is_write_request /\ InRead'
  BY <1>2, <1>3, <1>4 DEF InRead, UARTRequest
<1>6. n <= Len(rxFifo) /\ n <= left /\ (stopped => rxFifo[n + 1] = Break)
  <2>1. /\ LineLength(rxFifo) \in 0 .. Len(rxFifo)
        /\ LineLength(rxFifo) < Len(rxFifo) => rxFifo[LineLength(rxFifo) + 1] = Break
    BY <1>3, LineLengthInRange
  <2>2. n <= LineLength(rxFifo) /\ n <= left /\ (n < left => n = LineLength(rxFifo))
    BY <1>1, <2>1 DEF Minimum
  <2>3. QED
    BY <1>3, <2>1, <2>2
<1>7. rxFifo = front \o (end \o rxFifo')
  <2>1. n \in 0 .. Len(rxFifo)
    BY <1>3, <1>6
  <2>2. CASE stopped
    <3>1. rxFifo' = SubSeq(rxFifo, n + 2, Len(rxFifo)) /\ end = <<Break>>
      <4>1. (IF stopped THEN n + 1 ELSE n) + 1 = n + 2
        BY <2>2
      <4>2. end = <<Break>>
        BY <2>2
      <4>3. QED
        BY <1>2, <4>1, <4>2, Zenon
    <3>2. front \o (<<rxFifo[n + 1]>> \o SubSeq(rxFifo, n + 2, Len(rxFifo))) = rxFifo
      <4>1. rxFifo \in Seq(Chars) /\ n < Len(rxFifo)
        BY <1>3, <2>2
      <4>2. QED
        BY <2>1, <4>1, CutAtLineEnd
    <3>3. rxFifo[n + 1] = Break
      BY <1>6, <2>2
    <3> HIDE DEF front, end, stopped
    <3>4. QED
      BY <3>1, <3>2, <3>3, Zenon
  <2>3. CASE ~stopped
    <3>1. rxFifo' = SubSeq(rxFifo, n + 1, Len(rxFifo)) /\ end = <<>>
      <4>1. (IF stopped THEN n + 1 ELSE n) + 1 = n + 1
        BY <2>3
      <4>2. end = <<>>
        BY <2>3
      <4>3. QED
        BY <1>2, <4>1, <4>2, Zenon
    <3>2. rxFifo' \in Seq(Chars)
      BY <1>3, <2>1, <3>1, SuffixIsSequence
    <3>3. end \o rxFifo' = rxFifo'
      BY <3>1, <3>2, ConcatEmptySeq
    <3>4. QED
      BY <1>3, <2>1, <3>1, <3>3, CutAtLineEnd
  <2>4. QED
    BY <2>2, <2>3
<1>8. front \in Seq(Chars) /\ end \in Seq(Chars) /\ rxFifo' \in Seq(Chars)
  <2>1. \A k \in 1 .. n : rxFifo[k] \in Chars
    BY <1>3, <1>6
  <2>2. front \in Seq(Chars)
    BY <2>1, SubSeqProperties
  <2>3. end \in Seq(Chars)
    BY UartAssumption
  <2>4. (IF stopped THEN n + 1 ELSE n) + 1 \in 1 .. Len(rxFifo) + 1
    BY <1>3, <1>6
  <2>5. rxFifo' \in Seq(Chars)
    BY <1>2, <1>3, <2>4, SuffixIsSequence
  <2>6. QED
    BY <2>2, <2>3, <2>5
<1>9. Taken = buffer
  <2>1. Taken = buffer \o <<>>
    BY DEF Taken
  <2>2. QED
    BY <1>3, <2>1, ConcatEmptySeq
<1>10. /\ m_request'.m_size = size
       /\ m_request'.m_capacity = IF stopped THEN size ELSE asked
  BY <1>2, <1>3, <1>4 DEF UARTRequest
<1>11. /\ is_finished(m_request') /\ m_request'.m_size < asked <=> stopped
       /\ ~is_finished(m_request') => m_request'.m_capacity = asked
  <2>1. CASE stopped
    <3>1. size < asked
      BY <1>1, <1>3, <1>4, <2>1
    <3>2. QED
      BY <1>10, <2>1, <3>1 DEF is_finished
  <2>2. CASE ~stopped
    <3>1. size <= asked /\ asked \in Nat
      BY <1>1, <1>3, <1>4, <1>6
    <3>2. QED
      BY <1>10, <2>2, <3>1 DEF is_finished
  <2>3. QED
    BY <2>1, <2>2
<1>12. Taken' = (buffer \o front) \o end
  <2>1. asked' = asked
    OBVIOUS
  <2>2. QED
    BY <1>2, <1>11, <2>1 DEF Taken
<1>13. RequestInv'
  BY <1>5, <1>11 DEF RequestInv
<1> HIDE DEF front, end, stopped
<1>14. Taken' \in Seq(Chars)
  <2>1. buffer \o front \in Seq(Chars)
    BY <1>3, <1>8, ConcatProperties
  <2>2. QED
    BY <1>8, <1>12, <2>1, ConcatProperties
<1>15. ASSUME NEW r \in Seq(Chars)
       PROVE  (r \o Taken') \o rxFifo' = (r \o Taken) \o rxFifo
  <2>1. Then(Then(r, buffer), Then(front, Then(end, rxFifo')))
          = Then(Then(r, Then(Then(buffer, front), end)), rxFifo')
    BY <1>3, <1>8, MoveFront
  <2>2. (r \o buffer) \o (front \o (end \o rxFifo'))
          = (r \o ((buffer \o front) \o end)) \o rxFifo'
    BY <2>1, Zenon DEF Then
  <2>3. QED
    BY <1>7, <1>9, <1>12, <2>2
<1>16. QED
  BY <1>3, <1>4, <1>5, <1>8, <1>9, <1>13, <1>14, <1>15

\* The history only observes: a step of MCUart is a step of the driver.
LEMMA ObservesOnly == [MCNext]_allVars => [Next]_vars
<1>1. CASE UNCHANGED allVars
  BY <1>1 DEF allVars, vars
<1>2. CASE MCNext
  BY <1>2 DEF MCNext, Next, Device, CallerStep
<1>3. QED
  BY <1>1, <1>2

\* What the read in progress has taken is a sequence of characters.
LEMMA TakenIsSequence ==
  ASSUME UartInv
  PROVE  Taken \in Seq(Chars)
<1>1. buffer \in Seq(Chars) /\ <<Break>> \in Seq(Chars) /\ <<>> \in Seq(Chars)
  BY UartAssumption DEF UartInv, TypeOK
<1>2. CASE is_finished(m_request) /\ m_request.m_size < asked
  <2>1. Taken = buffer \o <<Break>>
    BY <1>2 DEF Taken
  <2>2. QED
    BY <1>1, <2>1, ConcatProperties
<1>3. CASE ~(is_finished(m_request) /\ m_request.m_size < asked)
  <2>1. Taken = buffer \o <<>>
    BY <1>3 DEF Taken
  <2>2. QED
    BY <1>1, <2>1, ConcatProperties
<1>4. QED
  BY <1>2, <1>3

\* A step that leaves the request and the FIFO alone, and starts and ends no read.
LEMMA ElsewherePreserves ==
  ASSUME InputInv, UartInv',
         UNCHANGED <<m_request, buffer, rxFifo, typed, returned, asked>>, InRead' = InRead
  PROVE  InputInv'
<1>1. Taken' = Taken /\ RequestInv'
  BY DEF InputInv, RequestInv, Taken, is_finished
<1>2. InputInOrder'
  BY <1>1 DEF InputInv, InputInOrder
<1>3. QED
  BY <1>1, <1>2 DEF InputInv

\* The interrupt handler.
LEMMA handle_irqKeepsInput ==
  ASSUME InputInv, UartInv', handle_irq, UNCHANGED history
  PROVE  InputInv'
<1>1. UNCHANGED <<stage, typed, returned, asked>>
  BY DEF handle_irq, history
<1>2. CASE m_request.m_is_write_request
  <2>1. try_write
    BY <1>2 DEF handle_irq
  <2>2. m_request'.m_is_write_request
    BY <1>2, <2>1, WriteStaysInside DEF InputInv, UartInv
  <2>3. ~InRead /\ ~InRead' /\ rxFifo' = rxFifo
    BY <1>2, <2>1, <2>2 DEF InRead, try_write
  <2>4. InputInOrder' /\ RequestInv'
    BY <1>1, <2>2, <2>3 DEF InputInv, InputInOrder, RequestInv
  <2>5. QED
    BY <1>1, <2>4 DEF InputInv
<1>3. CASE ~m_request.m_is_write_request
  <2>1. try_read /\ uart_pending
    BY <1>3 DEF handle_irq
  <2>2. ~is_finished(m_request)
    BY <2>1 DEF uart_pending, InputInv, UartInv, MaskFollowsRequest
  <2>3. UartInv /\ RequestInv /\ returned \in Seq(Chars)
    BY DEF InputInv
  <2>4. /\ (returned \o Taken') \o rxFifo' = (returned \o Taken) \o rxFifo
        /\ RequestInv' /\ InRead /\ InRead'
    BY <1>1, <1>3, <2>1, <2>2, <2>3, try_readTakesTheFront
  <2>5. typed = (returned \o Taken) \o rxFifo
    BY <2>4 DEF InputInv, InputInOrder
  <2>6. typed' = (returned' \o Taken') \o rxFifo'
    BY <1>1, <2>4, <2>5
  <2>7. InputInOrder'
    BY <2>4, <2>6 DEF InputInOrder
  <2>8. QED
    BY <1>1, <2>4, <2>7 DEF InputInv
<1>4. QED
  BY <1>2, <1>3

\* A character that arrives is behind all that was typed before.
LEMMA ArriveKeepsInput ==
  ASSUME InputInv, UartInv', NEW c \in Chars, Arrive(c),
         typed' = Append(typed, c), UNCHANGED <<returned, asked>>
  PROVE  InputInv'
<1> DEFINE before == returned \o (IF InRead THEN Taken ELSE <<>>)
<1>1. UNCHANGED <<stage, m_request, buffer>> /\ rxFifo' = Append(rxFifo, c)
  BY DEF Arrive
<1>2. before' = before /\ RequestInv'
  BY <1>1 DEF InputInv, RequestInv, Taken, InRead, is_finished
<1>3. before \in Seq(Chars)
  <2>1. returned \in Seq(Chars) /\ Taken \in Seq(Chars) /\ <<>> \in Seq(Chars)
    BY TakenIsSequence DEF InputInv
  <2>2. CASE InRead
    BY <2>1, <2>2, ConcatProperties
  <2>3. CASE ~InRead
    BY <2>1, <2>3, ConcatProperties
  <2>4. QED
    BY <2>2, <2>3
<1>4. typed = before \o rxFifo /\ typed \in Seq(Chars) /\ rxFifo \in Seq(Chars)
  BY DEF InputInv, UartInv, TypeOK, InputInOrder
<1> HIDE DEF before
<1>5. (before \o rxFifo) \o <<c>> = before \o (rxFifo \o <<c>>)
  <2> DEFINE last == <<c>>
  <2>1. before \in Seq(Chars) /\ rxFifo \in Seq(Chars) /\ last \in Seq(Chars)
    BY <1>3, <1>4
  <2> HIDE DEF last
  <2>2. Then(Then(before, rxFifo), last) = Then(before, Then(rxFifo, last))
    BY <2>1, ThenIsAssociative
  <2>3. QED
    BY <2>2, Zenon DEF Then, last
<1>6. typed' = before' \o rxFifo' /\ typed' \in Seq(Chars)
  <2>1. typed' = typed \o <<c>> /\ rxFifo' = rxFifo \o <<c>>
    BY <1>1, <1>4, AppendIsConcat
  <2>2. typed' \in Seq(Chars)
    BY <1>4
  <2>3. QED
    BY <1>2, <1>4, <1>5, <2>1, <2>2
<1>7. InputInOrder'
  BY <1>6 DEF InputInOrder, before
<1>8. QED
  BY <1>2, <1>6, <1>7 DEF InputInv

\* A call starts with nothing taken.
LEMMA CallKeepsInput ==
  ASSUME OneCaller, NoEmptyRequest, InputInv, UartInv',
         NEW t \in Callers, NEW size \in RequestSizes, NEW isWrite \in BOOLEAN,
         Call(t, size, isWrite), asked' = size, UNCHANGED <<typed, returned>>
  PROVE  InputInv'
<1>1. Callers = {t}
  BY DEF OneCaller
<1>2. /\ stage[t] = "user" /\ ~panicked'
      /\ m_request' = [m_buf |-> t, m_size |-> 0, m_capacity |-> size,
                       m_is_write_request |-> isWrite]
      /\ buffer' = <<>> /\ rxFifo' = rxFifo
  <2>1. ~panicked'
    BY DEF UartInv, NoPanic
  <2>2. QED
    BY <2>1 DEF Call, At
<1>3. ~InRead
  BY <1>1, <1>2 DEF InRead
<1>4. ~is_finished(m_request')
  BY <1>2, UartAssumption DEF NoEmptyRequest, is_finished
<1>5. InRead' <=> ~isWrite
  <2>1. stage'[t] # "user"
    BY <1>1, <1>4 DEF UartInv, CallerInv
  <2>2. QED
    BY <1>2, <2>1 DEF InRead
<1>6. RequestInv'
  BY <1>2, <1>5 DEF RequestInv
<1>7. Taken' = <<>>
  BY <1>2, <1>4 DEF Taken
<1>8. InputInOrder'
  BY <1>2, <1>3, <1>7 DEF InputInv, InputInOrder
<1>9. QED
  BY <1>6, <1>8 DEF InputInv

\* A return hands over what the read has taken.
LEMMA ReturnKeepsInput ==
  ASSUME OneCaller, InputInv, UartInv', NEW t \in Callers, Return(t),
         returned' = IF InRead THEN returned \o Taken ELSE returned,
         UNCHANGED <<typed, asked>>
  PROVE  InputInv'
<1>1. Callers = {t}
  BY DEF OneCaller
<1>2. /\ UNCHANGED <<m_request, buffer, rxFifo>> /\ stage'[t] = "user"
      /\ is_finished(m_request)
  <2>1. ~panicked' /\ stage \in [Callers -> Stage]
    BY DEF InputInv, UartInv, NoPanic, TypeOK
  <2>2. QED
    BY <2>1 DEF Return
<1>3. ~InRead' /\ RequestInv'
  BY <1>1, <1>2 DEF InRead, RequestInv, is_finished
<1>4. /\ returned \in Seq(Chars) /\ Taken \in Seq(Chars) /\ rxFifo \in Seq(Chars)
      /\ typed \in Seq(Chars)
  BY TakenIsSequence DEF InputInv, UartInv, TypeOK
<1>5. returned' \in Seq(Chars)
  BY <1>4, ConcatProperties
<1>6. returned' = returned \o (IF InRead THEN Taken ELSE <<>>)
  <2>1. CASE InRead
    BY <2>1
  <2>2. CASE ~InRead
    BY <1>4, <2>2, ConcatEmptySeq
  <2>3. QED
    BY <2>1, <2>2
<1>7. returned' \o <<>> = returned'
  BY <1>5, ConcatEmptySeq
<1>8. InputInOrder'
  BY <1>2, <1>3, <1>6, <1>7 DEF InputInv, InputInOrder
<1>9. QED
  BY <1>3, <1>4, <1>5, <1>8 DEF InputInv

\* Every step of the driver, one case per action.
LEMMA MCNextPreserves ==
  ASSUME OneCaller, NoEmptyRequest, InputInv, [MCNext]_allVars
  PROVE  InputInv'
<1>1. UartInv'
  BY ObservesOnly, NextPreserves DEF InputInv
<1>2. CASE UNCHANGED allVars
  <2>1. InRead' = InRead
    BY <1>2 DEF allVars, vars, InRead
  <2>2. QED
    BY <1>1, <1>2, <2>1, ElsewherePreserves DEF allVars, vars, history
<1>3. CASE (Drain \/ print) /\ UNCHANGED history
  <2>1. UNCHANGED <<stage, m_request, buffer, rxFifo, typed, returned, asked>>
    BY <1>3 DEF Drain, print, history
  <2>2. InRead' = InRead
    BY <2>1 DEF InRead
  <2>3. QED
    BY <1>1, <2>1, <2>2, ElsewherePreserves
<1>4. CASE handle_irq /\ UNCHANGED history
  BY <1>1, <1>4, handle_irqKeepsInput
<1>5. ASSUME NEW c \in Chars, Arrive(c), typed' = Append(typed, c),
             UNCHANGED <<returned, asked>>
      PROVE  InputInv'
  BY <1>1, <1>5, ArriveKeepsInput
<1>6. ASSUME NEW t \in Callers, NEW size \in RequestSizes, NEW isWrite \in BOOLEAN,
             Call(t, size, isWrite), asked' = size, UNCHANGED <<typed, returned>>
      PROVE  InputInv'
  BY <1>1, <1>6, CallKeepsInput
<1>7. ASSUME NEW t \in Callers, Return(t), UNCHANGED <<typed, asked>>,
             returned' = IF InRead THEN returned \o Taken ELSE returned
      PROVE  InputInv'
  BY <1>1, <1>7, ReturnKeepsInput
<1>8. ASSUME NEW t \in Callers, UNCHANGED history,
             enable_irq(t) \/ TestFinished(t) \/ Wait(t) \/ Wake(t)
      PROVE  InputInv'
  <2>1. UNCHANGED <<m_request, buffer, rxFifo, typed, returned, asked>>
    BY <1>8 DEF enable_irq, TestFinished, Wait, Wake, GoOn, history
  <2>2. stage[t] # "user" /\ stage'[t] # "user"
    <3>1. stage \in [Callers -> Stage]
      BY DEF InputInv, UartInv, TypeOK
    <3>2. QED
      BY <1>8, <3>1 DEF enable_irq, TestFinished, Wait, Wake, GoOn, At
  <2>3. InRead' = InRead
    BY <2>1, <2>2 DEF InRead
  <2>4. QED
    BY <1>1, <2>1, <2>3, ElsewherePreserves
<1>9. QED
  BY <1>2, <1>3, <1>4, <1>5, <1>6, <1>7, <1>8 DEF MCNext

\* Nothing is typed at the start.
LEMMA MCInitEstablishes == MCInit => InputInv
<1> SUFFICES ASSUME MCInit PROVE InputInv
  OBVIOUS
<1>1. UartInv
  BY InitEstablishes DEF MCInit
<1>2. is_finished(m_request) /\ ~InRead
  BY DEF MCInit, Init, is_finished, InRead
<1>3. <<>> \in Seq(Chars) /\ <<>> \o <<>> = <<>>
  OBVIOUS
<1>4. typed = <<>> /\ returned = <<>> /\ rxFifo = <<>>
  BY DEF MCInit, Init
<1>5. InputInOrder
  <2>1. typed = (returned \o <<>>) \o rxFifo
    BY <1>3, <1>4
  <2>2. QED
    BY <1>2, <2>1 DEF InputInOrder
<1>6. QED
  BY <1>1, <1>2, <1>3, <1>4, <1>5 DEF InputInv, RequestInv

\* Input is neither lost, nor duplicated, nor reordered, however the receive interrupt
\* and the caller interleave: what was typed is what the reads returned, each short one
\* followed by the line end that ended it, then what the read in progress has taken,
\* then what waits in the FIFO.
THEOREM NoInputIsLost ==
  ASSUME OneCaller, NoEmptyRequest
  PROVE  MCSpec => []InputInOrder
<1>1. InputInv /\ [MCNext]_allVars => InputInv'
  BY MCNextPreserves
<1>2. InputInv => InputInOrder
  BY DEF InputInv
<1>3. QED
  BY <1>1, <1>2, MCInitEstablishes, PTL DEF MCSpec
=============================================================================
