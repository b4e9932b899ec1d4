-------------------------------- MODULE Uart --------------------------------
(***************************************************************************)
(* The UART driver (kernel/device/pl011/uart.cpp): the one UARTRequest the *)
(* kernel has, the interrupt mask register it drives, and the two calls    *)
(* UARTFile::read and UARTFile::write.                                     *)
(*                                                                         *)
(* A call replaces the request, unmasks the interrupt of its direction and *)
(* sleeps until the interrupt handler has moved all its bytes.  The calls  *)
(* run with interrupts enabled, so the handler may run between any two of  *)
(* their steps.  How a sleeping caller is woken is the scheduler's         *)
(* business: here it is the action Wake, which module Kernel replaces.     *)
(***************************************************************************)
EXTENDS Integers, Sequences

CONSTANTS
  Callers,       \* the tasks that call UARTFile::read and UARTFile::write
  NoBuffer,      \* m_buf of the request before any call
  RequestSizes,  \* the sizes they pass
  Chars,         \* what may arrive on the line
  Break,         \* the character that ends a line: '\n' or '\r'
  FifoDepth,     \* entries of the receive and of the transmit FIFO
  RxTrigger,     \* receive FIFO level from which the interrupt is raised
  TxTrigger      \* transmit FIFO level up to which the interrupt is raised

ASSUME UartAssumption ==
  /\ NoBuffer \notin Callers
  /\ RequestSizes \subseteq Nat
  /\ Break \in Chars
  /\ FifoDepth \in Nat \ {0}
  /\ RxTrigger \in 1 .. FifoDepth
  /\ TxTrigger \in 0 .. FifoDepth - 1

VARIABLES
  stage,      \* where every caller is in UARTFile::read or UARTFile::write
  m_request,  \* uart_request()
  buffer,     \* what a read request has put at m_buf so far
  imsc,       \* the interrupts that are let through (RXIM, TXIM)
  rxFifo,     \* receive FIFO
  txLevel,    \* number of entries of the transmit FIFO
  panicked    \* a PANIC_IF fired: the kernel has halted

vars == <<stage, m_request, buffer, imsc, rxFifo, txLevel, panicked>>

Stage == {"user", "created", "enabled", "unfinished", "waiting", "woken"}
UARTRequest ==
  [m_buf : Callers \cup {NoBuffer}, m_size : Nat, m_capacity : Nat,
   m_is_write_request : BOOLEAN]

is_finished(r) == r.m_size = r.m_capacity

Direction(r) == IF r.m_is_write_request THEN "TX" ELSE "RX"

Minimum(a, b) == IF a <= b THEN a ELSE b
-----------------------------------------------------------------------------
(***************************************************************************)
(* The device.  Clearing an interrupt through ICR has no effect (the code  *)
(* writes zeroes), and set_read_irq and set_write_irq drop the value they  *)
(* compute, so both interrupts follow the FIFO levels at fixed triggers.   *)
(***************************************************************************)
RxRaised == Len(rxFifo) >= RxTrigger
TxRaised == txLevel <= TxTrigger

\* InterruptMask<RXIM, RXIM> and <TXIM, TXIM>: enable masks an interrupt, and disable
\* lets it through.  enable_read_irq and enable_write_irq use disable.
enable(direction) == imsc \ {direction}
disable(direction) == imsc \cup {direction}

uart_pending == ("RX" \in imsc /\ RxRaised) \/ ("TX" \in imsc /\ TxRaised)

\* A character arrives; the device drops it if the FIFO is full.
Arrive(c) ==
  /\ ~panicked
  /\ Len(rxFifo) < FifoDepth
  /\ rxFifo' = Append(rxFifo, c)
  /\ UNCHANGED <<stage, m_request, buffer, imsc, txLevel, panicked>>

\* The device sends a character.
Drain ==
  /\ ~panicked
  /\ txLevel > 0
  /\ txLevel' = txLevel - 1
  /\ UNCHANGED <<stage, m_request, buffer, imsc, rxFifo, panicked>>
-----------------------------------------------------------------------------
(***************************************************************************)
(* UARTRequest::handle_irq, with interrupts masked.                        *)
(***************************************************************************)

\* Number of characters in front of the first line end.
LineLength(q) ==
  CHOOSE n \in 0 .. Len(q) :
    /\ \A i \in 1 .. n : q[i] # Break
    /\ n < Len(q) => q[n + 1] = Break

\* Mutants of try_read: it takes a character for which there is no room; a line end does
\* not end the request.
try_readOneTooMany ==
  LET left == m_request.m_capacity - m_request.m_size
      n == Minimum(left, LineLength(rxFifo))
      taken == IF n < Len(rxFifo) THEN n + 1 ELSE n
      size == m_request.m_size + n
  IN
  /\ m_request' = [m_request EXCEPT
                     !.m_size = size,
                     !.m_capacity = IF taken > n THEN size ELSE @]
  /\ buffer' = buffer \o SubSeq(rxFifo, 1, n)
  /\ rxFifo' = SubSeq(rxFifo, taken + 1, Len(rxFifo))
  /\ txLevel' = Minimum(FifoDepth, txLevel + taken)
try_readNoStop ==
  LET left == m_request.m_capacity - m_request.m_size
      n == Minimum(left, LineLength(rxFifo))
      taken == IF n < left /\ n < Len(rxFifo) THEN n + 1 ELSE n
  IN
  /\ m_request' = [m_request EXCEPT !.m_size = @ + n]
  /\ buffer' = buffer \o SubSeq(rxFifo, 1, n)
  /\ rxFifo' = SubSeq(rxFifo, taken + 1, Len(rxFifo))
  /\ txLevel' = Minimum(FifoDepth, txLevel + taken)

\* fill_from_uart() for a read: take what is there, up to the size asked for; a line
\* end is taken but not stored, and ends the request.  Every character taken is
\* echoed, and poll_put waits for room.
try_read ==
  LET left == m_request.m_capacity - m_request.m_size
      n == Minimum(left, LineLength(rxFifo))
      stopped == n < left /\ n < Len(rxFifo)
      taken == IF stopped THEN n + 1 ELSE n
      size == m_request.m_size + n
  IN
  /\ m_request' = [m_request EXCEPT
                     !.m_size = size,
                     !.m_capacity = IF stopped THEN size ELSE @]
  /\ buffer' = buffer \o SubSeq(rxFifo, 1, n)
  /\ rxFifo' = SubSeq(rxFifo, taken + 1, Len(rxFifo))
  /\ txLevel' = Minimum(FifoDepth, txLevel + taken)

\* fill_from_uart() for a write: put bytes until none is left or the FIFO is full.  Of
\* the n bytes put, z are '\n' and take a second entry, for which there may be no room.
try_write ==
  LET left == m_request.m_capacity - m_request.m_size IN
  \E n \in 0 .. left, z \in 0 .. FifoDepth :
    /\ z <= n
    /\ txLevel' = Minimum(FifoDepth, txLevel + n + z)
    /\ n = left \/ txLevel' = FifoDepth
    /\ n > 0 => txLevel + (n - 1) + (IF z > 0 THEN z - 1 ELSE 0) < FifoDepth
    /\ m_request' = [m_request EXCEPT !.m_size = @ + n]
    /\ UNCHANGED <<buffer, rxFifo>>

\* Mutants of handle_irq: the mask is left alone; it is dropped before the end.
handle_irqKeepsMask ==
  /\ ~panicked
  /\ uart_pending
  /\ IF m_request.m_is_write_request THEN try_write ELSE try_read
  /\ UNCHANGED <<imsc, stage, panicked>>
handle_irqDropsMask ==
  /\ ~panicked
  /\ uart_pending
  /\ IF m_request.m_is_write_request THEN try_write ELSE try_read
  /\ imsc' = imsc \ {Direction(m_request)}
  /\ UNCHANGED <<stage, panicked>>

\* Every byte there is or there is room for is moved; once all have moved, the
\* interrupt is masked.
handle_irq ==
  /\ ~panicked
  /\ uart_pending
  /\ IF m_request.m_is_write_request THEN try_write ELSE try_read
  /\ imsc' = IF is_finished(m_request') THEN enable(Direction(m_request)) ELSE imsc
  /\ UNCHANGED <<stage, panicked>>
-----------------------------------------------------------------------------
(***************************************************************************)
(* UARTFile::read and UARTFile::write, called by task t.                   *)
(***************************************************************************)
At(t, s) == ~panicked /\ stage[t] = s

\* PANIC_IF(!request.is_finished()), then the new request takes the place of the old.
Call(t, size, isWrite) ==
  /\ At(t, "user")
  /\ panicked' = ~is_finished(m_request)
  /\ IF panicked'
     THEN UNCHANGED <<stage, m_request, buffer>>
     ELSE /\ m_request' = [m_buf |-> t, m_size |-> 0, m_capacity |-> size,
                           m_is_write_request |-> isWrite]
          /\ buffer' = <<>>
          /\ stage' = [stage EXCEPT ![t] = "created"]
  /\ UNCHANGED <<imsc, rxFifo, txLevel>>

\* Mutant: always the receive interrupt.
enable_irqReadOnly(t) ==
  /\ At(t, "created")
  /\ imsc' = imsc \cup {"RX"}
  /\ stage' = [stage EXCEPT ![t] = "enabled"]
  /\ UNCHANGED <<m_request, buffer, rxFifo, txLevel, panicked>>

enable_irq(t) ==
  /\ At(t, "created")
  /\ imsc' = disable(Direction(m_request))
  /\ stage' = [stage EXCEPT ![t] = "enabled"]
  /\ UNCHANGED <<m_request, buffer, rxFifo, txLevel, panicked>>

\* if (!request.is_finished())
TestFinished(t) ==
  /\ At(t, "enabled")
  /\ stage' = [stage EXCEPT ![t] =
                 IF is_finished(m_request) THEN "woken" ELSE "unfinished"]
  /\ UNCHANGED <<m_request, buffer, imsc, rxFifo, txLevel, panicked>>

\* reschedule_while_waiting_for(request): by now the request may be finished.
Wait(t) ==
  /\ At(t, "unfinished")
  /\ stage' = [stage EXCEPT ![t] = "waiting"]
  /\ UNCHANGED <<m_request, buffer, imsc, rxFifo, txLevel, panicked>>

\* The caller goes on behind reschedule_while_waiting_for.
GoOn(t) ==
  /\ At(t, "waiting")
  /\ stage' = [stage EXCEPT ![t] = "woken"]
  /\ UNCHANGED <<m_request, buffer, imsc, rxFifo, txLevel, panicked>>

\* What the driver relies on: the scheduler lets it go on only when it is finished.
Wake(t) == is_finished(m_request) /\ GoOn(t)

\* PANIC_IF(!request.is_finished()) again, then the size is returned.
Return(t) ==
  /\ At(t, "woken")
  /\ panicked' = ~is_finished(m_request)
  /\ stage' = IF panicked' THEN stage ELSE [stage EXCEPT ![t] = "user"]
  /\ UNCHANGED <<m_request, buffer, imsc, rxFifo, txLevel>>
-----------------------------------------------------------------------------
(***************************************************************************)
(* What the kernel itself prints, also while a caller sleeps: about a      *)
(* system call it does not know, and about a task that exits.  Both run    *)
(* with interrupts masked, so no handler sees the register in between.     *)
(***************************************************************************)
\* Levels after poll_write: poll_put waits for room for each character, while the device
\* goes on sending.
PolledLevels == 1 .. FifoDepth

\* UARTPrinter::print: TXIM is masked, and the register is put back as it was found.
print ==
  /\ ~panicked
  /\ txLevel' \in PolledLevels
  /\ UNCHANGED <<stage, m_request, buffer, imsc, rxFifo, panicked>>
-----------------------------------------------------------------------------
Init ==
  /\ stage = [t \in Callers |-> "user"]
  /\ m_request = [m_buf |-> NoBuffer, m_size |-> 0, m_capacity |-> 0,
                  m_is_write_request |-> FALSE]
  /\ buffer = <<>>
  /\ imsc = {}
  /\ rxFifo = <<>>
  /\ txLevel = 0
  /\ panicked = FALSE

\* A step of the caller t up to the point where it sleeps, and after it.
CallerStep(t) ==
  \/ \E size \in RequestSizes, isWrite \in BOOLEAN : Call(t, size, isWrite)
  \/ enable_irq(t)
  \/ TestFinished(t)
  \/ Wait(t)
  \/ Return(t)

Device == Drain \/ \E c \in Chars : Arrive(c)

Next ==
  \/ Device
  \/ handle_irq
  \/ print
  \/ \E t \in Callers : CallerStep(t) \/ Wake(t)

Spec == Init /\ [][Next]_vars
-----------------------------------------------------------------------------
TypeOK ==
  /\ stage \in [Callers -> Stage]
  /\ m_request \in UARTRequest
  /\ buffer \in Seq(Chars)
  /\ imsc \subseteq {"RX", "TX"}
  /\ rxFifo \in Seq(Chars)
  /\ txLevel \in 0 .. FifoDepth
  /\ panicked \in BOOLEAN

\* Neither PANIC_IF of UARTFile::read and UARTFile::write fires: a request is not
\* replaced before its bytes have moved, and no caller goes on before that.
NoPanic == ~panicked

\* No interrupt finds handle_irq with nothing to do, neither bytes to move nor a mask
\* bit to drop: such an interrupt is raised again as soon as the handler returns, and
\* the CPU never gets to anything else.  "we don't want any more IRQs (after returning
\* from this IRQ) being raised that simply return when we handle it" (handle_irq).
IrqMakesProgress ==
  uart_pending =>
    \/ is_finished(m_request) /\ Direction(m_request) \in imsc
    \/ /\ ~is_finished(m_request)
       /\ IF m_request.m_is_write_request THEN txLevel < FifoDepth ELSE rxFifo # <<>>

(***************************************************************************)
(* The inductive invariant behind the properties above.  It holds when     *)
(* there is one caller, as in the kernel that ships, and no request is     *)
(* empty: an empty one is finished before its interrupt is unmasked.       *)
(***************************************************************************)
OneCaller == \A t, u \in Callers : t = u
NoEmptyRequest == 0 \notin RequestSizes

\* The mask register follows the request.
MaskFollowsRequest ==
  IF is_finished(m_request) THEN imsc = {} ELSE imsc \subseteq {Direction(m_request)}

\* What the caller t can rely on at every point of its call.
CallerInv(t) ==
  /\ stage[t] \in {"user", "woken"} => is_finished(m_request)
  /\ stage[t] = "created" => ~is_finished(m_request) /\ imsc = {}
  /\ stage[t] \in {"enabled", "unfinished", "waiting"} /\ ~is_finished(m_request)
       => imsc = {Direction(m_request)}

UartInv ==
  /\ TypeOK
  /\ NoPanic
  /\ m_request.m_size <= m_request.m_capacity
  /\ MaskFollowsRequest
  /\ \A t \in Callers : CallerInv(t)
=============================================================================
