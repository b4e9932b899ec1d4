------------------------------- MODULE MCUart -------------------------------
(***************************************************************************)
(* Module Uart with history variables that record what was typed and what  *)
(* the read calls returned.  They observe the driver and restrict only the *)
(* number of characters typed.                                             *)
(***************************************************************************)
EXTENDS Uart

CONSTANT MaxTyped  \* bound on the number of characters that arrive

VARIABLES
  typed,     \* every character that the receive FIFO accepted
  returned,  \* what the reads returned so far, with the line ends they saw
  asked      \* size passed to the call in progress

history == <<typed, returned, asked>>
allVars == <<vars, history>>

\* What the read in progress has taken: its buffer, and the line end behind it if the
\* request ended early.
Taken ==
  buffer \o IF is_finished(m_request) /\ m_request.m_size < asked
            THEN <<Break>> ELSE <<>>

InRead == ~m_request.m_is_write_request /\ \E t \in Callers : stage[t] # "user"

MCInit == Init /\ typed = <<>> /\ returned = <<>> /\ asked = 0

MCNext ==
  \/ /\ Drain \/ handle_irq \/ print
     /\ UNCHANGED history
  \/ \E c \in Chars :
       /\ Len(typed) < MaxTyped
       /\ Arrive(c)
       /\ typed' = Append(typed, c)
       /\ UNCHANGED <<returned, asked>>
  \/ \E t \in Callers :
       \/ \E size \in RequestSizes, isWrite \in BOOLEAN :
            Call(t, size, isWrite) /\ asked' = size /\ UNCHANGED <<typed, returned>>
       \/ /\ Return(t)
          /\ returned' = IF InRead THEN returned \o Taken ELSE returned
          /\ UNCHANGED <<typed, asked>>
       \/ /\ enable_irq(t) \/ TestFinished(t) \/ Wait(t) \/ Wake(t)
          /\ UNCHANGED history

MCSpec == MCInit /\ [][MCNext]_allVars
-----------------------------------------------------------------------------
\* Input is neither lost, nor duplicated, nor reordered, and a read that returns fewer
\* bytes than it was asked for has consumed exactly one line end: what was typed is
\* what the reads returned, then what the read in progress has taken, then what waits
\* in the FIFO.
InputInOrder ==
  typed = returned \o (IF InRead THEN Taken ELSE <<>>) \o rxFifo
=============================================================================
