----------------------------- MODULE MeasureLog -----------------------------
(***************************************************************************)
(* What a trace ring promises to the code that uses it: a bounded FIFO     *)
(* log of measures.  Every measure is numbered by the event counter of its *)
(* cpu; one that finds the log full is dropped and leaves a gap in the     *)
(* numbers, all others are handed out exactly once and in order.           *)
(* CircularBuffer implements this specification.                           *)
(***************************************************************************)
EXTENDS Naturals, Sequences

CONSTANT Capacity          \* measures the log can hold

VARIABLES count,           \* number of the last event
          log,             \* measures not handed out yet, oldest first
          delivered,       \* measures handed out, in order
          dropped          \* events that found the log full

logVars == <<count, log, delivered, dropped>>

LogInit == count = 0 /\ log = <<>> /\ delivered = <<>> /\ dropped = {}

\* A new event takes the next number.
Event == count' = count + 1 /\ UNCHANGED <<log, delivered, dropped>>

\* The measure of the current event enters the log.
Store == /\ Len(log) < Capacity
         /\ log' = Append(log, count)
         /\ UNCHANGED <<count, delivered, dropped>>

\* Only a full log loses a measure.
Drop == /\ Len(log) = Capacity
        /\ dropped' = dropped \union {count}
        /\ UNCHANGED <<count, log, delivered>>

\* The k oldest measures are handed out.
Deliver(k) == /\ delivered' = delivered \o SubSeq(log, 1, k)
              /\ log' = SubSeq(log, k + 1, Len(log))
              /\ UNCHANGED <<count, dropped>>

LogNext == Event \/ Store \/ Drop \/ \E k \in 1..Len(log) : Deliver(k)

LogSpec == LogInit /\ [][LogNext]_logVars
=============================================================================
