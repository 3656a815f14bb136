--------------------------- MODULE CircularBuffer ---------------------------
(***************************************************************************)
(* The lock-free ring that holds the measures of one cpu                   *)
(* (source/kernel/circular_buffer.c, circular_buffer.h).  The writer is    *)
(* the code of copy_to/from_user that runs on that cpu between get_cpu and *)
(* put_cpu; the readers are processes inside read() of the trace device.   *)
(* Neither side takes a lock, so every access to start, end and the slots  *)
(* is a step of its own.                                                   *)
(*                                                                         *)
(* A measure is represented by the number get_counter gave it.             *)
(***************************************************************************)
EXTENDS Naturals, Sequences, FiniteSets

CONSTANTS Size,            \* CIRC_BUFF_SIZE
          Readers,         \* processes that read the device
          ReadSizes,       \* values of the parameter size of cbRead_list
          SingleReads,     \* whether readers also use cbRead, which is exported
                           \* and has no caller in the repository
          MaxEvents        \* bound on the events of one behaviour

ASSUME SizeAssumption == Size \in Nat \ {0, 1}
ASSUME ReadSizesAssumption == ReadSizes \subseteq Nat
ASSUME SingleReadsAssumption == SingleReads \in BOOLEAN
ASSUME MaxEventsAssumption == MaxEvents \in Nat

VARIABLES
  count_event, start, end, array_element,   \* struct CircularBuffer
  wpc,                     \* where the writer is
  rpc,                     \* where each reader is in cbRead_list
  rlast, rsize,            \* the end it has read, and its parameter size
  segment_1, segment_2,    \* its local variables
  elem,                    \* what it has copied of the current segment
  delivered,               \* history: measures handed to readers, in order
  dropped                  \* history: events that found the ring full

ring   == <<count_event, start, end, array_element>>
reader == <<rpc, rlast, rsize, segment_1, segment_2, elem>>
vars   == <<ring, wpc, reader, delivered, dropped>>

Index == 0..(Size - 1)

Torn  == 0                 \* a slot that is empty or halfway through a memcpy

\* Mutants of cbIsFull: the oldest measure is overwritten; one slot too early.
cbIsFull_Never == FALSE
cbIsFull_Early == (end + 2) % Size = start

cbIsFull  == (end + 1) % Size = start
cbIsEmpty == end = start

\* cbInit, called once per ring at boot; kzalloc leaves the slots zero.
Init ==
  /\ count_event = 0 /\ start = 0 /\ end = 0
  /\ array_element = [i \in Index |-> Torn]
  /\ wpc = "idle"
  /\ rpc       = [r \in Readers |-> "idle"]
  /\ rlast     = [r \in Readers |-> 0]
  /\ rsize     = [r \in Readers |-> 0]
  /\ segment_1 = [r \in Readers |-> 0]
  /\ segment_2 = [r \in Readers |-> 0]
  /\ elem      = [r \in Readers |-> <<>>]
  /\ delivered = <<>>
  /\ dropped   = {}

-----------------------------------------------------------------------------
(* The writer.                                                             *)

\* A measured copy ends and takes its number.
get_counter ==
  /\ wpc = "idle" /\ count_event < MaxEvents
  /\ count_event' = count_event + 1
  /\ wpc' = "check"
  /\ UNCHANGED <<start, end, array_element, reader, delivered, dropped>>

\* cbWrite finds the ring full: the measure is dropped.
cbWrite_full ==
  /\ wpc = "check" /\ cbIsFull
  /\ wpc' = "idle"
  /\ dropped' = dropped \union {count_event}
  /\ UNCHANGED <<ring, reader, delivered>>

\* cbWrite finds room and starts to copy the measure into its slot.
cbWrite_memcpy ==
  /\ wpc = "check" /\ ~cbIsFull
  /\ array_element' = [array_element EXCEPT ![end] = Torn]
  /\ wpc' = "memcpy"
  /\ UNCHANGED <<count_event, start, end, reader, delivered, dropped>>

\* The memcpy has ended (first mb()).
cbWrite_copied ==
  /\ wpc = "memcpy"
  /\ array_element' = [array_element EXCEPT ![end] = count_event]
  /\ wpc' = "publish"
  /\ UNCHANGED <<count_event, start, end, reader, delivered, dropped>>

\* cb->end moves past the new measure.
cbWrite_publish ==
  /\ wpc = "publish"
  /\ end' = (end + 1) % Size
  /\ wpc' = "idle"
  /\ UNCHANGED <<count_event, start, array_element, reader, delivered, dropped>>

Writer == \/ get_counter \/ cbWrite_full \/ cbWrite_memcpy
          \/ cbWrite_copied \/ cbWrite_publish

-----------------------------------------------------------------------------
(* The readers.                                                            *)

\* How cbRead_list cuts the measures between s and e into the part up to the
\* end of the array and the part that starts again at slot 0, n at most.
Segment1(e, s, n) ==
  LET first == IF e < s THEN Size - s ELSE e - s
  IN  IF first > n THEN n ELSE first

Segment2(e, s, n) ==
  IF e >= s \/ Size - s > n THEN 0
  ELSE IF Size - s + e > n THEN n - (Size - s) ELSE e

\* cbRead_list reads cb->end, once.
cbRead_list(r, n) ==
  /\ rpc[r] = "idle"
  /\ rlast' = [rlast EXCEPT ![r] = end]
  /\ rsize' = [rsize EXCEPT ![r] = n]
  /\ rpc'   = [rpc EXCEPT ![r] = "segments"]
  /\ UNCHANGED <<ring, wpc, segment_1, segment_2, elem, delivered, dropped>>

\* Nothing to read: return 0.
cbRead_list_empty(r) ==
  /\ rpc[r] = "segments" /\ rlast[r] = start
  /\ rpc' = [rpc EXCEPT ![r] = "idle"]
  /\ UNCHANGED <<ring, wpc, rlast, rsize, segment_1, segment_2, elem,
                 delivered, dropped>>

cbRead_list_segments(r) ==
  /\ rpc[r] = "segments" /\ rlast[r] # start
  /\ segment_1' = [segment_1 EXCEPT ![r] = Segment1(rlast[r], start, rsize[r])]
  /\ segment_2' = [segment_2 EXCEPT ![r] = Segment2(rlast[r], start, rsize[r])]
  /\ rpc' = [rpc EXCEPT ![r] = "copy1"]
  /\ UNCHANGED <<ring, wpc, rlast, rsize, elem, delivered, dropped>>

\* cbRead, which wants a ring that is not empty, is a first segment of one.
cbRead(r) ==
  /\ SingleReads
  /\ rpc[r] = "idle" /\ ~cbIsEmpty
  /\ segment_1' = [segment_1 EXCEPT ![r] = 1]
  /\ segment_2' = [segment_2 EXCEPT ![r] = 0]
  /\ rpc' = [rpc EXCEPT ![r] = "copy1"]
  /\ UNCHANGED <<ring, wpc, rlast, rsize, elem, delivered, dropped>>

\* memcpy of n slots from cb->start on; past the end of the array it finds
\* whatever memory holds, never a measure.
Copy(n) == [i \in 1..n |-> IF start + i - 1 \in Index
                           THEN array_element[start + i - 1] ELSE Torn]

cbRead_list_copy1(r) ==
  /\ rpc[r] = "copy1"
  /\ elem' = [elem EXCEPT ![r] = Copy(segment_1[r])]
  /\ rpc'  = [rpc EXCEPT ![r] = "advance1"]
  /\ UNCHANGED <<ring, wpc, rlast, rsize, segment_1, segment_2, delivered, dropped>>

\* Mutant of cbRead_list_advance1: both segments are released at once.
cbRead_list_advance1_Both(r) ==
  /\ rpc[r] = "advance1"
  /\ start' = (start + segment_1[r] + segment_2[r]) % Size
  /\ delivered' = delivered \o elem[r]
  /\ rpc' = [rpc EXCEPT ![r] = "idle"]
  /\ UNCHANGED <<count_event, end, array_element, wpc, rlast, rsize,
                 segment_1, segment_2, elem, dropped>>

cbRead_list_advance1(r) ==
  /\ rpc[r] = "advance1"
  /\ start' = (start + segment_1[r]) % Size
  /\ delivered' = delivered \o elem[r]
  /\ rpc' = [rpc EXCEPT ![r] = IF segment_2[r] # 0 THEN "copy2" ELSE "idle"]
  /\ UNCHANGED <<count_event, end, array_element, wpc, rlast, rsize,
                 segment_1, segment_2, elem, dropped>>

cbRead_list_copy2(r) ==
  /\ rpc[r] = "copy2"
  /\ elem' = [elem EXCEPT ![r] = Copy(segment_2[r])]
  /\ rpc'  = [rpc EXCEPT ![r] = "advance2"]
  /\ UNCHANGED <<ring, wpc, rlast, rsize, segment_1, segment_2, delivered, dropped>>

\* Mutant of cbRead_list_advance2: the second segment is not released.
cbRead_list_advance2_NoRelease(r) ==
  /\ rpc[r] = "advance2"
  /\ delivered' = delivered \o elem[r]
  /\ rpc' = [rpc EXCEPT ![r] = "idle"]
  /\ UNCHANGED <<ring, wpc, rlast, rsize, segment_1, segment_2, elem, dropped>>

cbRead_list_advance2(r) ==
  /\ rpc[r] = "advance2"
  /\ start' = (start + segment_2[r]) % Size
  /\ delivered' = delivered \o elem[r]
  /\ rpc' = [rpc EXCEPT ![r] = "idle"]
  /\ UNCHANGED <<count_event, end, array_element, wpc, rlast, rsize,
                 segment_1, segment_2, elem, dropped>>

Reader(r) ==
  \/ \E n \in ReadSizes : cbRead_list(r, n)
  \/ cbRead_list_empty(r) \/ cbRead_list_segments(r) \/ cbRead(r)
  \/ cbRead_list_copy1(r) \/ cbRead_list_advance1(r)
  \/ cbRead_list_copy2(r) \/ cbRead_list_advance2(r)

Next == Writer \/ \E r \in Readers : Reader(r)

Spec == Init /\ [][Next]_vars

-----------------------------------------------------------------------------
(* Properties.                                                             *)

Pc == {"idle", "segments", "copy1", "advance1", "copy2", "advance2"}

\* The fields of struct CircularBuffer and the locals of cbRead_list keep their
\* types: in particular start and end always index the array, whose last
\* segments are never longer than the array itself.
TypeOK ==
  /\ count_event \in Nat
  /\ start \in Index /\ end \in Index
  /\ array_element \in [Index -> Nat]
  /\ wpc \in {"idle", "check", "memcpy", "publish"}
  /\ rpc \in [Readers -> Pc]
  /\ rlast \in [Readers -> Index]
  /\ rsize \in [Readers -> Nat]
  /\ segment_1 \in [Readers -> 0..Size]
  /\ segment_2 \in [Readers -> 0..Size]
  /\ elem \in [Readers -> Seq(Nat)]
  /\ delivered \in Seq(Nat)
  /\ dropped \subseteq Nat

\* The slots that hold measures nobody has been handed.
Unread(i) == IF start <= end THEN start <= i /\ i < end ELSE start <= i \/ i < end

\* The slots reader r is copying, or has copied and not yet released.
Reading(r, i) ==
  \/ rpc[r] \in {"copy1", "advance1"} /\ start <= i /\ i < start + segment_1[r]
  \/ rpc[r] \in {"copy2", "advance2"} /\ start <= i /\ i < start + segment_2[r]

\* While cbWrite copies a measure into its slot, and until it publishes it, no
\* reader is copying that slot: the full check made before the memcpy stays
\* true whatever cbRead_list does since.
SlotsApart ==
  wpc \in {"memcpy", "publish"} => \A r \in Readers : ~Reading(r, end)

\* cbRead_list never copies beyond the array, nor slots without a measure: both
\* of its segments lie in the unread part of the ring, wrapped or not.
SegmentsUnread ==
  \A r \in Readers, i \in 0..(2 * Size) : Reading(r, i) => i \in Index /\ Unread(i)

\* The lock-free accesses of cbWrite and cbRead_list to the array never meet: the
\* writer keeps to slots nobody reads, the readers to slots that are written.
AccessesApart == SlotsApart /\ SegmentsUnread

\* Measures are handed out whole and in the order of their events: none is
\* torn, repeated or overtaken, over any number of wraps of the ring.
DeliveredInOrder ==
  /\ \A i \in DOMAIN delivered : delivered[i] # Torn
  /\ \A i, j \in DOMAIN delivered : i < j => delivered[i] < delivered[j]

\* No event is lost silently: each number get_counter has given out was handed
\* to a reader, waits in the ring, was dropped by a full ring, or belongs to
\* the write in progress, and only one of these.
EventsAccounted ==
  LET handed  == {delivered[i] : i \in DOMAIN delivered}
      waiting == {array_element[i] : i \in {i \in Index : Unread(i)}}
      writing == IF wpc = "idle" THEN {} ELSE {count_event}
  IN  /\ handed \union waiting \union dropped \union writing = 1..count_event
      /\ handed \intersect waiting = {}
      /\ dropped \intersect (handed \union waiting) = {}
      /\ writing \intersect (handed \union waiting \union dropped) = {}

\* Seen from outside, the ring is a FIFO log of Size - 1 measures.
Held  == IF start <= end THEN end - start ELSE Size - start + end
Queue == [i \in 1..Held |-> array_element[(start + i - 1) % Size]]

Log == INSTANCE MeasureLog WITH Capacity <- Size - 1, count <- count_event,
                                log <- Queue, delivered <- delivered,
                                dropped <- dropped

\* Every step of the lock-free code is one step of the FIFO log or invisible:
\* a measure enters when cb->end moves, leaves when cb->start moves.
RefinesLog == Log!LogSpec

-----------------------------------------------------------------------------
(* The inductive strengthening of the properties above, for one reader.    *)

\* Only one process reads the device, as in the repository's daemon.
OneReader == \A r1, r2 \in Readers : r1 = r2

\* The room cbWrite found is still there: readers only make more of it.
WriterHasRoom == wpc \in {"memcpy", "publish"} => ~cbIsFull

\* What reader r knows of the ring at each point of cbRead_list: the end it has
\* read has not been overtaken, a first segment ends at cb->end or at the end
\* of the array, and only a full first segment is followed by a second one.
ReaderKnows(r) ==
  /\ rpc[r] = "segments" => rlast[r] = end \/ Unread(rlast[r])
  /\ rpc[r] \in {"copy1", "advance1"} =>
       /\ start + segment_1[r] <= (IF start <= end THEN end ELSE Size)
       /\ segment_2[r] # 0 => /\ end < start /\ start + segment_1[r] = Size
                              /\ segment_2[r] <= end
  /\ rpc[r] \in {"copy2", "advance2"} => start = 0 /\ segment_2[r] <= end

RingInv == /\ TypeOK /\ WriterHasRoom
           /\ \A r \in Readers : ReaderKnows(r)

\* Slot i is older than slot j.
Older(i, j) == IF (start <= i) = (start <= j) THEN i < j ELSE start <= i

\* The numbers that no waiting or delivered measure has reached yet.
Fresh(n) == IF wpc = "idle" THEN count_event < n ELSE count_event <= n

\* The waiting measures are whole, ordered and younger than the delivered ones.
WaitingInOrder ==
  /\ \A i \in Index : Unread(i) => array_element[i] # Torn /\ ~Fresh(array_element[i])
  /\ \A i, j \in Index : Unread(i) /\ Unread(j) /\ Older(i, j)
                           => array_element[i] < array_element[j]
  /\ \A k \in DOMAIN delivered : ~Fresh(delivered[k])
  /\ \A k \in DOMAIN delivered, i \in Index :
       Unread(i) => delivered[k] < array_element[i]

\* What cbWrite publishes, and what cbRead_list returns, is what the slots hold.
CopiesFaithful ==
  /\ wpc # "idle" => count_event # Torn
  /\ wpc = "publish" => array_element[end] = count_event
  /\ \A r \in Readers :
       /\ rpc[r] = "advance1" => elem[r] = Copy(segment_1[r])
       /\ rpc[r] = "advance2" => elem[r] = Copy(segment_2[r])

OrderInv == RingInv /\ WaitingInOrder /\ CopiesFaithful /\ DeliveredInOrder
=============================================================================
