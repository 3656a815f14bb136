------------------------ MODULE CircularBufferProofs ------------------------
(***************************************************************************)
(* Proofs about the lock-free ring, for every size of the ring and every   *)
(* set of read sizes.                                                      *)
(***************************************************************************)
EXTENDS CircularBuffer, SequenceTheorems, TLAPS

\* An index moved by at most Size and reduced with % Size, as the code moves
\* start and end, wraps at most once and stays an index.
LEMMA Advance ==
  ASSUME NEW i \in Index, NEW n \in 0..Size
  PROVE  /\ (i + n) % Size = IF i + n < Size THEN i + n ELSE i + n - Size
         /\ (i + n) % Size \in Index
<1>1. i + n \in 0..(2 * Size - 1)
  BY SizeAssumption DEF Index
<1>2. \A x \in 0..(2 * Size - 1) : x % Size = IF x < Size THEN x ELSE x - Size
  BY SizeAssumption
<1>3. (i + n) % Size = IF i + n < Size THEN i + n ELSE i + n - Size
  BY <1>1, <1>2, SizeAssumption DEF Index
<1>4. QED
  BY <1>1, <1>3, SizeAssumption DEF Index

\* The segments cbRead_list computes lie between s and e, wrapped or not.
LEMMA SegmentBounds ==
  ASSUME NEW e \in Index, NEW s \in Index, NEW n \in Nat
  PROVE  /\ Segment1(e, s, n) \in 0..Size
         /\ Segment2(e, s, n) \in 0..Size
         /\ s + Segment1(e, s, n) <= (IF s <= e THEN e ELSE Size)
         /\ Segment2(e, s, n) # 0 => /\ e < s
                                     /\ s + Segment1(e, s, n) = Size
                                     /\ Segment2(e, s, n) <= e
  BY SizeAssumption DEF Index, Segment1, Segment2

\* What a memcpy out of the array reads is a sequence of numbers.
LEMMA CopyType ==
  ASSUME TypeOK, NEW n \in Nat
  PROVE  /\ Copy(n) \in Seq(Nat)
         /\ Len(Copy(n)) = n
         /\ \A i \in 1..n : Copy(n)[i] = IF start + i - 1 \in Index
                                         THEN array_element[start + i - 1] ELSE Torn
<1>1. \A i \in 1..n : (IF start + i - 1 \in Index
                       THEN array_element[start + i - 1] ELSE Torn) \in Nat
  BY DEF TypeOK, Torn
<1>2. QED
  BY <1>1 DEF Copy

-----------------------------------------------------------------------------

\* Every step of the writer or of a reader keeps the fields of the ring and the
\* locals of cbRead_list in their types.
LEMMA TypeStep == TypeOK /\ [Next]_vars => TypeOK'
<1> SUFFICES ASSUME TypeOK, [Next]_vars PROVE TypeOK'
  OBVIOUS
<1> USE SizeAssumption DEF TypeOK, Pc, ring, reader
<1>2. CASE get_counter
  BY <1>2 DEF get_counter
<1>3. CASE cbWrite_full
  BY <1>3 DEF cbWrite_full
<1>4. CASE cbWrite_memcpy
  BY <1>4 DEF cbWrite_memcpy, Torn
<1>5. CASE cbWrite_copied
  BY <1>5 DEF cbWrite_copied
<1>6. CASE cbWrite_publish
  <2>1. (end + 1) % Size \in Index
    BY Advance
  <2>2. QED
    BY <1>6, <2>1 DEF cbWrite_publish
<1>7. ASSUME NEW r \in Readers, NEW n \in ReadSizes, cbRead_list(r, n)
      PROVE  TypeOK'
  BY <1>7, ReadSizesAssumption DEF cbRead_list
<1>8. ASSUME NEW r \in Readers, cbRead_list_empty(r) PROVE TypeOK'
  BY <1>8 DEF cbRead_list_empty
<1>9. ASSUME NEW r \in Readers, cbRead_list_segments(r) PROVE TypeOK'
  <2>1. /\ Segment1(rlast[r], start, rsize[r]) \in 0..Size
        /\ Segment2(rlast[r], start, rsize[r]) \in 0..Size
    BY SegmentBounds
  <2>2. QED
    BY <1>9, <2>1 DEF cbRead_list_segments
<1>10. ASSUME NEW r \in Readers, cbRead(r) PROVE TypeOK'
  BY <1>10 DEF cbRead
<1>11. ASSUME NEW r \in Readers, cbRead_list_copy1(r) PROVE TypeOK'
  <2>1. Copy(segment_1[r]) \in Seq(Nat)
    BY CopyType
  <2>2. QED
    BY <1>11, <2>1 DEF cbRead_list_copy1
<1>12. ASSUME NEW r \in Readers, cbRead_list_advance1(r) PROVE TypeOK'
  <2>1. (start + segment_1[r]) % Size \in Index
    BY Advance
  <2>2. QED
    BY <1>12, <2>1 DEF cbRead_list_advance1
<1>13. ASSUME NEW r \in Readers, cbRead_list_copy2(r) PROVE TypeOK'
  <2>1. Copy(segment_2[r]) \in Seq(Nat)
    BY CopyType
  <2>2. QED
    BY <1>13, <2>1 DEF cbRead_list_copy2
<1>14. ASSUME NEW r \in Readers, cbRead_list_advance2(r) PROVE TypeOK'
  <2>1. (start + segment_2[r]) % Size \in Index
    BY Advance
  <2>2. QED
    BY <1>14, <2>1, SMTT(30) DEF cbRead_list_advance2
<1>15. CASE UNCHANGED vars
  BY <1>15 DEF vars
<1>16. QED
  BY <1>2, <1>3, <1>4, <1>5, <1>6, <1>7, <1>8, <1>9, <1>10, <1>11, <1>12,
     <1>13, <1>14, <1>15 DEF Next, Writer, Reader

\* TypeOK holds in every state: for any number of readers, start and end never
\* leave the array.
THEOREM TypeCorrect == Spec => []TypeOK
<1>1. Init => TypeOK
  BY SizeAssumption DEF Init, TypeOK, Index, Torn, Pc
<1>2. QED
  BY <1>1, TypeStep, PTL DEF Spec

-----------------------------------------------------------------------------

\* cbIsFull without the modulo.
LEMMA FullIff ==
  ASSUME TypeOK
  PROVE  cbIsFull <=> IF end + 1 < Size THEN end + 1 = start ELSE start = 0
<1>1. /\ end \in Index /\ start \in Index /\ 1 \in 0..Size
  BY SizeAssumption DEF TypeOK
<1>2. (end + 1) % Size = IF end + 1 < Size THEN end + 1 ELSE end + 1 - Size
  BY <1>1, Advance
<1>3. QED
  BY <1>1, <1>2, SizeAssumption DEF cbIsFull, Index

\* With one reader, a step of the writer or of that reader keeps what the two
\* sides know of each other: the reader only makes room, the writer only adds
\* measures behind the end the reader has read.
LEMMA RingStep ==
  ASSUME OneReader, RingInv, [Next]_vars
  PROVE  RingInv'
<1> USE SizeAssumption
<1>0. TypeOK /\ TypeOK'
  BY TypeStep DEF RingInv
<1>f. /\ cbIsFull <=> IF end + 1 < Size THEN end + 1 = start ELSE start = 0
      /\ cbIsFull' <=> IF end' + 1 < Size THEN end' + 1 = start' ELSE start' = 0
  <2>1. cbIsFull <=> IF end + 1 < Size THEN end + 1 = start ELSE start = 0
    BY <1>0, FullIff
  <2>2. (cbIsFull <=> IF end + 1 < Size THEN end + 1 = start ELSE start = 0)'
    BY <1>0, FullIff, PTL
  <2>3. QED
    BY <2>1, <2>2
<1> SUFFICES WriterHasRoom' /\ \A q \in Readers : ReaderKnows(q)'
  BY <1>0 DEF RingInv
<1>t. /\ start \in 0..(Size - 1) /\ end \in 0..(Size - 1)
      /\ start' \in 0..(Size - 1) /\ end' \in 0..(Size - 1)
      /\ \A q \in Readers : /\ rlast[q] \in 0..(Size - 1) /\ rsize[q] \in Nat
                            /\ segment_1[q] \in 0..Size /\ segment_2[q] \in 0..Size
  BY <1>0 DEF TypeOK, Index
<1>r. \A q \in Readers : ReaderKnows(q)
  BY DEF RingInv
<1>w. WriterHasRoom
  BY DEF RingInv
<1>1. CASE get_counter \/ cbWrite_full \/ cbWrite_copied
  BY <1>1, <1>r, <1>w
     DEF get_counter, cbWrite_full, cbWrite_copied, ring, reader,
         WriterHasRoom, ReaderKnows, Unread, cbIsFull
<1>2. CASE cbWrite_memcpy
  BY <1>2, <1>r DEF cbWrite_memcpy, reader, WriterHasRoom, ReaderKnows, Unread, cbIsFull
<1>3. CASE cbWrite_publish
  <2>1. /\ wpc = "publish" /\ wpc' = "idle" /\ UNCHANGED <<start, reader>>
        /\ end' = (end + 1) % Size
    BY <1>3 DEF cbWrite_publish
  <2>2. end' = IF end + 1 < Size THEN end + 1 ELSE end + 1 - Size
    <3>1. end \in Index /\ 1 \in 0..Size
      BY <1>t DEF Index
    <3>2. QED
      BY <2>1, <3>1, Advance
  <2>3. ~(IF end + 1 < Size THEN end + 1 = start ELSE start = 0)
    BY <1>f, <1>w, <2>1 DEF WriterHasRoom
  <2>4. ASSUME NEW q \in Readers PROVE ReaderKnows(q)'
    BY <1>r, <1>t, <2>1, <2>2, <2>3 DEF ReaderKnows, Unread, reader
  <2>5. WriterHasRoom'
    BY <2>1 DEF WriterHasRoom
  <2>6. QED
    BY <2>4, <2>5
<1>4. ASSUME NEW r \in Readers, NEW n \in ReadSizes, cbRead_list(r, n)
      PROVE  WriterHasRoom' /\ \A q \in Readers : ReaderKnows(q)'
  BY <1>4, <1>0, <1>r, <1>w
     DEF TypeOK, cbRead_list, ring, WriterHasRoom, ReaderKnows, Unread, cbIsFull
<1>5. ASSUME NEW r \in Readers, cbRead_list_empty(r)
      PROVE  WriterHasRoom' /\ \A q \in Readers : ReaderKnows(q)'
  BY <1>5, <1>0, <1>r, <1>w
     DEF TypeOK, cbRead_list_empty, ring, WriterHasRoom, ReaderKnows, Unread, cbIsFull
<1>6. ASSUME NEW r \in Readers, cbRead_list_segments(r)
      PROVE  WriterHasRoom' /\ \A q \in Readers : ReaderKnows(q)'
  <2> DEFINE e == rlast[r]
             s1 == Segment1(e, start, rsize[r])
             s2 == Segment2(e, start, rsize[r])
  <2>1. /\ rpc[r] = "segments" /\ e # start
        /\ rpc' = [rpc EXCEPT ![r] = "copy1"]
        /\ segment_1' = [segment_1 EXCEPT ![r] = s1]
        /\ segment_2' = [segment_2 EXCEPT ![r] = s2]
        /\ UNCHANGED <<start, end, wpc, rlast, rsize>>
    BY <1>6 DEF cbRead_list_segments, ring
  <2>2. WriterHasRoom'
    BY <1>w, <2>1 DEF WriterHasRoom, cbIsFull
  <2>3. /\ s1 \in 0..Size /\ s2 \in 0..Size
        /\ start + s1 <= (IF start <= e THEN e ELSE Size)
        /\ s2 # 0 => e < start /\ start + s1 = Size /\ s2 <= e
    <3>1. e \in Index /\ start \in Index /\ rsize[r] \in Nat
      BY <1>t DEF Index
    <3>2. QED
      BY <3>1, SegmentBounds
  <2>4. e = end \/ Unread(e)
    BY <1>r, <2>1 DEF ReaderKnows
  <2> HIDE DEF e, s1, s2
  <2>5. /\ start + s1 <= (IF start <= end THEN end ELSE Size)
        /\ s2 # 0 => end < start /\ start + s1 = Size /\ s2 <= end
    <3>1. e \in 0..(Size - 1)
      BY <1>t DEF e
    <3>2. QED
      BY <1>t, <2>1, <2>3, <2>4, <3>1 DEF Unread
  <2>6. /\ rpc'[r] = "copy1" /\ segment_1'[r] = s1 /\ segment_2'[r] = s2
    BY <1>0, <2>1 DEF TypeOK
  <2>7. ReaderKnows(r)'
    BY <2>1, <2>5, <2>6 DEF ReaderKnows
  <2>8. QED
    BY <2>2, <2>7 DEF OneReader
<1>7. ASSUME NEW r \in Readers, cbRead(r)
      PROVE  WriterHasRoom' /\ \A q \in Readers : ReaderKnows(q)'
  <2>1. /\ end # start
        /\ rpc'[r] = "copy1" /\ segment_1'[r] = 1 /\ segment_2'[r] = 0
        /\ UNCHANGED <<start, end, wpc>>
    BY <1>7, <1>0 DEF cbRead, cbIsEmpty, ring, TypeOK
  <2>2. WriterHasRoom'
    BY <1>w, <2>1 DEF WriterHasRoom, cbIsFull
  <2>3. ReaderKnows(r)'
    BY <1>t, <2>1 DEF ReaderKnows
  <2>4. QED
    BY <2>2, <2>3 DEF OneReader
<1>8. ASSUME NEW r \in Readers, cbRead_list_copy1(r) \/ cbRead_list_copy2(r)
      PROVE  WriterHasRoom' /\ \A q \in Readers : ReaderKnows(q)'
  BY <1>8, <1>0, <1>r, <1>w, SMTT(30)
     DEF TypeOK, cbRead_list_copy1, cbRead_list_copy2, ring, WriterHasRoom,
         ReaderKnows, Unread, cbIsFull
<1>9. ASSUME NEW r \in Readers, cbRead_list_advance1(r)
      PROVE  WriterHasRoom' /\ \A q \in Readers : ReaderKnows(q)'
  <2>1. /\ rpc[r] = "advance1"
        /\ start' = (start + segment_1[r]) % Size
        /\ rpc'[r] = IF segment_2[r] # 0 THEN "copy2" ELSE "idle"
        /\ UNCHANGED <<end, wpc, segment_2>>
    BY <1>9, <1>0 DEF cbRead_list_advance1, TypeOK
  <2>2. start' = IF start + segment_1[r] < Size THEN start + segment_1[r]
                 ELSE start + segment_1[r] - Size
    <3>1. start \in Index /\ segment_1[r] \in 0..Size
      BY <1>t DEF Index
    <3>2. QED
      BY <2>1, <3>1, Advance
  <2>3. /\ start + segment_1[r] <= (IF start <= end THEN end ELSE Size)
        /\ segment_2[r] # 0 => end < start /\ start + segment_1[r] = Size
                               /\ segment_2[r] <= end
    BY <1>r, <2>1 DEF ReaderKnows
  <2>4. WriterHasRoom'
    <3>1. ~(IF end + 1 < Size THEN end + 1 = start ELSE start = 0)
          => ~(IF end + 1 < Size THEN end + 1 = start' ELSE start' = 0)
      BY <1>t, <2>2, <2>3
    <3>2. QED
      BY <1>f, <1>w, <2>1, <3>1 DEF WriterHasRoom
  <2>5. ReaderKnows(r)'
    BY <1>t, <2>1, <2>2, <2>3 DEF ReaderKnows
  <2>6. QED
    BY <2>4, <2>5 DEF OneReader
<1>10. ASSUME NEW r \in Readers, cbRead_list_advance2(r)
       PROVE  WriterHasRoom' /\ \A q \in Readers : ReaderKnows(q)'
  <2>1. /\ rpc[r] = "advance2"
        /\ start' = (start + segment_2[r]) % Size
        /\ rpc'[r] = "idle"
        /\ UNCHANGED <<end, wpc>>
    BY <1>10, <1>0 DEF cbRead_list_advance2, TypeOK
  <2>2. start' = IF start + segment_2[r] < Size THEN start + segment_2[r]
                 ELSE start + segment_2[r] - Size
    <3>1. start \in Index /\ segment_2[r] \in 0..Size
      BY <1>t DEF Index
    <3>2. QED
      BY <2>1, <3>1, Advance
  <2>3. start = 0 /\ segment_2[r] <= end
    BY <1>r, <2>1 DEF ReaderKnows
  <2>4. WriterHasRoom'
    <3>1. ~(IF end + 1 < Size THEN end + 1 = start ELSE start = 0)
          => ~(IF end + 1 < Size THEN end + 1 = start' ELSE start' = 0)
      BY <1>t, <2>2, <2>3
    <3>2. QED
      BY <1>f, <1>w, <2>1, <3>1 DEF WriterHasRoom
  <2>5. ReaderKnows(r)'
    BY <2>1 DEF ReaderKnows
  <2>6. QED
    BY <2>4, <2>5 DEF OneReader
<1>11. CASE UNCHANGED vars
  BY <1>11, <1>r, <1>w
     DEF vars, ring, reader, WriterHasRoom, ReaderKnows, Unread, cbIsFull
<1>12. QED
  BY <1>1, <1>2, <1>3, <1>4, <1>5, <1>6, <1>7, <1>8, <1>9, <1>10, <1>11
     DEF Next, Writer, Reader

\* The invariant of the ring holds at first.
LEMMA RingInit == Init => RingInv
<1>1. Init => TypeOK
  BY SizeAssumption DEF Init, TypeOK, Index, Torn, Pc
<1>2. QED
  BY <1>1 DEF Init, RingInv, WriterHasRoom, ReaderKnows

\* With one reader the full check of cbWrite and the segments of cbRead_list are
\* still right when they are used: cbWrite never touches a slot that is unread
\* or being read, and cbRead_list reads no slot but unread ones.
THEOREM RingSafe ==
  ASSUME OneReader
  PROVE  Spec => []AccessesApart
<1>1. Spec => []RingInv
  <2>1. RingInv /\ [Next]_vars => RingInv'
    BY RingStep
  <2>2. QED
    BY RingInit, <2>1, PTL DEF Spec
<1>2. RingInv => AccessesApart
  <2> SUFFICES ASSUME RingInv PROVE SlotsApart /\ SegmentsUnread
    BY DEF AccessesApart
  <2>1. /\ start \in 0..(Size - 1) /\ end \in 0..(Size - 1)
        /\ \A r \in Readers : segment_1[r] \in 0..Size /\ segment_2[r] \in 0..Size
    BY DEF RingInv, TypeOK, Index
  <2>2. \A r \in Readers : ReaderKnows(r)
    BY DEF RingInv
  <2>3. SegmentsUnread
    BY <2>1, <2>2, SizeAssumption
       DEF SegmentsUnread, ReaderKnows, Reading, Unread, Index
  <2>4. ASSUME NEW r \in Readers PROVE ~Reading(r, end)
    BY <2>1, <2>2, SizeAssumption DEF ReaderKnows, Reading
  <2>5. QED
    BY <2>3, <2>4 DEF SlotsApart
<1>3. QED
  BY <1>1, <1>2, PTL

-----------------------------------------------------------------------------

\* Where the elements of a concatenation come from.
LEMMA ConcatElements ==
  ASSUME NEW a \in Seq(Nat), NEW b \in Seq(Nat), NEW d, d = a \o b
  PROVE  /\ d \in Seq(Nat)
         /\ Len(d) = Len(a) + Len(b)
         /\ \A k \in 1..Len(a) : d[k] = a[k]
         /\ \A k \in (Len(a) + 1)..(Len(a) + Len(b)) : d[k] = b[k - Len(a)]
<1>1. d \in Seq(Nat) /\ Len(d) = Len(a) + Len(b)
  OBVIOUS
<1>2. ASSUME NEW k \in 1..Len(a) PROVE d[k] = a[k]
  OBVIOUS
<1>3. ASSUME NEW k \in (Len(a) + 1)..(Len(a) + Len(b)) PROVE d[k] = b[k - Len(a)]
  OBVIOUS
<1>4. QED
  BY <1>1, <1>2, <1>3

\* Handing out the n oldest measures and moving start past them keeps the
\* order: what was handed out is older than what stays.
LEMMA DeliverStep ==
  ASSUME TypeOK, WaitingInOrder, DeliveredInOrder,
         NEW n \in 0..Size,
         start + n <= (IF start <= end THEN end ELSE Size),
         start' = (start + n) % Size,
         delivered' = delivered \o Copy(n),
         UNCHANGED <<end, array_element, count_event, wpc>>
  PROVE  WaitingInOrder' /\ DeliveredInOrder'
<1> USE SizeAssumption
<1>1. /\ start \in 0..(Size - 1) /\ end \in 0..(Size - 1) /\ count_event \in Nat
      /\ delivered \in Seq(Nat) /\ \A i \in Index : array_element[i] \in Nat
  BY DEF TypeOK, Index
<1>2. start' = IF start + n < Size THEN start + n ELSE start + n - Size
  <2>1. start \in Index
    BY DEF TypeOK
  <2>2. QED
    BY <2>1, Advance
<1>c. /\ Copy(n) \in Seq(Nat) /\ Len(Copy(n)) = n
      /\ \A k \in 1..n : Copy(n)[k] = IF start + k - 1 \in Index
                                      THEN array_element[start + k - 1] ELSE Torn
  <2>1. n \in Nat
    OBVIOUS
  <2>2. QED
    BY <2>1, CopyType
<1>3. ASSUME NEW i \in Index, Unread(i)'
      PROVE  Unread(i)
  BY <1>1, <1>2, <1>3 DEF Unread, Index
<1>4. ASSUME NEW i \in Index, NEW j \in Index, Unread(i)', Unread(j)', Older(i, j)'
      PROVE  Older(i, j)
  BY <1>1, <1>2, <1>4 DEF Unread, Older, Index
<1>5. ASSUME NEW k \in 1..n
      PROVE  /\ start + k - 1 \in Index /\ Unread(start + k - 1)
             /\ Copy(n)[k] = array_element[start + k - 1]
  <2>1. start + k - 1 \in Index /\ Unread(start + k - 1)
    BY <1>1 DEF Unread, Index
  <2>2. QED
    BY <1>c, <2>1
<1>6. ASSUME NEW k \in 1..n, NEW i \in Index, Unread(i)'
      PROVE  Older(start + k - 1, i)
  BY <1>1, <1>2, <1>6 DEF Unread, Older, Index
<1>7. ASSUME NEW k \in 1..n, NEW i \in Index, Unread(i)'
      PROVE  Copy(n)[k] < array_element[i]
  BY <1>3, <1>5, <1>6, <1>7 DEF WaitingInOrder
<1>8. ASSUME NEW k \in 1..n, NEW m \in 1..n, k < m
      PROVE  Copy(n)[k] < Copy(n)[m]
  <2>1. Older(start + k - 1, start + m - 1)
    BY <1>1, <1>8 DEF Older
  <2>2. QED
    BY <1>5, <2>1 DEF WaitingInOrder
<1>9. /\ delivered' \in Seq(Nat)
      /\ Len(delivered') = Len(delivered) + n
      /\ \A k \in 1..Len(delivered) : delivered'[k] = delivered[k]
      /\ \A k \in (Len(delivered) + 1)..(Len(delivered) + n) :
           delivered'[k] = Copy(n)[k - Len(delivered)]
  <2>1. /\ delivered' \in Seq(Nat)
        /\ Len(delivered') = Len(delivered) + Len(Copy(n))
        /\ \A k \in 1..Len(delivered) : delivered'[k] = delivered[k]
        /\ \A k \in (Len(delivered) + 1)..(Len(delivered) + Len(Copy(n))) :
             delivered'[k] = Copy(n)[k - Len(delivered)]
    <3>1. delivered \in Seq(Nat) /\ Copy(n) \in Seq(Nat)
      BY <1>1, <1>c
    <3>2. QED
      BY <3>1, ConcatElements, SMT
  <2>2. QED
    BY <1>c, <2>1
<1>10. ASSUME NEW k \in DOMAIN delivered'
       PROVE  \/ k \in DOMAIN delivered /\ delivered'[k] = delivered[k]
              \/ /\ k - Len(delivered) \in 1..n
                 /\ k \notin DOMAIN delivered /\ k > Len(delivered)
                 /\ delivered'[k] = Copy(n)[k - Len(delivered)]
  BY <1>1, <1>9
<1>11. WaitingInOrder'
  <2>1. ASSUME NEW i \in Index, Unread(i)'
        PROVE  array_element[i] # Torn /\ ~Fresh(array_element[i])'
    BY <1>3, <2>1 DEF WaitingInOrder, Fresh
  <2>2. ASSUME NEW i \in Index, NEW j \in Index, Unread(i)', Unread(j)', Older(i, j)'
        PROVE  array_element[i] < array_element[j]
    BY <1>3, <1>4, <2>2 DEF WaitingInOrder
  <2>3. ASSUME NEW k \in DOMAIN delivered' PROVE ~Fresh(delivered[k])'
    BY <1>5, <1>10, ZenonT(40) DEF WaitingInOrder, Fresh
  <2>4. ASSUME NEW k \in DOMAIN delivered', NEW i \in Index, Unread(i)'
        PROVE  delivered'[k] < array_element[i]
    BY <1>3, <1>7, <1>10, <2>4 DEF WaitingInOrder
  <2>5. QED
    BY <2>1, <2>2, <2>3, <2>4 DEF WaitingInOrder
<1>12. DeliveredInOrder'
  <2>1. ASSUME NEW k \in DOMAIN delivered' PROVE delivered'[k] # Torn
    BY <1>5, <1>10 DEF WaitingInOrder, DeliveredInOrder
  <2>2. ASSUME NEW k \in DOMAIN delivered', NEW m \in DOMAIN delivered', k < m
        PROVE  delivered'[k] < delivered'[m]
    <3>1. CASE m \in DOMAIN delivered
      BY <1>1, <1>9, <1>10, <2>2, <3>1 DEF DeliveredInOrder
    <3>2. CASE k \in DOMAIN delivered /\ m \notin DOMAIN delivered
      <4>1. PICK p \in 1..n : delivered'[m] = Copy(n)[p]
        BY <1>10, <3>2
      <4>2. delivered'[k] = delivered[k]
        BY <1>10, <3>2
      <4>3. QED
        BY <1>5, <3>2, <4>1, <4>2 DEF WaitingInOrder
    <3>3. CASE k \notin DOMAIN delivered
      <4>1. k > Len(delivered) /\ m > Len(delivered) /\ k \in Nat /\ m \in Nat
        BY <1>1, <1>9, <1>10, <2>2, <3>3
      <4>2. m \notin DOMAIN delivered
        BY <1>1, <4>1
      <4>3. PICK p \in 1..n : p = k - Len(delivered) /\ delivered'[k] = Copy(n)[p]
        BY <1>10, <3>3
      <4>4. PICK q \in 1..n : q = m - Len(delivered) /\ delivered'[m] = Copy(n)[q]
        BY <1>10, <4>2
      <4>5. p < q
        BY <1>1, <2>2, <4>1, <4>3, <4>4
      <4>6. QED
        BY <1>8, <4>3, <4>4, <4>5
    <3>4. QED
      BY <3>1, <3>2, <3>3
  <2>3. QED
    BY <2>1, <2>2 DEF DeliveredInOrder
<1>13. QED
  BY <1>11, <1>12

\* The slots a memcpy of cbRead_list has copied are unread ones, so that storing
\* into the writer's slot leaves the copy faithful.
LEMMA CopyApart ==
  ASSUME TypeOK, NEW n \in 0..Size, NEW v \in Nat,
         start + n <= (IF start <= end THEN end ELSE Size),
         UNCHANGED start, array_element' = [array_element EXCEPT ![end] = v]
  PROVE  Copy(n)' = Copy(n)
<1>1. \A i \in 1..n : start + i - 1 # end
  BY SizeAssumption DEF TypeOK, Index
<1>2. QED
  BY <1>1 DEF Copy, TypeOK

\* Every step keeps the measures whole and ordered, in the ring and out of it.
LEMMA OrderStep ==
  ASSUME OneReader, OrderInv, [Next]_vars
  PROVE  OrderInv'
<1> USE SizeAssumption
<1>0. RingInv /\ RingInv' /\ TypeOK /\ TypeOK'
  BY RingStep DEF OrderInv, RingInv
<1> SUFFICES WaitingInOrder' /\ CopiesFaithful' /\ DeliveredInOrder'
  BY <1>0 DEF OrderInv
<1>t. /\ start \in 0..(Size - 1) /\ end \in 0..(Size - 1) /\ count_event \in Nat
      /\ \A i \in Index : array_element[i] \in Nat
      /\ \A r \in Readers : segment_1[r] \in 0..Size /\ segment_2[r] \in 0..Size
      /\ delivered \in Seq(Nat)
  BY <1>0 DEF TypeOK, Index
<1>h. WaitingInOrder /\ CopiesFaithful /\ DeliveredInOrder
  BY DEF OrderInv
<1>k. \A r \in Readers : ReaderKnows(r)
  BY <1>0 DEF RingInv
<1>1. CASE get_counter \/ cbWrite_full
  <2>1. /\ UNCHANGED <<start, end, array_element, reader, delivered>>
        /\ \/ wpc = "idle" /\ wpc' = "check" /\ count_event' = count_event + 1
           \/ wpc = "check" /\ wpc' = "idle" /\ count_event' = count_event
    BY <1>1 DEF get_counter, cbWrite_full, ring
  <2>2. \A n \in Nat : ~Fresh(n) => ~Fresh(n)'
    BY <1>t, <2>1 DEF Fresh
  <2>3. \A k \in DOMAIN delivered : delivered[k] \in Nat
    BY <1>t
  <2>4. WaitingInOrder'
    BY <1>h, <1>t, <2>1, <2>2, <2>3 DEF WaitingInOrder, Unread, Older, Fresh
  <2>5. CopiesFaithful'
    <3>1. count_event' # Torn \/ wpc' = "idle"
      BY <1>t, <2>1 DEF Torn
    <3>2. \A n : Copy(n)' = Copy(n)
      BY <2>1 DEF Copy
    <3>3. QED
      BY <1>h, <2>1, <3>1, <3>2 DEF CopiesFaithful, reader
  <2>6. QED
    BY <1>h, <2>1, <2>4, <2>5 DEF DeliveredInOrder
<1>2. CASE cbWrite_memcpy \/ cbWrite_copied
  <2>1. PICK v \in {Torn, count_event} :
          /\ array_element' = [array_element EXCEPT ![end] = v]
          /\ wpc' = "publish" => v = count_event
          /\ wpc # "idle" /\ wpc' # "idle"
          /\ UNCHANGED <<start, end, reader, delivered, count_event>>
    BY <1>2 DEF cbWrite_memcpy, cbWrite_copied
  <2>2. \A i \in Index : Unread(i) => i # end
    BY <1>t DEF Unread, Index
  <2>3. WaitingInOrder'
    BY <1>0, <1>h, <2>1, <2>2 DEF WaitingInOrder, Unread, Older, Fresh, TypeOK
  <2>4. ASSUME NEW r \in Readers, rpc[r] = "advance1"
        PROVE  Copy(segment_1[r])' = Copy(segment_1[r])
    <3>1. start + segment_1[r] <= (IF start <= end THEN end ELSE Size)
      BY <1>k, <2>4 DEF ReaderKnows
    <3>2. v \in Nat /\ segment_1'[r] = segment_1[r]
      BY <1>t, <2>1 DEF Torn, reader
    <3>3. QED
      BY <1>0, <1>t, <2>1, <3>1, <3>2, CopyApart
  <2>5. ASSUME NEW r \in Readers, rpc[r] = "advance2"
        PROVE  Copy(segment_2[r])' = Copy(segment_2[r])
    <3>1. start + segment_2[r] <= (IF start <= end THEN end ELSE Size)
      BY <1>k, <1>t, <2>5 DEF ReaderKnows
    <3>2. v \in Nat /\ segment_2'[r] = segment_2[r]
      BY <1>t, <2>1 DEF Torn, reader
    <3>3. QED
      BY <1>0, <1>t, <2>1, <3>1, <3>2, CopyApart
  <2>6. CopiesFaithful'
    <3>1. wpc' = "publish" => array_element'[end'] = count_event'
      BY <1>0, <2>1 DEF TypeOK
    <3>2. count_event' # Torn
      BY <1>h, <2>1 DEF CopiesFaithful
    <3>3. QED
      BY <1>h, <2>1, <2>4, <2>5, <3>1, <3>2 DEF CopiesFaithful, reader
  <2>7. QED
    BY <1>h, <2>1, <2>3, <2>6 DEF DeliveredInOrder
<1>3. CASE cbWrite_publish
  <2>1. /\ wpc = "publish" /\ wpc' = "idle" /\ end' = (end + 1) % Size
        /\ UNCHANGED <<start, array_element, reader, delivered, count_event>>
    BY <1>3 DEF cbWrite_publish
  <2>2. end' = IF end + 1 < Size THEN end + 1 ELSE end + 1 - Size
    <3>1. end \in Index /\ 1 \in 0..Size
      BY <1>t DEF Index
    <3>2. QED
      BY <2>1, <3>1, Advance
  <2>3. ~(IF end + 1 < Size THEN end + 1 = start ELSE start = 0)
    BY <1>0, <2>1, FullIff DEF RingInv, WriterHasRoom
  <2>4. ASSUME NEW i \in Index PROVE Unread(i)' <=> Unread(i) \/ i = end
    BY <1>t, <2>1, <2>2, <2>3 DEF Unread, Index
  <2>5. ASSUME NEW i \in Index, Unread(i) PROVE ~Older(end, i)
    BY <1>t, <2>5 DEF Unread, Older, Index
  <2>6. array_element[end] = count_event /\ count_event # Torn
    BY <1>h, <2>1 DEF CopiesFaithful
  <2>7. ASSUME NEW i \in Index, Unread(i) PROVE array_element[i] < count_event
    BY <1>h, <1>t, <2>1, <2>7 DEF WaitingInOrder, Fresh
  <2>8. \A k \in DOMAIN delivered : delivered[k] \in Nat /\ delivered[k] < count_event
    BY <1>h, <1>t, <2>1 DEF WaitingInOrder, Fresh
  <2>9. WaitingInOrder'
    <3>1. ASSUME NEW i \in Index, Unread(i)'
          PROVE  array_element'[i] # Torn /\ ~Fresh(array_element[i])'
      BY <1>h, <1>t, <2>1, <2>4, <2>6, <2>7, <3>1 DEF WaitingInOrder, Fresh
    <3>2. ASSUME NEW i \in Index, NEW j \in Index, Unread(i)', Unread(j)', Older(i, j)'
          PROVE  array_element'[i] < array_element'[j]
      <4>1. Older(i, j) /\ (Unread(i) \/ i = end) /\ (Unread(j) \/ j = end)
        BY <2>1, <2>4, <3>2 DEF Older
      <4>2. ~Older(end, end)
        BY <1>t DEF Older
      <4>3. QED
        BY <1>h, <2>1, <2>5, <2>6, <2>7, <4>1, <4>2 DEF WaitingInOrder
    <3>3. ASSUME NEW k \in DOMAIN delivered' PROVE ~Fresh(delivered[k])'
      BY <1>t, <2>1, <2>8 DEF Fresh
    <3>4. ASSUME NEW k \in DOMAIN delivered', NEW i \in Index, Unread(i)'
          PROVE  delivered'[k] < array_element'[i]
      BY <1>h, <2>1, <2>4, <2>6, <2>8, <3>4 DEF WaitingInOrder
    <3>5. QED
      BY <3>1, <3>2, <3>3, <3>4 DEF WaitingInOrder
  <2>10. CopiesFaithful'
    BY <1>h, <2>1 DEF CopiesFaithful, reader, Copy
  <2>11. QED
    BY <1>h, <2>1, <2>9, <2>10 DEF DeliveredInOrder
<1>4. ASSUME NEW r \in Readers,
             \/ \E n \in ReadSizes : cbRead_list(r, n)
             \/ cbRead_list_empty(r) \/ cbRead_list_segments(r) \/ cbRead(r)
             \/ cbRead_list_copy1(r) \/ cbRead_list_copy2(r)
      PROVE  WaitingInOrder' /\ CopiesFaithful' /\ DeliveredInOrder'
  <2>1. UNCHANGED <<count_event, start, end, array_element, wpc, delivered>>
    BY <1>4 DEF cbRead_list, cbRead_list_empty, cbRead_list_segments, cbRead,
                cbRead_list_copy1, cbRead_list_copy2, ring
  <2>2. WaitingInOrder' /\ DeliveredInOrder'
    BY <1>h, <2>1 DEF WaitingInOrder, DeliveredInOrder, Unread, Older, Fresh
  <2>c. \A n : Copy(n)' = Copy(n)
    BY <2>1 DEF Copy
  <2>3. /\ rpc'[r] = "advance1" => elem'[r] = Copy(segment_1'[r])
        /\ rpc'[r] = "advance2" => elem'[r] = Copy(segment_2'[r])
    <3>1. CASE cbRead_list_copy1(r) \/ cbRead_list_copy2(r)
      BY <1>0, <3>1 DEF cbRead_list_copy1, cbRead_list_copy2, TypeOK
    <3>2. CASE ~(cbRead_list_copy1(r) \/ cbRead_list_copy2(r))
      <4>1. rpc'[r] \notin {"advance1", "advance2"}
        BY <1>0, <1>4, <3>2
           DEF cbRead_list, cbRead_list_empty, cbRead_list_segments, cbRead, TypeOK
      <4>2. QED
        BY <4>1
    <3>3. QED
      BY <3>1, <3>2
  <2>4. CopiesFaithful'
    BY <1>h, <2>1, <2>3, <2>c DEF CopiesFaithful, OneReader
  <2>5. QED
    BY <2>2, <2>4
<1>5. ASSUME NEW r \in Readers, cbRead_list_advance1(r)
      PROVE  WaitingInOrder' /\ CopiesFaithful' /\ DeliveredInOrder'
  <2>1. /\ rpc[r] = "advance1" /\ rpc'[r] \notin {"advance1", "advance2"}
        /\ start' = (start + segment_1[r]) % Size
        /\ delivered' = delivered \o elem[r]
        /\ UNCHANGED <<end, array_element, count_event, wpc>>
    BY <1>5, <1>0 DEF cbRead_list_advance1, TypeOK
  <2>2. elem[r] = Copy(segment_1[r])
    BY <1>h, <2>1 DEF CopiesFaithful
  <2>3. start + segment_1[r] <= (IF start <= end THEN end ELSE Size)
    BY <1>k, <2>1 DEF ReaderKnows
  <2>4. WaitingInOrder' /\ DeliveredInOrder'
    BY <1>0, <1>h, <1>t, <2>1, <2>2, <2>3, DeliverStep
  <2>5. CopiesFaithful'
    BY <1>h, <2>1 DEF CopiesFaithful, OneReader
  <2>6. QED
    BY <2>4, <2>5
<1>6. ASSUME NEW r \in Readers, cbRead_list_advance2(r)
      PROVE  WaitingInOrder' /\ CopiesFaithful' /\ DeliveredInOrder'
  <2>1. /\ rpc[r] = "advance2" /\ rpc'[r] = "idle"
        /\ start' = (start + segment_2[r]) % Size
        /\ delivered' = delivered \o elem[r]
        /\ UNCHANGED <<end, array_element, count_event, wpc>>
    BY <1>6, <1>0 DEF cbRead_list_advance2, TypeOK
  <2>2. elem[r] = Copy(segment_2[r])
    BY <1>h, <2>1 DEF CopiesFaithful
  <2>3. start + segment_2[r] <= (IF start <= end THEN end ELSE Size)
    BY <1>k, <1>t, <2>1 DEF ReaderKnows
  <2>4. WaitingInOrder' /\ DeliveredInOrder'
    BY <1>0, <1>h, <1>t, <2>1, <2>2, <2>3, DeliverStep
  <2>5. CopiesFaithful'
    BY <1>h, <2>1 DEF CopiesFaithful, OneReader
  <2>6. QED
    BY <2>4, <2>5
<1>7. CASE UNCHANGED vars
  BY <1>7, <1>h DEF vars, ring, reader, WaitingInOrder, CopiesFaithful,
                    DeliveredInOrder, Unread, Older, Fresh, Copy
<1>8. QED
  BY <1>1, <1>2, <1>3, <1>4, <1>5, <1>6, <1>7 DEF Next, Writer, Reader

\* With one reader, the order holds in every reachable state.
LEMMA OrderInvariant ==
  ASSUME OneReader
  PROVE  Spec => []OrderInv
<1>1. Init => OrderInv
  <2> SUFFICES ASSUME Init PROVE OrderInv
    OBVIOUS
  <2>1. DOMAIN delivered = {} /\ \A i \in Index : ~Unread(i)
    BY SizeAssumption DEF Init, Unread, Index
  <2>2. WaitingInOrder /\ DeliveredInOrder
    BY <2>1 DEF WaitingInOrder, DeliveredInOrder
  <2>3. CopiesFaithful
    BY DEF Init, CopiesFaithful
  <2>4. QED
    BY <2>2, <2>3, RingInit DEF OrderInv
<1>2. OrderInv /\ [Next]_vars => OrderInv'
  BY OrderStep
<1>3. QED
  BY <1>1, <1>2, PTL DEF Spec

\* With one reader, the measures the trace device hands out are whole and in the
\* order of their events, however long the system runs and wherever the ring
\* wraps.
THEOREM ReadsInOrder ==
  ASSUME OneReader
  PROVE  Spec => []DeliveredInOrder
<1>1. OrderInv => DeliveredInOrder
  BY DEF OrderInv
<1>2. QED
  BY <1>1, OrderInvariant, PTL

-----------------------------------------------------------------------------
(* Every event is accounted for.                                           *)

\* A measure that was handed out, one that waits in the ring, either of them.
Handed(v)  == \E k \in DOMAIN delivered : delivered[k] = v
Waiting(v) == \E i \in Index : Unread(i) /\ array_element[i] = v
Kept(v)    == Handed(v) \/ Waiting(v)

\* A number that is no longer fresh is kept or dropped, and not both.
AccountInv ==
  /\ \A v \in dropped : v \in Nat \ {0} /\ ~Fresh(v) /\ ~Kept(v)
  /\ \A v \in 1..count_event : Fresh(v) \/ Kept(v) \/ v \in dropped

\* What is kept has a number that is not fresh.
LEMMA KeptOld ==
  ASSUME OrderInv, NEW v, Kept(v)
  PROVE  v \in Nat \ {0} /\ ~Fresh(v)
<1>1. CASE Handed(v)
  <2>1. PICK k \in DOMAIN delivered : delivered[k] = v
    BY <1>1 DEF Handed
  <2>2. delivered[k] \in Nat
    BY DEF OrderInv, RingInv, TypeOK
  <2>3. QED
    BY <2>1, <2>2 DEF OrderInv, DeliveredInOrder, WaitingInOrder, Torn
<1>2. CASE Waiting(v)
  BY <1>2 DEF Waiting, OrderInv, RingInv, TypeOK, WaitingInOrder, Torn
<1>3. QED
  BY <1>1, <1>2 DEF Kept

\* Handing out n measures from start on moves them, and loses none.
LEMMA DeliverKept ==
  ASSUME TypeOK, NEW n \in 0..Size,
         start + n <= (IF start <= end THEN end ELSE Size),
         start' = (start + n) % Size,
         delivered' = delivered \o Copy(n),
         UNCHANGED <<end, array_element>>, NEW v
  PROVE  Kept(v)' <=> Kept(v)
<1> USE SizeAssumption
<1>1. /\ start \in 0..(Size - 1) /\ end \in 0..(Size - 1) /\ delivered \in Seq(Nat)
  BY DEF TypeOK, Index
<1>2. start' = IF start + n < Size THEN start + n ELSE start + n - Size
  <2>1. start \in Index
    BY DEF TypeOK
  <2>2. QED
    BY <2>1, Advance
<1>3. /\ Copy(n) \in Seq(Nat) /\ Len(Copy(n)) = n
      /\ \A k \in 1..n : Copy(n)[k] = IF start + k - 1 \in Index
                                      THEN array_element[start + k - 1] ELSE Torn
  <2>1. n \in Nat
    OBVIOUS
  <2>2. QED
    BY <2>1, CopyType
<1>4. ASSUME NEW k \in 1..n
      PROVE  /\ start + k - 1 \in Index /\ Unread(start + k - 1)
             /\ Copy(n)[k] = array_element[start + k - 1]
  <2>1. start + k - 1 \in Index /\ Unread(start + k - 1)
    BY <1>1 DEF Unread, Index
  <2>2. QED
    BY <1>3, <2>1
<1>5. ASSUME NEW i \in Index
      PROVE  Unread(i) <=> Unread(i)' \/ (i - start + 1 \in 1..n)
  BY <1>1, <1>2 DEF Unread, Index
<1>6. /\ Len(delivered) \in Nat /\ DOMAIN delivered = 1..Len(delivered)
      /\ DOMAIN delivered' = 1..(Len(delivered) + n)
      /\ \A k \in 1..Len(delivered) : delivered'[k] = delivered[k]
      /\ \A k \in (Len(delivered) + 1)..(Len(delivered) + n) :
           delivered'[k] = Copy(n)[k - Len(delivered)]
  <2>1. /\ delivered' \in Seq(Nat)
        /\ Len(delivered') = Len(delivered) + Len(Copy(n))
        /\ \A k \in 1..Len(delivered) : delivered'[k] = delivered[k]
        /\ \A k \in (Len(delivered) + 1)..(Len(delivered) + Len(Copy(n))) :
             delivered'[k] = Copy(n)[k - Len(delivered)]
    <3>1. delivered \in Seq(Nat) /\ Copy(n) \in Seq(Nat)
      BY <1>1, <1>3
    <3>2. QED
      BY <3>1, ConcatElements, SMT
  <2>2. QED
    BY <1>1, <1>3, <2>1
<1>7. Handed(v)' <=> Handed(v) \/ \E k \in 1..n : Copy(n)[k] = v
  <2>1. \A k \in 1..n : /\ Len(delivered) + k \in DOMAIN delivered'
                        /\ delivered'[Len(delivered) + k] = Copy(n)[k]
    BY <1>6
  <2>2. \A k \in DOMAIN delivered' : \/ k \in DOMAIN delivered /\ delivered'[k] = delivered[k]
                                    \/ /\ k - Len(delivered) \in 1..n
                                       /\ delivered'[k] = Copy(n)[k - Len(delivered)]
    BY <1>6
  <2>3. \A k \in DOMAIN delivered : k \in DOMAIN delivered' /\ delivered'[k] = delivered[k]
    BY <1>6
  <2>4. ASSUME Handed(v)' PROVE Handed(v) \/ \E k \in 1..n : Copy(n)[k] = v
    <3>1. PICK k \in DOMAIN delivered' : delivered'[k] = v
      BY <2>4 DEF Handed
    <3>2. QED
      BY <2>2, <3>1 DEF Handed
  <2>5. ASSUME Handed(v) PROVE Handed(v)'
    BY <2>3, <2>5 DEF Handed
  <2>6. ASSUME NEW k \in 1..n, Copy(n)[k] = v PROVE Handed(v)'
    BY <2>1, <2>6 DEF Handed
  <2>7. QED
    BY <2>4, <2>5, <2>6
<1>8. Waiting(v) <=> Waiting(v)' \/ \E k \in 1..n : Copy(n)[k] = v
  <2>1. \A i \in Index : i - start + 1 \in 1..n => Copy(n)[i - start + 1] = array_element[i]
    <3>1. \A i \in Index : start + (i - start + 1) - 1 = i
      BY <1>1 DEF Index
    <3>2. QED
      BY <1>4, <3>1
  <2>2. QED
    BY <1>4, <1>5, <2>1 DEF Waiting
<1>9. QED
  BY <1>7, <1>8 DEF Kept

\* Every step keeps the account.
LEMMA AccountStep ==
  ASSUME OneReader, OrderInv, AccountInv, [Next]_vars
  PROVE  AccountInv'
<1> USE SizeAssumption
<1>0. TypeOK /\ RingInv
  BY DEF OrderInv, RingInv
<1>t. /\ start \in 0..(Size - 1) /\ end \in 0..(Size - 1) /\ count_event \in Nat
      /\ \A r \in Readers : segment_1[r] \in 0..Size /\ segment_2[r] \in 0..Size
  BY <1>0 DEF TypeOK, Index
<1>k. \A r \in Readers : ReaderKnows(r)
  BY <1>0 DEF RingInv
<1>h. WaitingInOrder /\ CopiesFaithful
  BY DEF OrderInv
<1>s. ASSUME \A v : Kept(v)' <=> Kept(v), UNCHANGED <<count_event, wpc, dropped>>
      PROVE  AccountInv'
  BY <1>s DEF AccountInv, Fresh
<1>1. CASE get_counter
  <2>1. /\ wpc = "idle" /\ wpc' = "check" /\ count_event' = count_event + 1
        /\ UNCHANGED <<start, end, array_element, delivered, dropped>>
    BY <1>1 DEF get_counter
  <2>2. \A v : Kept(v)' <=> Kept(v)
    BY <2>1 DEF Kept, Handed, Waiting, Unread
  <2>3. \A v \in Nat : Fresh(v)' <=> Fresh(v)
    BY <1>t, <2>1 DEF Fresh
  <2>4. \A v \in 1..count_event' : Fresh(v)' \/ v \in 1..count_event
    BY <1>t, <2>1 DEF Fresh
  <2>5. \A v \in 1..count_event : v \in Nat
    BY <1>t
  <2>6. QED
    BY <2>1, <2>2, <2>3, <2>4, <2>5 DEF AccountInv
<1>2. CASE cbWrite_full
  <2>1. /\ wpc = "check" /\ wpc' = "idle" /\ dropped' = dropped \union {count_event}
        /\ UNCHANGED <<count_event, start, end, array_element, delivered>>
    BY <1>2 DEF cbWrite_full, ring
  <2>2. \A v : Kept(v)' <=> Kept(v)
    BY <2>1 DEF Kept, Handed, Waiting, Unread
  <2>3. \A v \in Nat : Fresh(v)' <=> Fresh(v) /\ v # count_event
    BY <1>t, <2>1 DEF Fresh
  <2>4. ~Kept(count_event) /\ count_event # 0 /\ Fresh(count_event)
    BY <1>h, <1>t, <2>1, KeptOld DEF Fresh, CopiesFaithful, Torn
  <2>5. \A v \in 1..count_event : v \in Nat
    BY <1>t
  <2>6. QED
    BY <1>t, <2>1, <2>2, <2>3, <2>4, <2>5 DEF AccountInv
<1>3. CASE cbWrite_memcpy \/ cbWrite_copied
  <2>1. /\ UNCHANGED <<start, end, delivered, count_event, dropped>>
        /\ wpc # "idle" /\ wpc' # "idle"
        /\ \A i \in Index : i # end => array_element'[i] = array_element[i]
    BY <1>0, <1>3 DEF cbWrite_memcpy, cbWrite_copied, TypeOK
  <2>2. \A i \in Index : Unread(i) => i # end
    BY <1>t DEF Unread, Index
  <2>3. \A v : Kept(v)' <=> Kept(v)
    BY <2>1, <2>2 DEF Kept, Handed, Waiting, Unread
  <2>4. QED
    BY <2>1, <2>3 DEF AccountInv, Fresh
<1>4. CASE cbWrite_publish
  <2>1. /\ wpc = "publish" /\ wpc' = "idle" /\ end' = (end + 1) % Size
        /\ UNCHANGED <<start, array_element, delivered, count_event, dropped>>
    BY <1>4 DEF cbWrite_publish
  <2>2. end' = IF end + 1 < Size THEN end + 1 ELSE end + 1 - Size
    <3>1. end \in Index /\ 1 \in 0..Size
      BY <1>t DEF Index
    <3>2. QED
      BY <2>1, <3>1, Advance
  <2>3. ~(IF end + 1 < Size THEN end + 1 = start ELSE start = 0)
    BY <1>0, <2>1, FullIff DEF RingInv, WriterHasRoom
  <2>4. \A i \in Index : Unread(i)' <=> Unread(i) \/ i = end
    BY <1>t, <2>1, <2>2, <2>3 DEF Unread, Index
  <2>5. array_element[end] = count_event /\ end \in Index
    BY <1>h, <1>t, <2>1 DEF CopiesFaithful, Index
  <2>6. \A v : Kept(v)' <=> Kept(v) \/ v = count_event
    BY <2>1, <2>4, <2>5 DEF Kept, Handed, Waiting
  <2>7. \A v \in Nat : Fresh(v)' <=> Fresh(v) /\ v # count_event
    BY <1>t, <2>1 DEF Fresh
  <2>8. Fresh(count_event)
    BY <1>t, <2>1 DEF Fresh
  <2>9. \A v \in 1..count_event : v \in Nat
    BY <1>t
  <2>10. QED
    BY <2>1, <2>6, <2>7, <2>8, <2>9 DEF AccountInv
<1>5. ASSUME NEW r \in Readers,
             \/ \E n \in ReadSizes : cbRead_list(r, n)
             \/ cbRead_list_empty(r) \/ cbRead_list_segments(r) \/ cbRead(r)
             \/ cbRead_list_copy1(r) \/ cbRead_list_copy2(r)
      PROVE  AccountInv'
  <2>1. UNCHANGED <<count_event, start, end, array_element, wpc, delivered, dropped>>
    BY <1>5 DEF cbRead_list, cbRead_list_empty, cbRead_list_segments, cbRead,
                cbRead_list_copy1, cbRead_list_copy2, ring
  <2>2. \A v : Kept(v)' <=> Kept(v)
    BY <2>1 DEF Kept, Handed, Waiting, Unread
  <2>3. QED
    BY <1>s, <2>1, <2>2
<1>6. ASSUME NEW r \in Readers, cbRead_list_advance1(r) PROVE AccountInv'
  <2>1. /\ rpc[r] = "advance1" /\ start' = (start + segment_1[r]) % Size
        /\ delivered' = delivered \o elem[r]
        /\ UNCHANGED <<end, array_element, count_event, wpc, dropped>>
    BY <1>6 DEF cbRead_list_advance1
  <2>2. elem[r] = Copy(segment_1[r])
    BY <1>h, <2>1 DEF CopiesFaithful
  <2>3. start + segment_1[r] <= (IF start <= end THEN end ELSE Size)
    BY <1>k, <2>1 DEF ReaderKnows
  <2>4. \A v : Kept(v)' <=> Kept(v)
    BY <1>0, <1>t, <2>1, <2>2, <2>3, DeliverKept
  <2>5. QED
    BY <1>s, <2>1, <2>4
<1>7. ASSUME NEW r \in Readers, cbRead_list_advance2(r) PROVE AccountInv'
  <2>1. /\ rpc[r] = "advance2" /\ start' = (start + segment_2[r]) % Size
        /\ delivered' = delivered \o elem[r]
        /\ UNCHANGED <<end, array_element, count_event, wpc, dropped>>
    BY <1>7 DEF cbRead_list_advance2
  <2>2. elem[r] = Copy(segment_2[r])
    BY <1>h, <2>1 DEF CopiesFaithful
  <2>3. start + segment_2[r] <= (IF start <= end THEN end ELSE Size)
    BY <1>k, <1>t, <2>1 DEF ReaderKnows
  <2>4. \A v : Kept(v)' <=> Kept(v)
    BY <1>0, <1>t, <2>1, <2>2, <2>3, DeliverKept
  <2>5. QED
    BY <1>s, <2>1, <2>4
<1>8. CASE UNCHANGED vars
  <2>1. UNCHANGED <<count_event, start, end, array_element, wpc, delivered, dropped>>
    BY <1>8 DEF vars, ring
  <2>2. \A v : Kept(v)' <=> Kept(v)
    BY <2>1 DEF Kept, Handed, Waiting, Unread
  <2>3. QED
    BY <1>s, <2>1, <2>2
<1>9. QED
  BY <1>1, <1>2, <1>3, <1>4, <1>5, <1>6, <1>7, <1>8 DEF Next, Writer, Reader

\* With one reader, every number get_counter has given out was handed to a reader,
\* waits in the ring, was dropped by a full ring or belongs to the write in
\* progress, and only one of these.
THEOREM Accounted ==
  ASSUME OneReader
  PROVE  Spec => []EventsAccounted
<1>1. Init => AccountInv
  BY DEF Init, AccountInv
<1>2. OrderInv /\ AccountInv /\ [Next]_vars => AccountInv'
  BY AccountStep
<1>3. OrderInv /\ AccountInv => EventsAccounted
  <2> SUFFICES ASSUME OrderInv, AccountInv PROVE EventsAccounted
    OBVIOUS
  <2> DEFINE handed  == {delivered[i] : i \in DOMAIN delivered}
             waiting == {array_element[i] : i \in {i \in Index : Unread(i)}}
             writing == IF wpc = "idle" THEN {} ELSE {count_event}
  <2>1. \A v : v \in handed <=> Handed(v)
    BY DEF Handed
  <2>2. \A v : v \in waiting <=> Waiting(v)
    BY DEF Waiting
  <2>3. count_event \in Nat /\ (wpc # "idle" => count_event # 0)
    BY DEF OrderInv, RingInv, TypeOK, CopiesFaithful, Torn
  <2>4. \A v \in Nat : Fresh(v) <=> v > count_event \/ v \in writing
    BY <2>3 DEF Fresh
  <2>5. \A v \in writing : v \in 1..count_event
    BY <2>3
  <2>6. \A v : Handed(v) => ~Waiting(v)
    <3> SUFFICES ASSUME NEW k \in DOMAIN delivered, NEW i \in Index, Unread(i),
                        delivered[k] = array_element[i]
                 PROVE  FALSE
      BY DEF Handed, Waiting
    <3>1. delivered[k] < array_element[i] /\ array_element[i] \in Nat
      BY DEF OrderInv, WaitingInOrder, RingInv, TypeOK
    <3>2. QED
      BY <3>1
  <2> HIDE DEF handed, waiting, writing
  <2>7. \A v : v \in handed \union waiting \union dropped \union writing <=> v \in 1..count_event
    <3>1. ASSUME NEW v \in Nat \ {0}, ~Fresh(v) PROVE v \in 1..count_event
      BY <2>3, <2>4, <3>1
    <3>2. ASSUME NEW v \in handed \union waiting \union dropped \union writing
          PROVE  v \in 1..count_event
      BY <2>1, <2>2, <2>5, <3>1, KeptOld DEF AccountInv, Kept
    <3>3. ASSUME NEW v \in 1..count_event
          PROVE  v \in handed \union waiting \union dropped \union writing
      <4>1. ~(v > count_event) /\ v \in Nat
        BY <2>3
      <4>2. QED
        BY <2>1, <2>2, <2>4, <4>1 DEF AccountInv, Kept
    <3>4. QED
      BY <3>2, <3>3
  <2>8. \A v \in writing : v \in Nat /\ Fresh(v)
    BY <2>3, <2>4, <2>5
  <2>9. handed \union waiting \union dropped \union writing = 1..count_event
    BY <2>7
  <2>10. /\ handed \intersect waiting = {}
         /\ dropped \intersect (handed \union waiting) = {}
         /\ writing \intersect (handed \union waiting \union dropped) = {}
    BY <2>1, <2>2, <2>6, <2>8, KeptOld DEF AccountInv, Kept
  <2>11. QED
    BY <2>9, <2>10 DEF EventsAccounted, handed, waiting, writing
<1>4. QED
  BY <1>1, <1>2, <1>3, OrderInvariant, PTL DEF Spec

-----------------------------------------------------------------------------
(* The ring implements the FIFO log.                                       *)

\* The slot of the i-th oldest measure.
Slot(i) == IF start + i - 1 < Size THEN start + i - 1 ELSE start + i - 1 - Size

\* The log the ring stands for holds the unread slots, oldest first.
QueueIs ==
  /\ Held \in 0..(Size - 1) /\ Queue \in Seq(Nat) /\ Len(Queue) = Held
  /\ \A i \in 1..Held : /\ Slot(i) \in Index /\ Unread(Slot(i))
                         /\ Queue[i] = array_element[Slot(i)]

\* What the types alone say of the log.
LEMMA QueueSlots == TypeOK => QueueIs
<1> SUFFICES ASSUME TypeOK PROVE QueueIs
  OBVIOUS
<1> USE SizeAssumption
<1>1. /\ start \in 0..(Size - 1) /\ end \in 0..(Size - 1)
      /\ \A i \in Index : array_element[i] \in Nat
  BY DEF TypeOK, Index
<1>2. Held \in 0..(Size - 1)
  BY <1>1 DEF Held
<1>3. ASSUME NEW i \in 1..Held
      PROVE  /\ Slot(i) \in Index /\ Unread(Slot(i))
             /\ array_element[(start + i - 1) % Size] = array_element[Slot(i)]
  <2>1. Slot(i) \in Index /\ Unread(Slot(i))
    BY <1>1 DEF Held, Slot, Index, Unread
  <2>2. i - 1 \in 0..Size /\ start \in Index /\ start + (i - 1) = start + i - 1
    BY <1>1, <1>2 DEF Index
  <2>3. (start + (i - 1)) % Size = IF start + (i - 1) < Size THEN start + (i - 1)
                                   ELSE start + (i - 1) - Size
    BY <2>2, Advance
  <2>4. (start + i - 1) % Size = Slot(i)
    BY <2>2, <2>3 DEF Slot
  <2>5. QED
    BY <2>1, <2>4
<1>4. \A i \in 1..Held : array_element[(start + i - 1) % Size] \in Nat
  BY <1>1, <1>3
<1>5. Queue = [i \in 1..Held |-> array_element[(start + i - 1) % Size]]
  BY DEF Queue
<1> HIDE DEF Held
<1>6. Queue \in Seq(Nat) /\ Len(Queue) = Held
  <2>1. Held \in Nat
    BY <1>2
  <2>2. QED
    BY <1>4, <1>5, <2>1
<1>7. \A i \in 1..Held : Queue[i] = array_element[Slot(i)]
  BY <1>3, <1>5
<1>8. QED
  BY <1>2, <1>3, <1>6, <1>7 DEF QueueIs

\* A step that leaves start, end and the unread slots alone leaves the log alone.
LEMMA QueueSame ==
  ASSUME TypeOK, TypeOK', UNCHANGED <<start, end>>,
         \A i \in Index : Unread(i) => array_element'[i] = array_element[i]
  PROVE  Queue' = Queue
<1>1. QueueIs /\ QueueIs'
  BY QueueSlots, PTL
<1>2. Held' = Held /\ \A i : Slot(i)' = Slot(i)
  BY DEF Held, Slot
<1>3. Len(Queue') = Len(Queue) /\ \A i \in 1..Len(Queue) : Queue'[i] = Queue[i]
  BY <1>1, <1>2 DEF QueueIs
<1>4. Queue \in Seq(Nat) /\ Queue' \in Seq(Nat)
  BY <1>1 DEF QueueIs
<1>5. QED
  BY <1>3, <1>4, SeqEqual

\* cbWrite, when it moves end, appends its measure to a log that has room.
LEMMA PublishStores ==
  ASSUME OrderInv, TypeOK', cbWrite_publish
  PROVE  Log!Store
<1> USE SizeAssumption
<1>0. TypeOK /\ start \in 0..(Size - 1) /\ end \in 0..(Size - 1) /\ count_event \in Nat
  BY DEF OrderInv, RingInv, TypeOK, Index
<1>1. /\ wpc = "publish" /\ end' = (end + 1) % Size
      /\ UNCHANGED <<start, array_element, delivered, count_event, dropped>>
  BY DEF cbWrite_publish
<1>2. end' = IF end + 1 < Size THEN end + 1 ELSE end + 1 - Size
  <2>1. end \in Index /\ 1 \in 0..Size
    BY <1>0 DEF Index
  <2>2. QED
    BY <1>1, <2>1, Advance
<1>3. ~(IF end + 1 < Size THEN end + 1 = start ELSE start = 0)
  BY <1>0, <1>1, FullIff DEF OrderInv, RingInv, WriterHasRoom
<1>4. QueueIs /\ QueueIs'
  BY <1>0, QueueSlots, PTL
<1>5. Held < Size - 1 /\ Held' = Held + 1 /\ Held \in Nat
  BY <1>0, <1>1, <1>2, <1>3 DEF Held
<1>6. Slot(Held + 1) = end
  BY <1>0 DEF Held, Slot
<1>7. \A i : Slot(i)' = Slot(i)
  BY <1>1 DEF Slot
<1>8. array_element[end] = count_event
  BY <1>1 DEF OrderInv, CopiesFaithful
<1> HIDE DEF Held
<1>9. Queue \in Seq(Nat) /\ Queue' \in Seq(Nat) /\ Len(Queue) = Held /\ Len(Queue') = Held + 1
  BY <1>4, <1>5 DEF QueueIs
<1>10. ASSUME NEW i \in 1..Held PROVE Queue'[i] = Queue[i]
  <2>1. i \in 1..(Held + 1)
    BY <1>5
  <2>2. Queue'[i] = array_element[Slot(i)]
    BY <1>1, <1>4, <1>5, <1>7, <2>1 DEF QueueIs
  <2>3. QED
    BY <1>4, <2>2 DEF QueueIs
<1>11. Queue'[Held + 1] = count_event
  BY <1>1, <1>4, <1>5, <1>6, <1>7, <1>8 DEF QueueIs
<1>12. Queue' = Append(Queue, count_event)
  <2>1. /\ Append(Queue, count_event) \in Seq(Nat) /\ Len(Append(Queue, count_event)) = Held + 1
        /\ \A i \in 1..Held : Append(Queue, count_event)[i] = Queue[i]
        /\ Append(Queue, count_event)[Held + 1] = count_event
    BY <1>0, <1>5, <1>9
  <2>2. \A i \in 1..(Held + 1) : i \in 1..Held \/ i = Held + 1
    BY <1>5
  <2> DEFINE q == Append(Queue, count_event)
  <2> HIDE DEF q
  <2>3. /\ q \in Seq(Nat) /\ Len(q) = Held + 1
        /\ \A i \in 1..(Held + 1) : Queue'[i] = q[i]
    BY <1>10, <1>11, <2>1, <2>2 DEF q
  <2>4. QED
    BY <1>9, <2>3, SeqEqual DEF q
<1>13. QED
  BY <1>1, <1>5, <1>9, <1>12 DEF Log!Store

\* cbRead_list, when it moves start, takes the oldest measures out of the log.
LEMMA AdvanceDelivers ==
  ASSUME TypeOK, TypeOK', NEW n \in 0..Size,
         start + n <= (IF start <= end THEN end ELSE Size),
         start' = (start + n) % Size,
         delivered' = delivered \o Copy(n),
         UNCHANGED <<end, array_element, count_event, dropped>>
  PROVE  Log!LogNext \/ UNCHANGED Log!logVars
<1> USE SizeAssumption
<1>1. /\ start \in 0..(Size - 1) /\ end \in 0..(Size - 1) /\ delivered \in Seq(Nat)
  BY DEF TypeOK, Index
<1>2. start' = IF start + n < Size THEN start + n ELSE start + n - Size
  <2>1. start \in Index
    BY DEF TypeOK
  <2>2. QED
    BY <2>1, Advance
<1>3. /\ Copy(n) \in Seq(Nat) /\ Len(Copy(n)) = n
      /\ \A k \in 1..n : Copy(n)[k] = IF start + k - 1 \in Index
                                      THEN array_element[start + k - 1] ELSE Torn
  <2>1. n \in Nat
    OBVIOUS
  <2>2. QED
    BY <2>1, CopyType
<1>4. QueueIs /\ QueueIs'
  BY QueueSlots, PTL
<1>b. start + n <= (IF start <= end THEN end ELSE Size) /\ end' = end /\ n \in 0..Size
  OBVIOUS
<1>5. n <= Held /\ Held' = Held - n /\ Held \in 0..(Size - 1)
  <2>1. CASE start + n < Size
    BY ONLY <1>1, <1>2, <1>b, <2>1, SizeAssumption DEF Held
  <2>2. CASE ~(start + n < Size)
    BY ONLY <1>1, <1>2, <1>b, <2>2, SizeAssumption DEF Held
  <2>3. QED
    BY <2>1, <2>2
<1>6. \A i \in 1..(Held - n) : Slot(i)' = Slot(n + i) /\ n + i \in 1..Held
  <2>1. CASE start + n < Size
    BY ONLY <1>1, <1>2, <1>b, <1>5, <2>1, SizeAssumption DEF Slot
  <2>2. CASE ~(start + n < Size)
    BY ONLY <1>1, <1>2, <1>b, <1>5, <2>2, SizeAssumption DEF Slot, Held
  <2>3. QED
    BY <2>1, <2>2
<1>7. \A k \in 1..n : Slot(k) = start + k - 1 /\ start + k - 1 \in Index /\ k \in 1..Held
  BY <1>1, <1>5 DEF Held, Slot, Index
<1> HIDE DEF Held
<1>8. /\ Queue \in Seq(Nat) /\ Queue' \in Seq(Nat)
      /\ Len(Queue) = Held /\ Len(Queue') = Held - n
  BY <1>4, <1>5 DEF QueueIs
<1>9. \A i \in 1..(Held - n) : Queue'[i] = Queue[n + i]
  BY <1>4, <1>5, <1>6 DEF QueueIs
<1>10. \A k \in 1..n : Copy(n)[k] = Queue[k]
  BY <1>3, <1>4, <1>7 DEF QueueIs
<1> HIDE DEF Queue, Copy
<1>11. CASE n = 0
  <2>1. Len(Queue') = Len(Queue) /\ \A i \in 1..Len(Queue) : Queue'[i] = Queue[i]
    <3>1. \A i \in 1..Held : n + i = i /\ i \in 1..(Held - n)
      BY <1>5, <1>11
    <3>2. QED
      BY <1>5, <1>8, <1>9, <1>11, <3>1
  <2>2. Queue' = Queue
    BY <1>8, <2>1, SeqEqual
  <2>3. Copy(n) = <<>>
    BY <1>3, <1>11
  <2>4. delivered' = delivered
    BY <1>1, <2>3
  <2>5. QED
    BY <2>2, <2>4 DEF Log!logVars
<1>12. CASE n # 0
  <2>1. n \in 1..Len(Queue) /\ Len(Queue) \in Nat
    BY <1>5, <1>8, <1>12
  <2>2. Copy(n) = SubSeq(Queue, 1, n)
    <3>1. \A i \in 1..n : Queue[i] \in Nat
      BY <1>8, <2>1
    <3>2. /\ SubSeq(Queue, 1, n) \in Seq(Nat) /\ Len(SubSeq(Queue, 1, n)) = n
          /\ \A i \in 1..n : SubSeq(Queue, 1, n)[i] = Queue[i]
      BY <1>8, <2>1
    <3> DEFINE q == SubSeq(Queue, 1, n)
    <3> HIDE DEF q
    <3>3. q \in Seq(Nat) /\ Len(q) = n /\ \A i \in 1..n : Copy(n)[i] = q[i]
      BY <1>10, <3>2 DEF q
    <3>4. QED
      BY <1>3, <3>3, SeqEqual DEF q
  <2>3. Queue' = SubSeq(Queue, n + 1, Len(Queue))
    <3> DEFINE q == SubSeq(Queue, n + 1, Len(Queue))
    <3>1. /\ q \in Seq(Nat) /\ Len(q) = Held - n
          /\ \A i \in 1..(Held - n) : q[i] = Queue[n + i]
      <4>1. n + 1 \in Int /\ Len(Queue) \in Int /\ \A i \in (n + 1)..Len(Queue) : Queue[i] \in Nat
        BY <1>8, <2>1
      <4>2. /\ q \in Seq(Nat)
            /\ Len(q) = IF n + 1 <= Len(Queue) THEN Len(Queue) - (n + 1) + 1 ELSE 0
            /\ \A i \in 1..(Len(Queue) - (n + 1) + 1) : q[i] = Queue[n + 1 + i - 1]
        BY <4>1, SubSeqProperties
      <4> HIDE DEF q
      <4>3. \A i \in 1..(Held - n) : n + 1 + i - 1 = n + i
        BY <1>5, <2>1
      <4>4. Len(Queue) - (n + 1) + 1 = Held - n /\ (~(n + 1 <= Len(Queue)) => Held - n = 0)
        BY <1>5, <1>8, <2>1
      <4>5. QED
        BY <4>2, <4>3, <4>4
    <3> HIDE DEF q
    <3>2. \A i \in 1..Len(Queue') : Queue'[i] = q[i]
      BY <1>8, <1>9, <3>1
    <3>3. QED
      BY <1>8, <3>1, <3>2, SeqEqual DEF q
  <2>4. Log!Deliver(n)
    BY <2>2, <2>3 DEF Log!Deliver
  <2>5. QED
    BY <2>1, <2>4 DEF Log!LogNext
<1>13. QED
  BY <1>11, <1>12

\* With one reader, the ring implements the FIFO log: each step of the lock-free
\* code is a step of the log or is not seen.
THEOREM Implements ==
  ASSUME OneReader
  PROVE  Spec => RefinesLog
<1> USE SizeAssumption
<1>1. Init => Log!LogInit
  <2> SUFFICES ASSUME Init PROVE Queue = <<>>
    BY DEF Init, Log!LogInit
  <2>1. Held = 0
    BY DEF Init, Held
  <2>2. TypeOK
    BY RingInit DEF RingInv
  <2>3. Queue \in Seq(Nat) /\ Len(Queue) = 0
    BY <2>1, <2>2, QueueSlots DEF QueueIs
  <2>4. QED
    BY <2>3
<1>2. ASSUME OrderInv, OrderInv', [Next]_vars
      PROVE  Log!LogNext \/ UNCHANGED Log!logVars
  <2>0. TypeOK /\ TypeOK'
    BY <1>2 DEF OrderInv, RingInv
  <2>t. /\ start \in 0..(Size - 1) /\ end \in 0..(Size - 1)
        /\ \A r \in Readers : segment_1[r] \in 0..Size /\ segment_2[r] \in 0..Size
    BY <2>0 DEF TypeOK, Index
  <2>h. CopiesFaithful /\ \A r \in Readers : ReaderKnows(r)
    BY <1>2 DEF OrderInv, RingInv
  <2>1. CASE get_counter
    <3>1. /\ count_event' = count_event + 1
          /\ UNCHANGED <<start, end, array_element, delivered, dropped>>
      BY <2>1 DEF get_counter
    <3>2. Queue' = Queue
      BY <2>0, <3>1, QueueSame
    <3>3. QED
      BY <3>1, <3>2 DEF Log!LogNext, Log!Event
  <2>2. CASE cbWrite_full
    <3>1. /\ cbIsFull /\ dropped' = dropped \union {count_event}
          /\ UNCHANGED <<count_event, start, end, array_element, delivered>>
      BY <2>2 DEF cbWrite_full, ring
    <3>2. Queue' = Queue
      BY <2>0, <3>1, QueueSame
    <3>3. Held = Size - 1
      BY <2>0, <2>t, <3>1, FullIff DEF Held
    <3>4. Len(Queue) = Size - 1
      BY <2>0, <3>3, QueueSlots DEF QueueIs
    <3>5. QED
      BY <3>1, <3>2, <3>4 DEF Log!LogNext, Log!Drop
  <2>3. CASE cbWrite_memcpy \/ cbWrite_copied
    <3>1. /\ UNCHANGED <<start, end, delivered, count_event, dropped>>
          /\ \A i \in Index : i # end => array_element'[i] = array_element[i]
      BY <2>0, <2>3 DEF cbWrite_memcpy, cbWrite_copied, TypeOK
    <3>2. \A i \in Index : Unread(i) => i # end
      BY <2>t DEF Unread, Index
    <3>3. Queue' = Queue
      BY <2>0, <3>1, <3>2, QueueSame
    <3>4. QED
      BY <3>1, <3>3 DEF Log!logVars
  <2>4. CASE cbWrite_publish
    BY <1>2, <2>0, <2>4, PublishStores DEF Log!LogNext
  <2>5. ASSUME \/ \E r \in Readers :
                     \/ \E n \in ReadSizes : cbRead_list(r, n)
                     \/ cbRead_list_empty(r) \/ cbRead_list_segments(r) \/ cbRead(r)
                     \/ cbRead_list_copy1(r) \/ cbRead_list_copy2(r)
               \/ UNCHANGED vars
        PROVE  UNCHANGED Log!logVars
    <3>1. UNCHANGED <<count_event, start, end, array_element, delivered, dropped>>
      BY <2>5 DEF cbRead_list, cbRead_list_empty, cbRead_list_segments, cbRead,
                  cbRead_list_copy1, cbRead_list_copy2, ring, vars
    <3>2. Queue' = Queue
      BY <2>0, <3>1, QueueSame
    <3>3. QED
      BY <3>1, <3>2 DEF Log!logVars
  <2>6. ASSUME NEW r \in Readers, cbRead_list_advance1(r)
        PROVE  Log!LogNext \/ UNCHANGED Log!logVars
    <3>1. /\ rpc[r] = "advance1" /\ start' = (start + segment_1[r]) % Size
          /\ delivered' = delivered \o elem[r]
          /\ UNCHANGED <<end, array_element, count_event, dropped>>
      BY <2>6 DEF cbRead_list_advance1
    <3>2. elem[r] = Copy(segment_1[r])
      BY <2>h, <3>1 DEF CopiesFaithful
    <3>3. start + segment_1[r] <= (IF start <= end THEN end ELSE Size)
      BY <2>h, <3>1 DEF ReaderKnows
    <3>4. QED
      BY <2>0, <2>t, <3>1, <3>2, <3>3, AdvanceDelivers
  <2>7. ASSUME NEW r \in Readers, cbRead_list_advance2(r)
        PROVE  Log!LogNext \/ UNCHANGED Log!logVars
    <3>1. /\ rpc[r] = "advance2" /\ start' = (start + segment_2[r]) % Size
          /\ delivered' = delivered \o elem[r]
          /\ UNCHANGED <<end, array_element, count_event, dropped>>
      BY <2>7 DEF cbRead_list_advance2
    <3>2. elem[r] = Copy(segment_2[r])
      BY <2>h, <3>1 DEF CopiesFaithful
    <3>3. start + segment_2[r] <= (IF start <= end THEN end ELSE Size)
      BY <2>h, <2>t, <3>1 DEF ReaderKnows
    <3>4. QED
      BY <2>0, <2>t, <3>1, <3>2, <3>3, AdvanceDelivers
  <2>8. QED
    BY <1>2, <2>1, <2>2, <2>3, <2>4, <2>5, <2>6, <2>7 DEF Next, Writer, Reader
<1>3. QED
  BY <1>1, <1>2, OrderInvariant, PTL DEF Spec, RefinesLog, Log!LogSpec
=============================================================================
