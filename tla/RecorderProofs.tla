--------------------------- MODULE RecorderProofs ---------------------------
(***************************************************************************)
(* Proofs about Recorder, for any number of cpus, ring and page sizes,     *)
(* reads and measures: what the recording programs leave behind, and which *)
(* measures they record.                                                   *)
(***************************************************************************)
EXTENDS Recorder, SequenceTheorems, FiniteSetTheorems, WellFoundedInduction, TLAPS

Reading == {"clean", "next", "read", "lseek", "regular"}

\* What is open and allocated, by the place of the daemon.
HeldInv ==
  /\ dpc # "returned" => fault # "no seek"
  /\ dpc = "start" => fds = {} /\ mem = {}
  /\ dpc \in {"row", "region"} => fds = {"sp"} /\ mem = {}
  /\ dpc = "open" => fds = {"sp"} /\ mem = {"region"}
  /\ dpc \in Reading => fds = {"sp", "dev"} /\ mem = {"region"}
  /\ dpc = "copy" => fds = {"sp", "dev", "fl"} /\ mem = {"region"}
  /\ dpc = "msg region" => fds = {"fl", "synth"} /\ mem = {}
  /\ dpc = "msg open" => fds = {"fl", "synth"} /\ mem = {"region"}
  /\ dpc \in {"msg row", "msg measure"} => fds = All /\ mem = {"region"}
  /\ dpc = "msg lines" => fds = All /\ mem = {"region", "buf_write", "time_op"}
  /\ CleanUp

\* The first steps of the trace daemon.
OpenSteps == daemon_create_sparse_file \/ sparse_first_row \/ init_region \/ open_device
ReadSteps == \/ trace_driver_read \/ read_failed \/ clean_kernel_buffer \/ next_read
             \/ save_measure \/ mmap_failed \/ lseek_device
CopySteps == \/ create_regular_file \/ lseek_sparse_failed \/ copy_normal_file
             \/ copy_failed \/ copy_no_memory \/ record_done
MsgSteps  == \/ msg_open_files \/ msg_init_region \/ msg_open_device \/ write_first_row
             \/ msg_measure \/ msg_save_line \/ data_synthesis \/ msg_record_done

\* The steps there are.
LEMMA Steps == [Next]_vars => OpenSteps \/ ReadSteps \/ CopySteps \/ MsgSteps \/ (\E c \in Cpus : event(c)) \/ UNCHANGED vars
BY DEF Next, Daemon, OpenSteps, ReadSteps, CopySteps, MsgSteps

\* HeldInv is inductive.
LEMMA HeldStep == HeldInv /\ [Next]_vars => HeldInv'
<1> SUFFICES ASSUME HeldInv, [Next]_vars PROVE HeldInv'
  OBVIOUS
<1> USE DEF HeldInv, CleanUp, Reading, All, At, Go, History, Leave
<1>1. CASE OpenSteps
  BY <1>1 DEF OpenSteps, daemon_create_sparse_file, sparse_first_row, init_region, open_device, err_rec1, err_rec2, err_rec3
<1>2. CASE ReadSteps
  BY <1>2 DEF ReadSteps, trace_driver_read, read_failed, clean_kernel_buffer, next_read, save_measure, mmap_failed, lseek_device, err_rec4
<1>3. CASE CopySteps
  BY <1>3 DEF CopySteps, create_regular_file, lseek_sparse_failed, copy_normal_file, copy_failed, copy_no_memory, record_done, err_rec4, err_rec5
<1>4. CASE MsgSteps
  BY <1>4 DEF MsgSteps, msg_open_files, msg_init_region, msg_open_device, write_first_row, msg_measure, msg_save_line, data_synthesis, msg_record_done
<1>5. ASSUME NEW c \in Cpus, event(c) PROVE HeldInv'
  BY <1>5 DEF event
<1>6. CASE UNCHANGED vars
  BY <1>6 DEF vars
<1>7. QED
  BY <1>1, <1>2, <1>3, <1>4, <1>5, <1>6, Steps

\* Whichever label of record_measures a daemon leaves by, it has closed and freed what it had,
\* but for the regular file when the sparse one cannot be read from its start.
THEOREM Cleaned == Spec => []CleanUp
<1>1. Init => HeldInv
  BY DEF Init, HeldInv, CleanUp, Reading
<1>2. HeldInv => CleanUp
  BY DEF HeldInv
<1>3. QED
  BY <1>1, <1>2, HeldStep, PTL DEF Spec

-----------------------------------------------------------------------------
(* Sequences.                                                              *)

\* A nonempty set of numbers has a smallest one ...
LEMMA Smallest ==
  ASSUME NEW S, S \subseteq Nat, S # {}
  PROVE  \E x \in S : \A y \in S : x <= y
<1>1. IsWellFoundedOn(OpToRel(<, Nat), Nat)
  BY NatLessThanWellFounded
<1>2. PICK x \in S : \A y \in S : ~ (<<y, x>> \in OpToRel(<, Nat))
  BY <1>1, WFMin
<1>3. \A y \in S : ~ (y < x)
  BY <1>2 DEF OpToRel
<1>4. QED
  BY <1>3

\* ... so that a set that has 1, and with each number the next, has all of them.
LEMMA UpTo ==
  ASSUME NEW n \in Nat, NEW S, 1 \in S, \A k \in 1..(n - 1) : k \in S => k + 1 \in S
  PROVE  1..n \subseteq S
<1> SUFFICES ASSUME (1..n) \ S # {} PROVE FALSE
  OBVIOUS
<1>1. PICK x \in (1..n) \ S : \A y \in (1..n) \ S : x <= y
  <2>1. (1..n) \ S \subseteq Nat
    OBVIOUS
  <2>2. QED
    BY <2>1, Smallest
<1>2. x # 1 /\ x \in 1..n
  BY <1>1
<1>3. x - 1 \in 1..(n - 1) /\ (x - 1) + 1 = x /\ ~(x <= x - 1) /\ x - 1 \in 1..n
  BY ONLY <1>2, n \in Nat
<1>4. x - 1 \in S
  BY <1>1, <1>3
<1>5. QED
  BY <1>1, <1>3, <1>4

\* Two sequences in a row.
LEMMA Join ==
  ASSUME NEW S, NEW s \in Seq(S), NEW t \in Seq(S)
  PROVE  /\ s \o t \in Seq(S) /\ Len(s \o t) = Len(s) + Len(t) /\ DOMAIN (s \o t) = 1..(Len(s) + Len(t))
         /\ DOMAIN s = 1..Len(s) /\ DOMAIN t = 1..Len(t) /\ Len(s) \in Nat /\ Len(t) \in Nat
         /\ \A k \in 1..Len(s) : (s \o t)[k] = s[k]
         /\ \A k \in 1..Len(t) : (s \o t)[Len(s) + k] = t[k]
         /\ \A k \in DOMAIN (s \o t) : \/ k \in DOMAIN s /\ (s \o t)[k] = s[k]
                                       \/ k - Len(s) \in DOMAIN t /\ (s \o t)[k] = t[k - Len(s)]
<1>1. s \o t \in Seq(S) /\ Len(s \o t) = Len(s) + Len(t) /\ Len(s) \in Nat /\ Len(t) \in Nat
      /\ DOMAIN (s \o t) = 1..Len(s \o t) /\ DOMAIN s = 1..Len(s) /\ DOMAIN t = 1..Len(t)
  BY ConcatProperties, LenProperties
<1>2. \A k \in 1..(Len(s) + Len(t)) : (s \o t)[k] = IF k <= Len(s) THEN s[k] ELSE t[k - Len(s)]
  BY ConcatProperties
<1>3. \A k \in 1..Len(s) : k \in 1..(Len(s) + Len(t)) /\ k <= Len(s)
  BY <1>1
<1>4. \A k \in 1..Len(t) : Len(s) + k \in 1..(Len(s) + Len(t)) /\ ~(Len(s) + k <= Len(s)) /\ Len(s) + k - Len(s) = k
  BY <1>1
<1>5. \A k \in 1..(Len(s) + Len(t)) : (k <= Len(s) => k \in 1..Len(s)) /\ (~(k <= Len(s)) => k - Len(s) \in 1..Len(t))
  BY <1>1
<1>6. QED
  BY <1>1, <1>2, <1>3, <1>4, <1>5

\* A sequence in two parts.
LEMMA Cut ==
  ASSUME NEW S, NEW s \in Seq(S), NEW n \in 0..Len(s)
  PROVE  /\ SubSeq(s, 1, n) \in Seq(S) /\ Len(SubSeq(s, 1, n)) = n /\ DOMAIN SubSeq(s, 1, n) = 1..n
         /\ SubSeq(s, n + 1, Len(s)) \in Seq(S) /\ Len(SubSeq(s, n + 1, Len(s))) = Len(s) - n
         /\ DOMAIN SubSeq(s, n + 1, Len(s)) = 1..(Len(s) - n)
         /\ \A k \in 1..n : SubSeq(s, 1, n)[k] = s[k]
         /\ \A k \in 1..(Len(s) - n) : SubSeq(s, n + 1, Len(s))[k] = s[n + k]
         /\ Len(s) \in Nat /\ DOMAIN s = 1..Len(s)
<1>1. Len(s) \in Nat /\ DOMAIN s = 1..Len(s) /\ \A k \in 1..Len(s) : s[k] \in S
  BY LenProperties, ElementOfSeq
<1> DEFINE a == SubSeq(s, 1, n)
           b == SubSeq(s, n + 1, Len(s))
<1>2. a = [k \in 1..n |-> s[k]]
  BY <1>1
<1>3. b = [k \in 1..(Len(s) - n) |-> s[n + k]]
  BY <1>1
<1>4. \A k \in 1..n : k \in 1..Len(s)
  BY <1>1
<1>5. \A k \in 1..(Len(s) - n) : n + k \in 1..Len(s)
  BY <1>1
<1>6. n \in Nat /\ Len(s) - n \in Nat
  BY <1>1
<1>7. a \in Seq(S) /\ Len(a) = n
  <2>1. a \in [1..n -> S]
    BY <1>1, <1>2, <1>4
  <2>2. QED
    BY ONLY <1>6, <2>1, IsASeq, LenProperties
<1>8. b \in Seq(S) /\ Len(b) = Len(s) - n
  <2>1. b \in [1..(Len(s) - n) -> S]
    BY <1>1, <1>3, <1>5
  <2>2. QED
    BY ONLY <1>6, <2>1, IsASeq, LenProperties
<1>9. QED
  BY <1>1, <1>2, <1>3, <1>7, <1>8

\* FlattenSeq puts the parts one after the other.
LEMMA FlattenIs ==
  \A S : \A n \in Nat \ {0} : \A ss \in [1..n -> Seq(S)] :
    \E f \in [1..n -> Seq(S)] :
      /\ f[1] = ss[1] /\ \A k \in 1..(n - 1) : f[k + 1] = f[k] \o ss[k + 1]
      /\ FlattenSeq(ss) = f[n]
<1> SUFFICES ASSUME NEW S, NEW n \in Nat \ {0}, NEW ss \in [1..n -> Seq(S)]
             PROVE  \E f \in [1..n -> Seq(S)] :
                      /\ f[1] = ss[1] /\ \A k \in 1..(n - 1) : f[k + 1] = f[k] \o ss[k + 1]
                      /\ FlattenSeq(ss) = f[n]
  OBVIOUS
<1>1. Len(ss) = n /\ 1 \in 1..n /\ n \in 1..n
  BY LenProperties, IsASeq
<1> DEFINE Good == {m \in 1..n : \E g \in [1..m -> Seq(S)] : \A k \in 1..m : g[k] = IF k = 1 THEN ss[k] ELSE g[k - 1] \o ss[k]}
<1>2. 1..n \subseteq Good
  <2>1. 1 \in Good
    <3> DEFINE g == [k \in 1..1 |-> ss[1]]
    <3>1. g \in [1..1 -> Seq(S)]
      BY <1>1
    <3>2. \A k \in 1..1 : g[k] = IF k = 1 THEN ss[k] ELSE g[k - 1] \o ss[k]
      OBVIOUS
    <3>3. QED
      BY <1>1, <3>1, <3>2
  <2>2. ASSUME NEW m \in 1..(n - 1), m \in Good PROVE m + 1 \in Good
    <3>1. PICK g \in [1..m -> Seq(S)] : \A k \in 1..m : g[k] = IF k = 1 THEN ss[k] ELSE g[k - 1] \o ss[k]
      BY <2>2
    <3>2. m + 1 \in 1..n /\ m \in 1..m /\ m \in Nat /\ m + 1 # 1 /\ m + 1 - 1 = m
      OBVIOUS
    <3>3. g[m] \o ss[m + 1] \in Seq(S)
      BY <3>2, ConcatProperties
    <3> DEFINE h == [k \in 1..(m + 1) |-> IF k = m + 1 THEN g[m] \o ss[m + 1] ELSE g[k]]
    <3>4. \A k \in 1..(m + 1) : k = m + 1 \/ k \in 1..m
      BY <3>2
    <3>5. h \in [1..(m + 1) -> Seq(S)]
      BY <3>3, <3>4
    <3>6. \A k \in 1..m : k \in 1..(m + 1) /\ k # m + 1 /\ (k # 1 => k - 1 \in 1..m /\ k - 1 \in 1..(m + 1) /\ k - 1 # m + 1)
      BY <3>2
    <3>7. m \in 1..(m + 1) /\ m + 1 \in 1..(m + 1) /\ m # m + 1
      BY <3>2
    <3>8. h[m + 1] = g[m] \o ss[m + 1] /\ \A k \in 1..m : h[k] = g[k]
      BY <3>6, <3>7
    <3> HIDE DEF h
    <3>9. ASSUME NEW k \in 1..(m + 1) PROVE h[k] = IF k = 1 THEN ss[k] ELSE h[k - 1] \o ss[k]
      <4>1. CASE k = m + 1
        <5>1. k # 1 /\ k - 1 = m
          BY <3>2, <4>1
        <5>2. h[k] = g[m] \o ss[k] /\ h[m] = g[m]
          BY <3>2, <3>8, <4>1
        <5>3. QED
          BY ONLY <5>1, <5>2
      <4>2. CASE k \in 1..m
        <5>1. h[k] = g[k] /\ g[k] = IF k = 1 THEN ss[k] ELSE g[k - 1] \o ss[k]
          BY <3>1, <3>8, <4>2
        <5>2. k # 1 => h[k - 1] = g[k - 1]
          BY <3>6, <3>8, <4>2
        <5>3. QED
          BY ONLY <5>1, <5>2
      <4>3. QED
        BY <3>4, <4>1, <4>2
    <3>10. QED
      BY <3>2, <3>5, <3>9
  <2> HIDE DEF Good
  <2>3. n \in Nat
    OBVIOUS
  <2>4. QED
    BY ONLY <2>1, <2>2, <2>3, UpTo
<1>3. PICK g \in [1..n -> Seq(S)] : \A k \in 1..n : g[k] = IF k = 1 THEN ss[k] ELSE g[k - 1] \o ss[k]
  BY <1>1, <1>2
<1> DEFINE F(g0) == g0 = [k \in 1..Len(ss) |-> IF k = 1 THEN ss[k] ELSE g0[k - 1] \o ss[k]]
           f == CHOOSE g0 : F(g0)
<1>4. F(g)
  BY <1>1, <1>3
<1>5. f = [k \in 1..n |-> IF k = 1 THEN ss[k] ELSE f[k - 1] \o ss[k]]
  BY <1>1, <1>4
<1>6. FlattenSeq(ss) = f[n]
  BY <1>1 DEF FlattenSeq
<1>7. DOMAIN f = 1..n /\ \A k \in 1..n : f[k] = IF k = 1 THEN ss[k] ELSE f[k - 1] \o ss[k]
  BY <1>5
<1> HIDE DEF f
<1>n. ASSUME NEW k \in 1..n, NEW l \in 1..n, k - 1 = l PROVE f[k] = f[l] \o ss[k]
  <2>1. k # 1
    BY <1>n
  <2>2. f[k] = f[k - 1] \o ss[k]
    BY <1>7, <2>1
  <2>3. QED
    BY <1>n, <2>2
<1>8. 1..n \subseteq {k \in 1..n : f[k] \in Seq(S)}
  <2> DEFINE T == {k \in 1..n : f[k] \in Seq(S)}
  <2>1. 1 \in T
    BY <1>1, <1>7
  <2>2. ASSUME NEW m \in 1..(n - 1), m \in T PROVE m + 1 \in T
    <3>1. m + 1 \in 1..n /\ m \in 1..n /\ m + 1 - 1 = m
      OBVIOUS
    <3>2. f[m + 1] = f[m] \o ss[m + 1]
      <4>1. PICK k \in 1..n : k = m + 1 /\ k - 1 = m
        BY <3>1
      <4>2. f[k] = f[m] \o ss[k]
        BY ONLY <1>n, <3>1, <4>1
      <4>3. QED
        BY ONLY <4>1, <4>2
    <3>3. f[m] \in Seq(S) /\ ss[m + 1] \in Seq(S)
      BY <2>2, <3>1
    <3>4. f[m] \o ss[m + 1] \in Seq(S)
      BY <3>3, ConcatProperties
    <3>5. QED
      BY <3>1, <3>2, <3>4
  <2>3. n \in Nat
    OBVIOUS
  <2> HIDE DEF T
  <2>4. 1..n \subseteq T
    BY ONLY <2>1, <2>2, <2>3, UpTo
  <2>5. QED
    BY <2>4 DEF T
<1>9. f \in [1..n -> Seq(S)]
  <2>1. f = [k \in 1..n |-> f[k]]
    BY <1>5
  <2>2. QED
    BY <1>8, <2>1
<1>10. \A k \in 1..(n - 1) : f[k + 1] = f[k] \o ss[k + 1]
  <2> SUFFICES ASSUME NEW m \in 1..(n - 1) PROVE f[m + 1] = f[m] \o ss[m + 1]
    OBVIOUS
  <2>1. m + 1 \in 1..n /\ m \in 1..n /\ m + 1 - 1 = m
    OBVIOUS
  <2>2. PICK k \in 1..n : k = m + 1 /\ k - 1 = m
    BY <2>1
  <2>3. f[k] = f[m] \o ss[k]
    BY ONLY <1>n, <2>1, <2>2
  <2>4. QED
    BY ONLY <2>2, <2>3
<1>11. QED
  BY <1>1, <1>6, <1>7, <1>9, <1>10

-----------------------------------------------------------------------------
(* Which measures are recorded.                                            *)

Measure == Cpus \X Nat

\* The measures of a cpu are in the order in which they were made ...
Rising(s)  == \A a, b \in DOMAIN s : a < b /\ s[a][1] = s[b][1] => s[a][2] < s[b][2]
\* ... and those of s were made before those of t.
Less(s, t) == \A a \in DOMAIN s, b \in DOMAIN t : s[a][1] = t[b][1] => s[a][2] < t[b][2]

Of(s, c)   == \A a \in DOMAIN s : s[a][1] = c             \* all of cpu c
Made(s, e) == \A a \in DOMAIN s : s[a][2] <= e[s[a][1]]   \* all made when e counts the events
New(s, b)  == \A a \in DOMAIN s : s[a][2] > b[s[a][1]]    \* all made after b did

\* The rings hold measures of their cpu in order, and nothing is taken before they
\* have been emptied.
RingInv ==
  /\ {count_event, begun} \subseteq [Cpus -> Nat] /\ {log, region} \subseteq [Cpus -> Seq(Measure)]
  /\ taken \in Seq(Measure) /\ cpu \in 0..N_CPU /\ i \in Nat
  /\ \A c \in Cpus :
       /\ begun[c] <= count_event[c] /\ Len(log[c]) < KERNEL_UNIT_BUFFER
       /\ Of(log[c], c) /\ Rising(log[c]) /\ Made(log[c], count_event)
  /\ dpc \in {"start", "row", "region", "open", "clean"} => taken = <<>>
  /\ dpc \notin {"msg region", "msg open", "msg row", "msg measure", "msg lines"}

\* The reads of cpu c that have been done to empty its ring.
Emptied(c) == i + IF c < cpu THEN 1 ELSE 0

\* What is old is at the front of a ring, and gets less with each read that empties it.
EmptyInv ==
  /\ dpc = "clean" =>
       /\ i < n_read_clean
       /\ \A c \in Cpus : \A k \in DOMAIN log[c] :
            k >= KERNEL_UNIT_BUFFER - N_UNIT * Emptied(c) => log[c][k][2] > begun[c]
  /\ dpc \in {"next", "read", "lseek"} => \A c \in Cpus : New(log[c], begun)

\* What was taken comes before what the driver has read for the daemon, and that
\* before what is still in the ring.
TakenInv ==
  /\ Rising(taken) /\ New(taken, begun) /\ Made(taken, count_event) /\ \A c \in Cpus : Less(taken, log[c])
  /\ dpc = "read" => \A c \in Cpus : c < cpu =>
       /\ Of(region[c], c) /\ Rising(region[c]) /\ Made(region[c], count_event) /\ New(region[c], begun)
       /\ Less(region[c], log[c]) /\ Less(taken, region[c])

TraceInv == prog = "trace" => RingInv /\ EmptyInv /\ TakenInv

\* Types of the cpus.
LEMMA CpuType == N_CPU \in Nat \ {0} /\ KERNEL_UNIT_BUFFER \in Nat \ {0} /\ N_UNIT \in Nat \ {0} /\ Cpus = 0..(N_CPU - 1)
BY RecorderAssumption DEF Cpus

\* The order of what is put together ...
LEMMA JoinOrder ==
  ASSUME NEW s \in Seq(Measure), NEW t \in Seq(Measure)
  PROVE  /\ Rising(s) /\ Rising(t) /\ Less(s, t) => Rising(s \o t)
         /\ \A u : Less(s, u) /\ Less(t, u) => Less(s \o t, u)
         /\ \A b : New(s, b) /\ New(t, b) => New(s \o t, b)
         /\ \A e : Made(s, e) /\ Made(t, e) => Made(s \o t, e)
<1>1. /\ DOMAIN s = 1..Len(s) /\ DOMAIN t = 1..Len(t) /\ Len(s) \in Nat /\ Len(t) \in Nat /\ DOMAIN (s \o t) = 1..(Len(s) + Len(t))
      /\ \A k \in DOMAIN (s \o t) : \/ k \in DOMAIN s /\ (s \o t)[k] = s[k]
                                    \/ k - Len(s) \in DOMAIN t /\ (s \o t)[k] = t[k - Len(s)]
  BY ONLY Join, s \in Seq(Measure), t \in Seq(Measure)
<1> DEFINE u == s \o t
<1>2. \A k \in DOMAIN u : \/ k \in DOMAIN s /\ u[k] = s[k]
                          \/ k - Len(s) \in DOMAIN t /\ u[k] = t[k - Len(s)]
  BY <1>1
<1>d. DOMAIN u = 1..(Len(s) + Len(t))
  BY <1>1
<1> HIDE DEF u
<1>3. ASSUME Rising(s), Rising(t), Less(s, t) PROVE Rising(u)
  <2> SUFFICES ASSUME NEW a \in DOMAIN u, NEW b \in DOMAIN u, a < b, u[a][1] = u[b][1] PROVE u[a][2] < u[b][2]
    BY DEF Rising
  <2>1. CASE a \in DOMAIN s /\ u[a] = s[a] /\ b \in DOMAIN s /\ u[b] = s[b]
    BY <1>3, <2>1 DEF Rising
  <2>2. CASE a \in DOMAIN s /\ u[a] = s[a] /\ b - Len(s) \in DOMAIN t /\ u[b] = t[b - Len(s)]
    BY <1>3, <2>2 DEF Less
  <2>3. CASE a - Len(s) \in DOMAIN t /\ u[a] = t[a - Len(s)] /\ b - Len(s) \in DOMAIN t /\ u[b] = t[b - Len(s)]
    <3>1. a - Len(s) < b - Len(s)
      BY <1>1, <1>d
    <3>2. QED
      BY <1>3, <2>3, <3>1 DEF Rising
  <2>4. CASE a - Len(s) \in DOMAIN t /\ b \in DOMAIN s
    <3>1. FALSE
      BY <1>1, <1>d, <2>4
    <3>2. QED
      BY <3>1
  <2>5. QED
    BY <1>2, <2>1, <2>2, <2>3, <2>4
<1>4. ASSUME NEW v, Less(s, v), Less(t, v) PROVE Less(u, v)
  BY <1>2, <1>4 DEF Less
<1>5. \A b : New(s, b) /\ New(t, b) => New(u, b)
  BY <1>2 DEF New
<1>6. \A e : Made(s, e) /\ Made(t, e) => Made(u, e)
  BY <1>2 DEF Made
<1>7. QED
  BY <1>3, <1>4, <1>5, <1>6 DEF u

\* ... and of the parts x and y of a ring s that is cut after n measures.
CutParts(s, n, x, y) ==
  /\ x \in Seq(Measure) /\ y \in Seq(Measure) /\ Len(y) = Len(s) - n
  /\ Rising(s) => Rising(x) /\ Rising(y)
  /\ \A c : Of(s, c) => Of(x, c) /\ Of(y, c)
  /\ Rising(s) => Less(x, y)
  /\ \A t : Less(t, s) => Less(t, x) /\ Less(t, y)
  /\ \A b : New(s, b) => New(x, b) /\ New(y, b)
  /\ \A e : Made(s, e) => Made(x, e) /\ Made(y, e)
  /\ \A k \in DOMAIN y : k + n \in DOMAIN s /\ y[k] = s[k + n]

\* Cutting a ring in two.
LEMMA CutOrder ==
  \A s \in Seq(Measure) : \A n \in 0..Len(s) : \A x, y :
    x = SubSeq(s, 1, n) /\ y = SubSeq(s, n + 1, Len(s)) => CutParts(s, n, x, y)
<1> SUFFICES ASSUME NEW s \in Seq(Measure), NEW n \in 0..Len(s), NEW x, NEW y, x = SubSeq(s, 1, n), y = SubSeq(s, n + 1, Len(s))
             PROVE  CutParts(s, n, x, y)
  OBVIOUS
<1>1. /\ x \in Seq(Measure) /\ Len(x) = n /\ DOMAIN x = 1..n
      /\ y \in Seq(Measure) /\ Len(y) = Len(s) - n /\ DOMAIN y = 1..(Len(s) - n)
      /\ \A k \in 1..n : x[k] = s[k]
      /\ \A k \in 1..(Len(s) - n) : y[k] = s[n + k]
      /\ Len(s) \in Nat /\ DOMAIN s = 1..Len(s)
  BY ONLY Cut, s \in Seq(Measure), n \in 0..Len(s), x = SubSeq(s, 1, n), y = SubSeq(s, n + 1, Len(s))
<1>m. Len(s) \in Nat
  BY <1>1
<1>n. n \in Nat /\ Len(s) \in Nat /\ n <= Len(s)
  BY ONLY <1>m, n \in 0..Len(s)
<1> DEFINE l == Len(s)
<1>p. l \in Nat /\ n \in Nat /\ n <= l
  BY <1>n
<1>q. DOMAIN x = 1..n /\ DOMAIN y = 1..(l - n) /\ DOMAIN s = 1..l
  BY <1>1
<1> HIDE DEF l
<1>2. \A k \in DOMAIN x : k \in DOMAIN s /\ x[k] = s[k]
  <2>1. \A k \in 1..n : k \in 1..l
    BY ONLY <1>p
  <2>2. QED
    BY ONLY <1>1, <1>q, <2>1
<1>3. \A k \in DOMAIN y : n + k \in DOMAIN s /\ y[k] = s[n + k] /\ n + k = k + n
  <2>1. \A k \in 1..(l - n) : n + k \in 1..l /\ n + k = k + n
    BY ONLY <1>p
  <2>2. QED
    BY ONLY <1>1, <1>q, <2>1 DEF l
<1>4. \A a, b \in DOMAIN y : a < b => n + a < n + b
  <2>1. \A a, b \in 1..(l - n) : a < b => n + a < n + b
    BY ONLY <1>p
  <2>2. QED
    BY ONLY <1>q, <2>1
<1>5. \A a \in DOMAIN x, b \in DOMAIN y : a < n + b
  <2>1. \A a \in 1..n, b \in 1..(l - n) : a < n + b
    BY ONLY <1>p
  <2>2. QED
    BY ONLY <1>q, <2>1
<1>6. Rising(s) => Rising(x) /\ Rising(y)
  <2> SUFFICES ASSUME Rising(s) PROVE Rising(x) /\ Rising(y)
    OBVIOUS
  <2>1. \A a, b \in DOMAIN s : a < b /\ s[a][1] = s[b][1] => s[a][2] < s[b][2]
    BY DEF Rising
  <2>2. ASSUME NEW a \in DOMAIN x, NEW b \in DOMAIN x, a < b, x[a][1] = x[b][1] PROVE x[a][2] < x[b][2]
    BY ONLY <1>2, <2>1, <2>2
  <2>3. ASSUME NEW a \in DOMAIN y, NEW b \in DOMAIN y, a < b, y[a][1] = y[b][1] PROVE y[a][2] < y[b][2]
    <3>1. n + a \in DOMAIN s /\ n + b \in DOMAIN s /\ y[a] = s[n + a] /\ y[b] = s[n + b] /\ n + a < n + b
      BY ONLY <1>3, <1>4, <2>3
    <3>2. QED
      BY ONLY <2>1, <2>3, <3>1
  <2>4. QED
    BY <2>2, <2>3 DEF Rising
<1>7. Rising(s) => Less(x, y)
  <2> SUFFICES ASSUME Rising(s), NEW a \in DOMAIN x, NEW b \in DOMAIN y, x[a][1] = y[b][1] PROVE x[a][2] < y[b][2]
    BY DEF Less
  <2>1. a \in DOMAIN s /\ n + b \in DOMAIN s /\ x[a] = s[a] /\ y[b] = s[n + b] /\ a < n + b
    BY ONLY <1>2, <1>3, <1>5, a \in DOMAIN x, b \in DOMAIN y
  <2>2. QED
    BY <2>1 DEF Rising
<1>8. \A c : Of(s, c) => Of(x, c) /\ Of(y, c)
  BY <1>2, <1>3 DEF Of
<1>9. \A t : Less(t, s) => Less(t, x) /\ Less(t, y)
  BY <1>2, <1>3 DEF Less
<1>10. (\A b : New(s, b) => New(x, b) /\ New(y, b)) /\ (\A e : Made(s, e) => Made(x, e) /\ Made(y, e))
  BY <1>2, <1>3 DEF New, Made
<1>11. \A k \in DOMAIN y : k + n \in DOMAIN s /\ y[k] = s[k + n]
  BY <1>3
<1>12. QED
  BY <1>1, <1>6, <1>7, <1>8, <1>9, <1>10, <1>11 DEF CutParts

\* What the driver copies out for all cpus is what it has read for each of them.
LEMMA MeasuresAre ==
  ASSUME region \in [Cpus -> Seq(Measure)], \A c \in Cpus : Of(region[c], c) /\ Rising(region[c])
  PROVE  /\ Measures \in Seq(Measure) /\ Rising(Measures)
         /\ \A k \in DOMAIN Measures : \E c \in Cpus : \E m \in DOMAIN region[c] : Measures[k] = region[c][m]
<1> DEFINE ss == [c \in 1..N_CPU |-> region[c - 1]]
<1>1. \A c \in 1..N_CPU : c - 1 \in Cpus
  BY CpuType
<1>2. ss \in [1..N_CPU -> Seq(Measure)]
  BY <1>1
<1>3. \A c \in 1..N_CPU : ss[c] = region[c - 1]
  OBVIOUS
<1>4. Measures = FlattenSeq(ss)
  BY DEF Measures
<1> HIDE DEF ss
<1>5. PICK f \in [1..N_CPU -> Seq(Measure)] :
           /\ f[1] = ss[1] /\ \A k \in 1..(N_CPU - 1) : f[k + 1] = f[k] \o ss[k + 1]
           /\ FlattenSeq(ss) = f[N_CPU]
  <2>1. N_CPU \in Nat \ {0}
    BY CpuType
  <2> DEFINE P(S, n, s) == \E f \in [1..n -> Seq(S)] :
                             /\ f[1] = s[1] /\ \A k \in 1..(n - 1) : f[k + 1] = f[k] \o s[k + 1]
                             /\ FlattenSeq(s) = f[n]
  <2>0. \A S : \A n \in Nat \ {0} : \A s \in [1..n -> Seq(S)] : P(S, n, s)
    BY ONLY FlattenIs, Zenon
  <2> HIDE DEF P
  <2>a. P(Measure, N_CPU, ss)
    BY ONLY <1>2, <2>0, <2>1
  <2>2. \E f \in [1..N_CPU -> Seq(Measure)] :
           /\ f[1] = ss[1] /\ \A k \in 1..(N_CPU - 1) : f[k + 1] = f[k] \o ss[k + 1]
           /\ FlattenSeq(ss) = f[N_CPU]
    BY ONLY <2>a DEF P
  <2>3. QED
    BY <2>2
<1> DEFINE From(s, n) == \A k \in DOMAIN s : \E c \in Cpus : c < n /\ \E m \in DOMAIN region[c] : s[k] = region[c][m]
           Good == {n \in 1..N_CPU : Rising(f[n]) /\ From(f[n], n)}
<1>6. 1..N_CPU \subseteq Good
  <2>1. 1 \in Good
    <3>1. 1 \in 1..N_CPU /\ 0 \in Cpus /\ f[1] = region[0] /\ 1 - 1 = 0 /\ 0 < 1
      <4>1. 1 \in 1..N_CPU /\ 1 - 1 = 0 /\ 0 \in Cpus
        BY CpuType
      <4>2. ss[1] = region[0]
        BY <1>3, <4>1
      <4>3. QED
        BY <1>5, <4>1, <4>2
    <3>2. QED
      BY <3>1
  <2>2. ASSUME NEW n \in 1..(N_CPU - 1), n \in Good PROVE n + 1 \in Good
    <3>1. n \in Cpus /\ n \in 1..N_CPU /\ n + 1 \in 1..N_CPU /\ n + 1 - 1 = n /\ n < n + 1 /\ \A c \in Cpus : c < n => c < n + 1 /\ c # n
      BY CpuType
    <3>2. f[n + 1] = f[n] \o region[n]
      <4>1. ss[n + 1] = region[n]
        BY <1>3, <3>1
      <4>2. QED
        BY <1>5, <4>1
    <3>3. Rising(f[n]) /\ From(f[n], n) /\ f[n] \in Seq(Measure) /\ region[n] \in Seq(Measure)
      BY <1>5, <2>2, <3>1
    <3>4. Less(f[n], region[n])
      <4> SUFFICES ASSUME NEW a \in DOMAIN f[n], NEW b \in DOMAIN region[n] PROVE f[n][a][1] # region[n][b][1]
        BY DEF Less
      <4>1. PICK c \in Cpus : c < n /\ \E m \in DOMAIN region[c] : f[n][a] = region[c][m]
        BY <3>3
      <4>2. f[n][a][1] = c /\ region[n][b][1] = n
        BY <3>1, <4>1 DEF Of
      <4>3. QED
        BY <3>1, <4>1, <4>2
    <3>5. Rising(f[n + 1])
      <4>1. Rising(f[n] \o region[n])
        BY <3>1, <3>3, <3>4, JoinOrder
      <4>2. QED
        BY <3>2, <4>1
    <3>6. From(f[n + 1], n + 1)
      <4> SUFFICES ASSUME NEW k \in DOMAIN f[n + 1]
                   PROVE  \E c \in Cpus : c < n + 1 /\ \E m \in DOMAIN region[c] : f[n + 1][k] = region[c][m]
        OBVIOUS
      <4> DEFINE u == f[n] \o region[n]
      <4>1. k \in DOMAIN u /\ f[n + 1][k] = u[k]
        BY <3>2
      <4> DEFINE g == f[n]
                 r == region[n]
      <4>2. \/ k \in DOMAIN f[n] /\ u[k] = f[n][k]
            \/ k - Len(f[n]) \in DOMAIN region[n] /\ u[k] = region[n][k - Len(f[n])]
        <5>1. g \in Seq(Measure) /\ r \in Seq(Measure) /\ k \in DOMAIN (g \o r)
          BY <3>3, <4>1
        <5> HIDE DEF g, r
        <5>2. \/ k \in DOMAIN g /\ (g \o r)[k] = g[k]
              \/ k - Len(g) \in DOMAIN r /\ (g \o r)[k] = r[k - Len(g)]
          BY ONLY <5>1, Join
        <5>3. QED
          BY <5>2 DEF g, r
      <4> HIDE DEF u
      <4>3. CASE k \in DOMAIN f[n] /\ u[k] = f[n][k]
        BY <3>1, <3>3, <4>1, <4>3
      <4>4. CASE k - Len(f[n]) \in DOMAIN region[n] /\ u[k] = region[n][k - Len(f[n])]
        BY <3>1, <4>1, <4>4
      <4>5. QED
        BY <4>2, <4>3, <4>4
    <3>7. QED
      BY <3>1, <3>5, <3>6
  <2>3. N_CPU \in Nat
    BY CpuType
  <2> HIDE DEF Good
  <2>4. QED
    BY ONLY <2>1, <2>2, <2>3, UpTo
<1>7. N_CPU \in 1..N_CPU
  BY CpuType
<1>8. Rising(f[N_CPU]) /\ From(f[N_CPU], N_CPU) /\ f[N_CPU] \in Seq(Measure)
  BY <1>5, <1>6, <1>7
<1>9. QED
  BY <1>4, <1>5, <1>8

\* What had been made still has been after more measures.
LEMMA MadeMore ==
  ASSUME NEW s \in Seq(Measure), NEW e, NEW d \in [Cpus -> Nat], e \in [Cpus -> Nat],
         \A c \in Cpus : e[c] <= d[c], Made(s, e)
  PROVE  Made(s, d)
<1> SUFFICES ASSUME NEW a \in DOMAIN s PROVE s[a][2] <= d[s[a][1]]
  BY DEF Made
<1>1. s[a] \in Measure
  BY ElementOfSeq, LenProperties
<1>2. s[a][1] \in Cpus /\ s[a][2] \in Nat /\ s[a][2] <= e[s[a][1]]
  BY <1>1 DEF Made, Measure
<1>3. e[s[a][1]] \in Nat /\ d[s[a][1]] \in Nat /\ e[s[a][1]] <= d[s[a][1]]
  BY <1>2
<1>4. QED
  BY ONLY <1>2, <1>3

\* A measure that enters a ring comes after what was made: u is s with one more of cpu c.
AppendParts(s, c, e, u) ==
  /\ u \in Seq(Measure) /\ Len(u) = Len(s) + 1
  /\ Of(s, c) => Of(u, c)
  /\ Rising(s) /\ Made(s, e) => Rising(u)
  /\ \A d \in [Cpus -> Nat] : Made(s, d) /\ d[c] = e[c] + 1 => Made(u, d)
  /\ \A b \in [Cpus -> Nat] : New(s, b) /\ b[c] <= e[c] => New(u, b)
  /\ \A t \in Seq(Measure) : Made(t, e) /\ Less(t, s) => Less(t, u)
  /\ \A k \in DOMAIN u : (k \in DOMAIN s /\ u[k] = s[k]) \/ u[k] = <<c, e[c] + 1>>

\* Adding a measure to a ring.
LEMMA AppendOrder ==
  \A s \in Seq(Measure) : \A c \in Cpus : \A e \in [Cpus -> Nat] : \A u :
    u = Append(s, <<c, e[c] + 1>>) => AppendParts(s, c, e, u)
<1> SUFFICES ASSUME NEW s \in Seq(Measure), NEW c \in Cpus, NEW e \in [Cpus -> Nat], NEW u, u = Append(s, <<c, e[c] + 1>>)
             PROVE  AppendParts(s, c, e, u)
  OBVIOUS
<1>1. e[c] \in Nat /\ <<c, e[c] + 1>> \in Measure
  BY DEF Measure
<1>2. Len(s) \in Nat /\ DOMAIN s = 1..Len(s) /\ u \in Seq(Measure) /\ Len(u) = Len(s) + 1 /\ DOMAIN u = 1..Len(u)
      /\ (\A k \in 1..Len(s) : u[k] = s[k]) /\ u[Len(s) + 1] = <<c, e[c] + 1>>
  BY <1>1, AppendProperties, LenProperties
<1> DEFINE l == Len(s)
<1>l. l \in Nat /\ DOMAIN s = 1..l /\ DOMAIN u = 1..(l + 1)
  BY <1>2
<1>3. \A k \in DOMAIN u : (k \in DOMAIN s /\ u[k] = s[k]) \/ (k = l + 1 /\ u[k] = <<c, e[c] + 1>>)
  <2>1. \A k \in 1..(l + 1) : k \in 1..l \/ k = l + 1
    BY ONLY <1>l
  <2>2. QED
    BY <1>2, <1>l, <2>1
<1> HIDE DEF l
<1>m. \A t \in Seq(Measure) : \A a \in DOMAIN t : t[a][1] \in Cpus /\ t[a][2] \in Nat
  BY ElementOfSeq, LenProperties DEF Measure
<1>r. ASSUME NEW t \in Seq(Measure), Made(t, e), NEW a \in DOMAIN t, t[a][1] = c PROVE t[a][2] < e[c] + 1
  <2>1. t[a][2] \in Nat /\ t[a][2] <= e[c]
    BY <1>m, <1>r DEF Made
  <2>2. QED
    BY ONLY <1>1, <2>1
<1>4. Of(s, c) => Of(u, c)
  BY <1>3 DEF Of
<1>5. ASSUME Rising(s), Made(s, e) PROVE Rising(u)
  <2> SUFFICES ASSUME NEW a \in DOMAIN u, NEW b \in DOMAIN u, a < b, u[a][1] = u[b][1] PROVE u[a][2] < u[b][2]
    BY DEF Rising
  <2>1. CASE b \in DOMAIN s /\ u[b] = s[b]
    <3>1. a # l + 1
      BY ONLY <1>l, <2>1, a \in DOMAIN u, a < b
    <3>2. QED
      BY <1>3, <1>5, <2>1, <3>1 DEF Rising
  <2>2. CASE b = l + 1 /\ u[b] = <<c, e[c] + 1>>
    <3>1. a # l + 1
      BY ONLY <1>l, <2>2, a \in DOMAIN u, a < b
    <3>2. a \in DOMAIN s /\ u[a] = s[a] /\ s[a][1] = c
      BY <1>3, <2>2, <3>1
    <3>3. QED
      BY <1>5, <1>r, <2>2, <3>2
  <2>3. QED
    BY <1>3, <2>1, <2>2
<1>6. ASSUME NEW d \in [Cpus -> Nat], Made(s, d), d[c] = e[c] + 1 PROVE Made(u, d)
  <2> SUFFICES ASSUME NEW a \in DOMAIN u PROVE u[a][2] <= d[u[a][1]]
    BY DEF Made
  <2>1. CASE u[a] = <<c, e[c] + 1>>
    BY <1>1, <1>6, <2>1
  <2>2. CASE a \in DOMAIN s /\ u[a] = s[a]
    BY <1>6, <2>2 DEF Made
  <2>3. QED
    BY <1>3, <2>1, <2>2
<1>7. ASSUME NEW b \in [Cpus -> Nat], New(s, b), b[c] <= e[c] PROVE New(u, b)
  <2> SUFFICES ASSUME NEW a \in DOMAIN u PROVE u[a][2] > b[u[a][1]]
    BY DEF New
  <2>1. CASE u[a] = <<c, e[c] + 1>>
    <3>1. b[c] \in Nat /\ b[c] < e[c] + 1
      BY <1>1, <1>7
    <3>2. QED
      BY <1>1, <2>1, <3>1
  <2>2. CASE a \in DOMAIN s /\ u[a] = s[a]
    BY <1>7, <2>2 DEF New
  <2>3. QED
    BY <1>3, <2>1, <2>2
<1>8. ASSUME NEW t \in Seq(Measure), Made(t, e), Less(t, s) PROVE Less(t, u)
  <2> SUFFICES ASSUME NEW a \in DOMAIN t, NEW b \in DOMAIN u, t[a][1] = u[b][1] PROVE t[a][2] < u[b][2]
    BY DEF Less
  <2>1. CASE u[b] = <<c, e[c] + 1>>
    BY <1>8, <1>r, <2>1
  <2>2. CASE b \in DOMAIN s /\ u[b] = s[b]
    BY <1>8, <2>2 DEF Less
  <2>3. QED
    BY <1>3, <2>1, <2>2
<1>9. QED
  BY <1>2, <1>3, <1>4, <1>5, <1>6, <1>7, <1>8 DEF AppendParts

\* Steps that leave the rings, what was read and what was taken as they are.
Kept == UNCHANGED <<prog, count_event, log, region, cpu, i, begun, taken>>

\* Such a step, when it ends the reading or goes on to it.
LEMMA KeptStep ==
  ASSUME RingInv, EmptyInv, TakenInv, Kept,
         \/ dpc' \in {"returned", "crashed", "copy"}
         \/ dpc \in {"start", "row", "region"} /\ dpc' \in {"row", "region", "open"}
         \/ dpc' = dpc
  PROVE  RingInv' /\ EmptyInv' /\ TakenInv'
<1>1. RingInv'
  BY DEF Kept, RingInv, Of, Rising, Made
<1>2. EmptyInv'
  BY DEF Kept, EmptyInv, Emptied, New
<1>3. TakenInv'
  BY DEF Kept, TakenInv, Of, Rising, Made, New, Less
<1>4. QED
  BY <1>1, <1>2, <1>3

\* The reads that empty the rings are enough.
LEMMA EnoughReads == n_read_clean \in Nat \ {0} /\ \A k \in Nat : k >= n_read_clean => N_UNIT * k > KERNEL_UNIT_BUFFER
<1> DEFINE q == KERNEL_UNIT_BUFFER \div N_UNIT
<1>1. q \in Nat /\ KERNEL_UNIT_BUFFER < N_UNIT * (q + 1) /\ n_read_clean = q + 1
  BY CpuType DEF n_read_clean
<1> HIDE DEF q
<1>2. ASSUME NEW k \in Nat, k >= q + 1 PROVE N_UNIT * k >= N_UNIT * (q + 1)
  <2>1. N_UNIT \in Nat
    BY CpuType
  <2>2. QED
    BY ONLY <1>1, <1>2, <2>1, k \in Nat
<1>3. ASSUME NEW k \in Nat, k >= q + 1 PROVE N_UNIT * k > KERNEL_UNIT_BUFFER
  <2>1. N_UNIT * k >= N_UNIT * (q + 1)
    BY <1>2, <1>3
  <2>2. N_UNIT * k \in Nat /\ N_UNIT * (q + 1) \in Nat /\ KERNEL_UNIT_BUFFER \in Nat
    BY <1>1, CpuType
  <2>3. QED
    BY ONLY <1>1, <2>1, <2>2
<1>4. QED
  BY <1>1, <1>3

\* The device is opened: whatever is in the rings is old.
LEMMA OpenStep == RingInv /\ TakenInv /\ prog = "trace" /\ open_device => RingInv' /\ EmptyInv' /\ TakenInv'
<1> SUFFICES ASSUME RingInv, TakenInv, open_device, dpc' = "clean" \/ dpc' = "returned" PROVE RingInv' /\ EmptyInv' /\ TakenInv'
  BY DEF open_device, Go, err_rec3, Leave
<1>r. taken = <<>> /\ log' = log /\ region' = region /\ taken' = taken /\ count_event' = count_event
  BY DEF RingInv, open_device, At, err_rec3, Leave, Loop, rings
<1>d. DOMAIN taken = {} /\ DOMAIN taken' = {}
  BY <1>r
<1>1. CASE dpc' = "clean"
  <2>1. begun' = count_event /\ i' = 0 /\ cpu' = 0
    BY <1>1 DEF open_device, Go, err_rec3, Leave
  <2>2. RingInv'
    <3>1. {count_event', begun'} \subseteq [Cpus -> Nat] /\ {log', region'} \subseteq [Cpus -> Seq(Measure)]
      BY <1>r, <2>1 DEF RingInv
    <3>2. taken' \in Seq(Measure) /\ cpu' \in 0..N_CPU /\ i' \in Nat
      <4>1. 0 \in 0..N_CPU /\ 0 \in Nat
        BY CpuType
      <4>2. QED
        BY <1>r, <2>1, <4>1 DEF RingInv
    <3>3. ASSUME NEW c \in Cpus
          PROVE  begun'[c] <= count_event'[c] /\ (Len(log[c]) < KERNEL_UNIT_BUFFER
                 /\ Of(log[c], c) /\ Rising(log[c]) /\ Made(log[c], count_event))'
      <4>1. count_event[c] \in Nat
        BY DEF RingInv
      <4>2. begun'[c] <= count_event'[c]
        BY <1>r, <2>1, <4>1
      <4>3. QED
        BY <1>r, <4>2 DEF RingInv
    <3>4. QED
      BY <1>1, <1>r, <3>1, <3>2, <3>3 DEF RingInv
  <2>3. \A c \in Cpus : \A k \in DOMAIN log[c] : k < KERNEL_UNIT_BUFFER
    <3>1. \A c \in Cpus : log[c] \in Seq(Measure) /\ Len(log[c]) < KERNEL_UNIT_BUFFER
      BY DEF RingInv
    <3>2. \A c \in Cpus : DOMAIN log[c] = 1..Len(log[c]) /\ Len(log[c]) \in Nat
      BY <3>1, LenProperties
    <3>3. QED
      BY <3>1, <3>2, CpuType
  <2>4. EmptyInv'
    <3>1. i' < n_read_clean
      BY <2>1, EnoughReads
    <3>2. \A c \in Cpus : Emptied(c)' = 0
      BY <2>1 DEF Emptied, Cpus
    <3>3. KERNEL_UNIT_BUFFER - N_UNIT * 0 = KERNEL_UNIT_BUFFER
      BY CpuType
    <3>4. ASSUME NEW c \in Cpus, NEW k \in DOMAIN log[c], k >= KERNEL_UNIT_BUFFER - N_UNIT * Emptied(c)' PROVE FALSE
      <4>1. k >= KERNEL_UNIT_BUFFER
        BY <3>2, <3>3, <3>4
      <4>2. k < KERNEL_UNIT_BUFFER /\ k \in Int /\ KERNEL_UNIT_BUFFER \in Nat
        <5>1. log[c] \in Seq(Measure)
          BY DEF RingInv
        <5>2. k \in Int
          BY <5>1, LenProperties
        <5>3. QED
          BY <2>3, <5>2, CpuType
      <4>3. QED
        BY ONLY <4>1, <4>2
    <3>5. QED
      BY <1>1, <1>r, <3>1, <3>4 DEF EmptyInv
  <2>5. TakenInv'
    BY <1>1, <1>d DEF TakenInv, Rising, New, Made, Less
  <2>6. QED
    BY <2>2, <2>4, <2>5
<1>2. CASE dpc' = "returned"
  <2>1. begun' = begun /\ cpu' = cpu /\ i' = i
    BY <1>2 DEF open_device, Go, err_rec3, Leave, Loop
  <2>2. RingInv'
    BY <1>2, <1>r, <2>1 DEF RingInv, Of, Rising, Made
  <2>3. EmptyInv'
    BY <1>2 DEF EmptyInv
  <2>4. TakenInv'
    BY <1>2, <1>d DEF TakenInv, Rising, New, Made, Less
  <2>5. QED
    BY <2>2, <2>3, <2>4
<1>3. QED
  BY <1>1, <1>2

\* A round of reads has emptied some more of each ring; after the last one nothing is old.
LEMMA CleanStep == RingInv /\ EmptyInv /\ TakenInv /\ clean_kernel_buffer => RingInv' /\ EmptyInv' /\ TakenInv'
<1> SUFFICES ASSUME RingInv, EmptyInv, TakenInv, clean_kernel_buffer PROVE RingInv' /\ EmptyInv' /\ TakenInv'
  OBVIOUS
<1>1. /\ dpc = "clean" /\ cpu = N_CPU /\ cpu' = 0 /\ UNCHANGED <<prog, count_event, log, region, begun, taken>>
      /\ \/ i + 1 < n_read_clean /\ i' = i + 1 /\ dpc' = "clean"
         \/ ~(i + 1 < n_read_clean) /\ i' = 0 /\ dpc' = "next"
  BY DEF clean_kernel_buffer, At, Go, History, rings
<1>2. taken = <<>> /\ i \in Nat
  BY <1>1 DEF RingInv
<1>d. DOMAIN taken = {} /\ DOMAIN taken' = {}
  BY <1>1, <1>2
<1>3. RingInv'
  <2>1. 0 \in 0..N_CPU /\ i' \in Nat
    BY <1>1, <1>2, CpuType
  <2>2. QED
    BY <1>1, <1>2, <2>1 DEF RingInv, Of, Rising, Made
<1>4. \A c \in Cpus : c < N_CPU /\ ~(c < 0)
  BY CpuType
<1>5. \A c \in Cpus : Emptied(c) = i + 1
  BY <1>1, <1>4 DEF Emptied
<1>6. \A c \in Cpus : \A k \in DOMAIN log[c] : k >= KERNEL_UNIT_BUFFER - N_UNIT * (i + 1) => log[c][k][2] > begun[c]
  BY <1>1, <1>5 DEF EmptyInv
<1>7. EmptyInv'
  <2>1. CASE dpc' = "clean"
    <3>1. \A c \in Cpus : Emptied(c)' = i + 1
      BY <1>1, <1>2, <1>4, <2>1 DEF Emptied
    <3>2. QED
      BY <1>1, <1>6, <2>1, <3>1 DEF EmptyInv
  <2>2. CASE dpc' = "next"
    <3>1. N_UNIT * (i + 1) > KERNEL_UNIT_BUFFER
      <4>1. i + 1 \in Nat /\ i + 1 >= n_read_clean
        BY <1>1, <1>2, <2>2, EnoughReads
      <4>2. QED
        BY <4>1, EnoughReads
    <3>2. KERNEL_UNIT_BUFFER - N_UNIT * (i + 1) < 0
      <4>1. N_UNIT * (i + 1) \in Nat
        BY <1>2, CpuType
      <4>2. QED
        BY ONLY <3>1, <4>1, CpuType
    <3>3. ASSUME NEW c \in Cpus, NEW k \in DOMAIN log[c] PROVE log[c][k][2] > begun[log[c][k][1]]
      <4>1. log[c] \in Seq(Measure) /\ log[c][k][1] = c
        BY DEF RingInv, Of
      <4>2. k \in Nat
        BY <4>1, LenProperties
      <4>3. N_UNIT * (i + 1) \in Nat
        BY <1>2, CpuType
      <4>4. k >= KERNEL_UNIT_BUFFER - N_UNIT * (i + 1)
        BY ONLY <3>2, <4>2, <4>3, CpuType
      <4>5. QED
        BY <1>6, <4>1, <4>4
    <3>4. QED
      BY <1>1, <2>2, <3>3 DEF EmptyInv, New
  <2>3. QED
    BY <1>1, <2>1, <2>2
<1>8. TakenInv'
  BY <1>1, <1>d DEF TakenInv, Rising, New, Made, Less
<1>9. QED
  BY <1>3, <1>7, <1>8

\* The next read begins, or the last one is over; and the device is put back to its start.
LEMMA NextStep ==
  RingInv /\ EmptyInv /\ TakenInv /\ (next_read \/ (lseek_device /\ dpc' = "next")) => RingInv' /\ EmptyInv' /\ TakenInv'
<1> SUFFICES ASSUME RingInv, EmptyInv, TakenInv, next_read \/ (lseek_device /\ dpc' = "next") PROVE RingInv' /\ EmptyInv' /\ TakenInv'
  OBVIOUS
<1>1. /\ dpc \in {"next", "lseek"} /\ UNCHANGED <<prog, count_event, log, region, begun, taken>>
      /\ \/ dpc' \in {"read", "regular"} /\ cpu' = 0 /\ i' = i
         \/ dpc' = "next" /\ cpu' = cpu /\ i' = i + 1
  <2>1. CASE next_read
    BY <2>1 DEF next_read, At, Go, History, rings
  <2>2. CASE lseek_device /\ dpc' = "next"
    BY <2>2 DEF lseek_device, At, Go, History, rings, err_rec4, Leave
  <2>3. QED
    BY <2>1, <2>2
<1>2. i \in Nat /\ cpu \in 0..N_CPU
  BY DEF RingInv
<1>3. RingInv'
  <2>1. cpu' \in 0..N_CPU /\ i' \in Nat
    BY <1>1, <1>2, CpuType
  <2>2. QED
    BY <1>1, <2>1 DEF RingInv, Of, Rising, Made
<1>4. EmptyInv'
  BY <1>1 DEF EmptyInv, New
<1>5. \A c \in Cpus : ~(c < 0)
  BY CpuType
<1>6. (dpc = "read")' => \A c \in Cpus : ~(c < cpu')
  BY <1>1, <1>5
<1>7. TakenInv'
  BY <1>1, <1>6 DEF TakenInv, Rising, New, Made, Less
<1>8. QED
  BY <1>3, <1>4, <1>7

\* All that the driver has read is handed to the daemon.
LEMMA SaveStep == RingInv /\ EmptyInv /\ TakenInv /\ save_measure => RingInv' /\ EmptyInv' /\ TakenInv'
<1> SUFFICES ASSUME RingInv, EmptyInv, TakenInv, save_measure PROVE RingInv' /\ EmptyInv' /\ TakenInv'
  OBVIOUS
<1>1. /\ dpc = "read" /\ cpu = N_CPU /\ taken' = taken \o Measures /\ dpc' \in {"lseek", "crashed"}
      /\ UNCHANGED <<prog, count_event, log, region, begun, cpu, i>>
  BY DEF save_measure, At, Go, Loop, rings
<1>2. \A c \in Cpus : c < cpu
  BY <1>1, CpuType
<1>t. region \in [Cpus -> Seq(Measure)] /\ taken \in Seq(Measure)
  BY DEF RingInv
<1>r. \A c \in Cpus : /\ Of(region[c], c) /\ Rising(region[c]) /\ Made(region[c], count_event) /\ New(region[c], begun)
                      /\ Less(region[c], log[c]) /\ Less(taken, region[c])
  BY <1>1, <1>2 DEF TakenInv
<1> DEFINE ms == Measures
<1>3. ms \in Seq(Measure) /\ Rising(ms) /\ \A k \in DOMAIN ms : \E c \in Cpus : \E m \in DOMAIN region[c] : ms[k] = region[c][m]
  BY <1>r, <1>t, MeasuresAre
<1>m. taken' = taken \o ms
  BY <1>1
<1> HIDE DEF ms
<1>4. Made(ms, count_event) /\ New(ms, begun) /\ Less(taken, ms)
  BY <1>3, <1>r DEF Made, New, Less
<1>5. ASSUME NEW c \in Cpus PROVE Less(ms, log[c])
  <2> SUFFICES ASSUME NEW a \in DOMAIN ms, NEW b \in DOMAIN log[c], ms[a][1] = log[c][b][1] PROVE ms[a][2] < log[c][b][2]
    BY DEF Less
  <2>1. PICK d \in Cpus : \E m \in DOMAIN region[d] : ms[a] = region[d][m]
    BY <1>3
  <2>2. PICK m \in DOMAIN region[d] : ms[a] = region[d][m]
    BY <2>1
  <2>3. d = c
    <3>1. log[c][b][1] = c
      BY DEF RingInv, Of
    <3>2. region[d][m][1] = d
      BY <1>r DEF Of
    <3>3. QED
      BY <2>2, <3>1, <3>2
  <2>4. QED
    BY <1>r, <2>2, <2>3 DEF Less
<1>6. Rising(taken) /\ New(taken, begun) /\ Made(taken, count_event) /\ \A c \in Cpus : Less(taken, log[c])
  BY DEF TakenInv
<1> DEFINE u == taken \o ms
<1>7. /\ u \in Seq(Measure)
      /\ Rising(u) /\ New(u, begun) /\ Made(u, count_event)
  <2>1. u \in Seq(Measure)
    BY <1>3, <1>t, ConcatProperties
  <2>2. QED
    BY ONLY <1>3, <1>4, <1>6, <1>t, <2>1, JoinOrder
<1>8. \A c \in Cpus : Less(u, log[c])
  BY ONLY <1>3, <1>5, <1>6, <1>t, JoinOrder
<1> HIDE DEF u
<1>9. taken' = u
  BY <1>m DEF u
<1>10. RingInv'
  BY <1>1, <1>7, <1>9 DEF RingInv, Of, Rising, Made
<1>11. EmptyInv'
  BY <1>1 DEF EmptyInv, New
<1>12. TakenInv'
  <2>1. Rising(taken') /\ New(taken', begun') /\ Made(taken', count_event') /\ \A c \in Cpus : Less(taken', log'[c])
    BY <1>1, <1>7, <1>8, <1>9
  <2>2. QED
    BY <1>1, <2>1 DEF TakenInv
<1>13. QED
  BY <1>10, <1>11, <1>12

\* The driver reads the ring of one cpu.
LEMMA ReadStep == RingInv /\ EmptyInv /\ TakenInv /\ trace_driver_read => RingInv' /\ EmptyInv' /\ TakenInv'
<1> SUFFICES ASSUME RingInv, EmptyInv, TakenInv, trace_driver_read PROVE RingInv' /\ EmptyInv' /\ TakenInv'
  OBVIOUS
<1> DEFINE s == log[cpu]
           n == IF Len(s) < N_UNIT THEN Len(s) ELSE N_UNIT
           x == SubSeq(s, 1, n)
           y == SubSeq(s, n + 1, Len(s))
<1>1. /\ dpc \in {"clean", "read"} /\ cpu \in Cpus /\ cpu' = cpu + 1
      /\ region' = [region EXCEPT ![cpu] = x] /\ log' = [log EXCEPT ![cpu] = y]
      /\ UNCHANGED <<prog, count_event, dpc, i, begun, taken>>
  BY DEF trace_driver_read, region_read_cpu
<1>2. log \in [Cpus -> Seq(Measure)] /\ region \in [Cpus -> Seq(Measure)] /\ taken \in Seq(Measure) /\ i \in Nat
      /\ {count_event, begun} \subseteq [Cpus -> Nat]
  BY DEF RingInv
<1>3. /\ s \in Seq(Measure) /\ Len(s) < KERNEL_UNIT_BUFFER
      /\ Of(s, cpu) /\ Rising(s) /\ Made(s, count_event) /\ Less(taken, s)
  BY <1>1, <1>2 DEF RingInv, TakenInv
<1>4. Len(s) \in Nat /\ n \in 0..Len(s)
  <2>1. Len(s) \in Nat
    BY <1>3, LenProperties
  <2>2. QED
    BY <2>1, CpuType
<1>n. (Len(s) < N_UNIT /\ n = Len(s)) \/ n = N_UNIT
  OBVIOUS
<1>o. x = SubSeq(s, 1, n) /\ y = SubSeq(s, n + 1, Len(s)) /\ s = log[cpu]
  OBVIOUS
<1> HIDE DEF s, n, x, y
<1>5. /\ x \in Seq(Measure) /\ y \in Seq(Measure) /\ Len(y) = Len(s) - n
      /\ Rising(x) /\ Rising(y) /\ Of(x, cpu) /\ Of(y, cpu) /\ Less(x, y)
      /\ Less(taken, x) /\ Less(taken, y)
      /\ Made(x, count_event) /\ Made(y, count_event)
      /\ \A k \in DOMAIN y : k + n \in DOMAIN s /\ y[k] = s[k + n]
      /\ New(s, begun) => New(x, begun) /\ New(y, begun)
  <2>1. s \in Seq(Measure) /\ n \in 0..Len(s) /\ x = SubSeq(s, 1, n) /\ y = SubSeq(s, n + 1, Len(s))
    BY <1>3, <1>4, <1>o
  <2>2. CutParts(s, n, x, y)
    BY ONLY <2>1, CutOrder
  <2>3. QED
    BY ONLY <1>3, <2>2 DEF CutParts
<1>6. \A c \in Cpus : /\ c # cpu => log'[c] = log[c] /\ region'[c] = region[c]
                      /\ c = cpu => log'[c] = y /\ region'[c] = x
  BY <1>1, <1>2
<1>7. {log', region'} \subseteq [Cpus -> Seq(Measure)]
  BY <1>1, <1>2, <1>5
<1>8. cpu' \in 0..N_CPU /\ cpu \in Nat
  <2>1. cpu \in 0..(N_CPU - 1)
    BY <1>1, CpuType
  <2>2. QED
    BY ONLY <1>1, <2>1, CpuType
<1>9. RingInv'
  <2>1. ASSUME NEW c \in Cpus
        PROVE  begun'[c] <= count_event'[c] /\ (Len(log[c]) < KERNEL_UNIT_BUFFER
               /\ Of(log[c], c) /\ Rising(log[c]) /\ Made(log[c], count_event))'
    <3>1. CASE c = cpu
      <4>1. Len(y) < KERNEL_UNIT_BUFFER
        BY ONLY <1>3, <1>4, <1>5, CpuType
      <4>2. log'[c] = y /\ count_event' = count_event
        BY <1>1, <1>6, <3>1
      <4>3. (Len(log[c]) < KERNEL_UNIT_BUFFER /\ Of(log[c], c) /\ Rising(log[c]) /\ Made(log[c], count_event))'
        BY <1>5, <3>1, <4>1, <4>2
      <4>4. QED
        BY <1>1, <4>3 DEF RingInv
    <3>2. CASE c # cpu
      BY <1>1, <1>6, <3>2 DEF RingInv
    <3>3. QED
      BY <3>1, <3>2
  <2>2. QED
    BY <1>1, <1>7, <1>8, <2>1 DEF RingInv
<1>10. \A c \in Cpus : c < cpu' => c = cpu \/ c < cpu
  <2>1. \A c \in Cpus : c \in Int
    BY CpuType
  <2>2. QED
    BY <1>1, <1>8, <2>1
<1>11. EmptyInv'
  <2>1. CASE dpc = "clean"
    <3>1. i' < n_read_clean
      BY <1>1, <2>1 DEF EmptyInv
    <3>2. ASSUME NEW c \in Cpus, NEW k \in DOMAIN log'[c], k >= KERNEL_UNIT_BUFFER - N_UNIT * Emptied(c)'
          PROVE  log'[c][k][2] > begun'[c]
      <4>1. CASE c # cpu
        <5>1. Emptied(c)' = Emptied(c)
          <6>1. c \in Int
            BY CpuType
          <6>2. (c < cpu + 1) = (c < cpu)
            BY ONLY <1>8, <4>1, <6>1
          <6>3. QED
            BY <1>1, <6>2 DEF Emptied
        <5>2. QED
          BY <1>1, <1>6, <2>1, <3>2, <4>1, <5>1 DEF EmptyInv
      <4>2. CASE c = cpu
        <5>1. Emptied(c) = i /\ Emptied(c)' = i + 1
          <6>1. ~(cpu < cpu) /\ cpu < cpu + 1
            BY ONLY <1>8
          <6>2. QED
            BY <1>1, <1>2, <4>2, <6>1 DEF Emptied
        <5>2. k \in DOMAIN y /\ log'[c][k] = y[k]
          BY <1>6, <3>2, <4>2
        <5>3. k \in 1..(Len(s) - n)
          BY <1>5, <5>2, LenProperties
        <5>4. n = N_UNIT
          BY <1>4, <1>n, <5>3
        <5>5. k + n >= KERNEL_UNIT_BUFFER - N_UNIT * i
          <6>1. N_UNIT * (i + 1) = N_UNIT * i + N_UNIT /\ N_UNIT * i \in Nat
            BY <1>2, CpuType
          <6>2. k >= KERNEL_UNIT_BUFFER - N_UNIT * (i + 1)
            BY <3>2, <5>1
          <6>3. k \in Nat
            BY <1>4, <5>3
          <6>4. QED
            BY ONLY <5>4, <6>1, <6>2, <6>3, CpuType
        <5>6. log[c][k + n][2] > begun[c] /\ y[k] = log[c][k + n]
          BY <1>5, <1>o, <2>1, <4>2, <5>1, <5>2, <5>5 DEF EmptyInv
        <5>7. QED
          BY <1>1, <5>2, <5>6
      <4>3. QED
        BY <4>1, <4>2
    <3>3. dpc' = "clean"
      BY <1>1, <2>1
    <3>4. QED
      BY <3>1, <3>2, <3>3 DEF EmptyInv
  <2>2. CASE dpc = "read"
    <3>1. \A c \in Cpus : New(log[c], begun)
      BY <2>2 DEF EmptyInv
    <3>2. New(y, begun)
      BY <1>1, <1>5, <1>o, <3>1
    <3>3. \A c \in Cpus : New(log'[c], begun')
      BY <1>1, <1>6, <3>1, <3>2
    <3>4. dpc' = "read"
      BY <1>1, <2>2
    <3>5. QED
      BY <3>3, <3>4 DEF EmptyInv
  <2>3. QED
    BY <1>1, <2>1, <2>2
<1>12. TakenInv'
  <2>1. Rising(taken') /\ New(taken', begun') /\ Made(taken', count_event')
    BY <1>1 DEF TakenInv
  <2>2. \A c \in Cpus : Less(taken', log'[c])
    BY <1>1, <1>5, <1>6 DEF TakenInv
  <2>3. ASSUME dpc' = "read", NEW c \in Cpus, c < cpu'
        PROVE  (/\ Of(region[c], c) /\ Rising(region[c]) /\ Made(region[c], count_event) /\ New(region[c], begun)
                /\ Less(region[c], log[c]) /\ Less(taken, region[c]))'
    <3>1. CASE c = cpu
      <4>1. New(s, begun)
        BY <1>1, <1>o, <2>3 DEF EmptyInv
      <4>2. region'[c] = x /\ log'[c] = y
        BY <1>6, <3>1
      <4>3. QED
        BY <1>1, <1>5, <3>1, <4>1, <4>2
    <3>2. CASE c # cpu
      <4>1. c < cpu
        BY <1>10, <2>3, <3>2
      <4>2. region'[c] = region[c] /\ log'[c] = log[c]
        BY <1>6, <3>2
      <4>3. QED
        BY <1>1, <2>3, <4>1, <4>2 DEF TakenInv
    <3>3. QED
      BY <3>1, <3>2
  <2>4. QED
    BY <2>1, <2>2, <2>3 DEF TakenInv
<1>13. QED
  BY <1>9, <1>11, <1>12

\* A measure is made, whatever the daemon is doing.
LEMMA EventStep == ASSUME NEW c \in Cpus PROVE RingInv /\ EmptyInv /\ TakenInv /\ event(c) => RingInv' /\ EmptyInv' /\ TakenInv'
<1> SUFFICES ASSUME RingInv, EmptyInv, TakenInv, event(c) PROVE RingInv' /\ EmptyInv' /\ TakenInv'
  OBVIOUS
<1> DEFINE e == count_event
           d == count_event'
           s == log[c]
           u == log'[c]
<1>1. /\ d = [e EXCEPT ![c] = @ + 1] /\ UNCHANGED <<prog, region, cpu, dpc, i, begun, taken>>
      /\ \/ Len(s) < KERNEL_UNIT_BUFFER - 1 /\ log' = [log EXCEPT ![c] = Append(@, <<c, e[c] + 1>>)]
         \/ log' = log
  BY DEF event
<1>2. log \in [Cpus -> Seq(Measure)] /\ region \in [Cpus -> Seq(Measure)] /\ taken \in Seq(Measure)
      /\ e \in [Cpus -> Nat] /\ begun \in [Cpus -> Nat]
  BY DEF RingInv
<1>3. d \in [Cpus -> Nat] /\ d[c] = e[c] + 1 /\ \A b \in Cpus : e[b] <= d[b]
  BY <1>1, <1>2
<1>4. /\ s \in Seq(Measure) /\ Len(s) < KERNEL_UNIT_BUFFER /\ Of(s, c) /\ Rising(s) /\ Made(s, e) /\ Less(taken, s)
      /\ begun[c] <= e[c]
  BY <1>2 DEF RingInv, TakenInv
<1>5. Made(s, d) /\ Made(taken, d)
  <2>1. Made(taken, e)
    BY DEF TakenInv
  <2>2. QED
    BY ONLY <1>2, <1>3, <1>4, <2>1, MadeMore
<1>6. \A b \in Cpus : b # c => log'[b] = log[b]
  BY <1>1, <1>2
<1>7. log' \in [Cpus -> Seq(Measure)] /\ (u = s \/ (Len(s) < KERNEL_UNIT_BUFFER - 1 /\ u = Append(s, <<c, e[c] + 1>>)))
  <2>1. CASE log' = log
    BY <1>2, <2>1
  <2>2. CASE Len(s) < KERNEL_UNIT_BUFFER - 1 /\ log' = [log EXCEPT ![c] = Append(@, <<c, e[c] + 1>>)]
    <3>1. <<c, e[c] + 1>> \in Measure
      BY <1>2 DEF Measure
    <3>2. Append(s, <<c, e[c] + 1>>) \in Seq(Measure)
      BY <1>4, <3>1, AppendProperties
    <3>3. QED
      BY <1>2, <2>2, <3>2
  <2>3. QED
    BY <1>1, <2>1, <2>2
<1>e. e = count_event /\ d = count_event' /\ s = log[c] /\ u = log'[c]
  OBVIOUS
<1> HIDE DEF e, d, s, u
<1>8. /\ Len(u) < KERNEL_UNIT_BUFFER /\ Of(u, c) /\ Rising(u) /\ Made(u, d)
      /\ New(s, begun) => New(u, begun)
      /\ \A t \in Seq(Measure) : Made(t, e) /\ Less(t, s) => Less(t, u)
      /\ \A k \in DOMAIN u : (k \in DOMAIN s /\ u[k] = s[k]) \/ u[k] = <<c, e[c] + 1>>
  <2>1. CASE u = s
    BY <1>4, <1>5, <2>1
  <2>2. CASE Len(s) < KERNEL_UNIT_BUFFER - 1 /\ u = Append(s, <<c, e[c] + 1>>)
    <3>1. /\ u \in Seq(Measure) /\ Len(u) = Len(s) + 1
          /\ Of(u, c) /\ Rising(u) /\ Made(u, d)
          /\ New(s, begun) => New(u, begun)
          /\ \A t \in Seq(Measure) : Made(t, e) /\ Less(t, s) => Less(t, u)
          /\ \A k \in DOMAIN u : (k \in DOMAIN s /\ u[k] = s[k]) \/ u[k] = <<c, e[c] + 1>>
      <4>1. s \in Seq(Measure) /\ c \in Cpus /\ e \in [Cpus -> Nat] /\ u = Append(s, <<c, e[c] + 1>>)
        BY <1>2, <1>4, <2>2
      <4>2. AppendParts(s, c, e, u)
        BY ONLY <4>1, AppendOrder
      <4>3. QED
        BY ONLY <1>2, <1>3, <1>4, <1>5, <4>2 DEF AppendParts
    <3>2. Len(s) \in Nat
      BY <1>4, LenProperties
    <3>3. Len(u) < KERNEL_UNIT_BUFFER
      BY ONLY <2>2, <3>1, <3>2, CpuType
    <3>4. QED
      BY <3>1, <3>3
  <2>3. QED
    BY <1>7, <2>1, <2>2
<1>9. RingInv'
  <2>1. ASSUME NEW b \in Cpus
        PROVE  begun'[b] <= count_event'[b] /\ (Len(log[b]) < KERNEL_UNIT_BUFFER
               /\ Of(log[b], b) /\ Rising(log[b]) /\ Made(log[b], count_event))'
    <3>1. begun'[b] <= count_event'[b]
      <4>1. begun[b] \in Nat /\ e[b] \in Nat /\ d[b] \in Nat /\ begun[b] <= e[b] /\ e[b] <= d[b]
        BY <1>2, <1>3, <1>e DEF RingInv
      <4>2. begun[b] <= d[b]
        BY ONLY <4>1
      <4>3. QED
        BY <1>1, <1>e, <4>2
    <3>2. CASE b = c
      BY <1>8, <1>e, <3>1, <3>2
    <3>3. CASE b # c
      <4>1. log[b] \in Seq(Measure) /\ Made(log[b], e) /\ Len(log[b]) < KERNEL_UNIT_BUFFER /\ Of(log[b], b) /\ Rising(log[b])
        BY <1>2, <1>e DEF RingInv
      <4>2. Made(log[b], d)
        BY ONLY <1>2, <1>3, <4>1, MadeMore
      <4>3. QED
        BY <1>6, <1>e, <3>1, <3>3, <4>1, <4>2
    <3>4. QED
      BY <3>2, <3>3
  <2>2. QED
    BY <1>1, <1>3, <1>7, <1>e, <2>1 DEF RingInv
<1>10. EmptyInv'
  <2>1. CASE dpc = "clean"
    <3>1. ASSUME NEW b \in Cpus, NEW k \in DOMAIN log'[b], k >= KERNEL_UNIT_BUFFER - N_UNIT * Emptied(b)'
          PROVE  log'[b][k][2] > begun'[b]
      <4>1. Emptied(b)' = Emptied(b)
        BY <1>1 DEF Emptied
      <4>2. CASE b # c \/ (k \in DOMAIN s /\ u[k] = s[k])
        BY <1>1, <1>6, <1>e, <2>1, <3>1, <4>1, <4>2 DEF EmptyInv
      <4>3. CASE b = c /\ u[k] = <<c, e[c] + 1>>
        <5>1. log'[b][k][2] = e[c] + 1 /\ begun' = begun /\ begun[c] \in Nat /\ e[c] \in Nat
          BY <1>1, <1>2, <1>e, <4>3
        <5>2. e[c] + 1 > begun[c]
          BY ONLY <1>4, <5>1
        <5>3. QED
          BY <4>3, <5>1, <5>2
      <4>4. QED
        BY <1>8, <1>e, <3>1, <4>2, <4>3
    <3>2. i' < n_read_clean /\ dpc' = "clean"
      BY <1>1, <2>1 DEF EmptyInv
    <3>3. QED
      BY <3>1, <3>2 DEF EmptyInv
  <2>2. CASE dpc # "clean"
    <3>1. dpc' # "clean" /\ dpc' = dpc /\ begun' = begun
      BY <1>1, <2>2
    <3>2. ASSUME dpc \in {"next", "read", "lseek"}, NEW b \in Cpus PROVE New(log'[b], begun)
      BY <1>6, <1>8, <1>e, <3>2 DEF EmptyInv
    <3>3. QED
      BY <3>1, <3>2 DEF EmptyInv
  <2>3. QED
    BY <2>1, <2>2
<1>11. TakenInv'
  <2>1. Rising(taken') /\ New(taken', begun') /\ Made(taken', count_event')
    BY <1>1, <1>5, <1>e DEF TakenInv
  <2>2. \A b \in Cpus : Less(taken', log'[b])
    <3>1. Made(taken, e)
      BY <1>e DEF TakenInv
    <3>2. QED
      BY <1>1, <1>2, <1>4, <1>6, <1>8, <1>e, <3>1 DEF TakenInv
  <2>3. ASSUME dpc' = "read", NEW b \in Cpus, b < cpu'
        PROVE  (/\ Of(region[b], b) /\ Rising(region[b]) /\ Made(region[b], count_event) /\ New(region[b], begun)
                /\ Less(region[b], log[b]) /\ Less(taken, region[b]))'
    <3>1. /\ Of(region[b], b) /\ Rising(region[b]) /\ Made(region[b], e) /\ New(region[b], begun)
          /\ Less(region[b], log[b]) /\ Less(taken, region[b]) /\ region[b] \in Seq(Measure)
      BY <1>1, <1>2, <1>e, <2>3 DEF TakenInv
    <3>2. Made(region[b], d)
      BY ONLY <1>2, <1>3, <3>1, MadeMore
    <3>3. Less(region[b], log'[b])
      BY <1>6, <1>8, <1>e, <3>1
    <3>4. QED
      BY <1>1, <1>e, <3>1, <3>2, <3>3
  <2>4. QED
    BY <2>1, <2>2, <2>3 DEF TakenInv
<1>12. QED
  BY <1>9, <1>10, <1>11

\* TraceInv is inductive.
LEMMA TraceStep == TraceInv /\ [Next]_vars => TraceInv'
<1> SUFFICES ASSUME TraceInv, [Next]_vars, prog' = "trace" PROVE RingInv' /\ EmptyInv' /\ TakenInv'
  BY DEF TraceInv
<1>1. prog' = prog
  BY Steps DEF OpenSteps, ReadSteps, CopySteps, MsgSteps, event, vars, At, trace_driver_read,
    daemon_create_sparse_file, sparse_first_row, init_region, open_device,
    read_failed, clean_kernel_buffer, next_read, save_measure, mmap_failed, lseek_device,
    create_regular_file, lseek_sparse_failed, copy_normal_file, copy_failed, copy_no_memory, record_done,
    msg_open_files, msg_init_region, msg_open_device, write_first_row, msg_measure, msg_save_line, data_synthesis, msg_record_done
<1>2. prog = "trace" /\ RingInv /\ EmptyInv /\ TakenInv
  BY <1>1 DEF TraceInv
<1>k. ASSUME Kept,
             \/ dpc' \in {"returned", "crashed", "copy"}
             \/ dpc \in {"start", "row", "region"} /\ dpc' \in {"row", "region", "open"}
             \/ dpc' = dpc
      PROVE  RingInv' /\ EmptyInv' /\ TakenInv'
  BY <1>2, <1>k, KeptStep
<1>3. CASE OpenSteps
  <2>1. CASE open_device
    BY <1>2, <2>1, OpenStep
  <2>2. CASE daemon_create_sparse_file \/ sparse_first_row \/ init_region
    <3>1. Kept
      BY <2>2 DEF Kept, daemon_create_sparse_file, sparse_first_row, init_region, err_rec1, err_rec2, Leave, Loop, History, At, rings
    <3>2. dpc' = "returned" \/ (dpc \in {"start", "row", "region"} /\ dpc' \in {"row", "region", "open"})
      BY <2>2 DEF daemon_create_sparse_file, sparse_first_row, init_region, err_rec1, err_rec2, Leave, Go, At
    <3>3. QED
      BY <1>k, <3>1, <3>2
  <2>3. QED
    BY <1>3, <2>1, <2>2 DEF OpenSteps
<1>4. CASE ReadSteps
  <2>1. CASE trace_driver_read
    BY <1>2, <2>1, ReadStep
  <2>2. CASE clean_kernel_buffer
    BY <1>2, <2>2, CleanStep
  <2>3. CASE save_measure
    BY <1>2, <2>3, SaveStep
  <2>4. CASE next_read \/ (lseek_device /\ dpc' = "next")
    BY <1>2, <2>4, NextStep
  <2>5. CASE read_failed \/ mmap_failed \/ (lseek_device /\ dpc' # "next")
    <3>1. Kept /\ dpc' = "returned"
      BY <2>5 DEF Kept, read_failed, mmap_failed, lseek_device, err_rec4, Leave, Loop, At, Go, rings
    <3>2. QED
      BY <1>k, <3>1
  <2>6. QED
    BY <1>4, <2>1, <2>2, <2>3, <2>4, <2>5 DEF ReadSteps
<1>5. CASE CopySteps
  <2>1. Kept
    BY <1>5 DEF Kept, CopySteps, create_regular_file, lseek_sparse_failed, copy_normal_file, copy_failed, copy_no_memory, record_done,
      err_rec4, err_rec5, Leave, Loop, History, At, rings
  <2>2. dpc' \in {"returned", "copy"}
    BY <1>5 DEF CopySteps, create_regular_file, lseek_sparse_failed, copy_normal_file, copy_failed, copy_no_memory, record_done,
      err_rec4, err_rec5, Leave, Go, At
  <2>3. QED
    BY <1>k, <2>1, <2>2
<1>6. CASE MsgSteps
  <2>1. FALSE
    BY <1>2, <1>6 DEF RingInv, MsgSteps, msg_open_files, msg_init_region, msg_open_device, write_first_row, msg_measure,
      msg_save_line, data_synthesis, msg_record_done, At
  <2>2. QED
    BY <2>1
<1>7. ASSUME NEW c \in Cpus, event(c) PROVE RingInv' /\ EmptyInv' /\ TakenInv'
  BY <1>2, <1>7, EventStep
<1>8. CASE UNCHANGED vars
  <2>1. Kept /\ dpc' = dpc
    BY <1>8 DEF Kept, vars, rings
  <2>2. QED
    BY <1>k, <2>1
<1>9. QED
  BY <1>3, <1>4, <1>5, <1>6, <1>7, <1>8, Steps

\* The rings hold what was measured before the daemon started, and nothing was taken.
LEMMA TraceInit == Init => TraceInv
<1> SUFFICES ASSUME Init, prog = "trace" PROVE RingInv /\ EmptyInv /\ TakenInv
  BY DEF TraceInv
<1>1. /\ count_event \in [Cpus -> 0..(KERNEL_UNIT_BUFFER - 1)] /\ log = [c \in Cpus |-> [n \in 1..count_event[c] |-> <<c, n>>]]
      /\ region = [c \in Cpus |-> <<>>] /\ cpu = 0 /\ dpc = "start" /\ i = 0 /\ begun = [c \in Cpus |-> 0] /\ taken = <<>>
  BY DEF Init
<1>2. ASSUME NEW c \in Cpus
      PROVE  /\ log[c] \in Seq(Measure) /\ Len(log[c]) < KERNEL_UNIT_BUFFER /\ Of(log[c], c) /\ Rising(log[c]) /\ Made(log[c], count_event)
             /\ count_event[c] \in Nat
  <2>1. count_event[c] \in Nat /\ count_event[c] < KERNEL_UNIT_BUFFER
    BY <1>1, CpuType
  <2>2. log[c] = [n \in 1..count_event[c] |-> <<c, n>>]
    BY <1>1
  <2>3. log[c] \in [1..count_event[c] -> Measure]
    BY <2>1, <2>2 DEF Measure
  <2>4. log[c] \in Seq(Measure) /\ Len(log[c]) = count_event[c]
    BY <2>1, <2>3, IsASeq, LenProperties
  <2>5. DOMAIN log[c] = 1..count_event[c] /\ \A n \in 1..count_event[c] : log[c][n] = <<c, n>>
    BY <2>2
  <2>6. Of(log[c], c) /\ Rising(log[c]) /\ Made(log[c], count_event)
    BY <2>1, <2>5 DEF Of, Rising, Made
  <2>7. QED
    BY <2>1, <2>4, <2>6
<1>3. taken \in Seq(Measure) /\ region \in [Cpus -> Seq(Measure)] /\ log \in [Cpus -> Seq(Measure)]
  <2>1. <<>> \in Seq(Measure)
    BY EmptySeq
  <2>2. QED
    BY <1>1, <1>2, <2>1
<1>4. count_event \in [Cpus -> Nat] /\ begun \in [Cpus -> Nat] /\ \A c \in Cpus : begun[c] <= count_event[c]
  BY <1>1, <1>2
<1>5. cpu \in 0..N_CPU /\ i \in Nat
  BY <1>1, CpuType
<1>6. RingInv
  BY <1>1, <1>2, <1>3, <1>4, <1>5 DEF RingInv
<1>7. EmptyInv
  BY <1>1 DEF EmptyInv
<1>8. TakenInv
  <2>1. DOMAIN taken = {}
    BY <1>1
  <2>2. QED
    BY <1>1, <2>1 DEF TakenInv, Rising, New, Made, Less
<1>9. QED
  BY <1>6, <1>7, <1>8

\* Nothing is recorded that was measured before the daemon opened the device: the reads that
\* empty the rings first are enough, whatever is measured meanwhile; and the measures of a cpu
\* are recorded in the order in which they were made.
THEOREM Discarded == Spec => []OldDiscarded
<1>1. TraceInv => OldDiscarded
  <2> SUFFICES ASSUME RingInv, TakenInv, NEW k \in 1..Len(taken)
               PROVE  /\ taken[k][2] > begun[taken[k][1]]
                      /\ \A m \in 1..(k - 1) : taken[m][1] = taken[k][1] => taken[m][2] < taken[k][2]
    BY DEF TraceInv, OldDiscarded
  <2>1. taken \in Seq(Measure)
    BY DEF RingInv
  <2>2. DOMAIN taken = 1..Len(taken) /\ Len(taken) \in Nat
    BY <2>1, LenProperties
  <2>3. taken[k][2] > begun[taken[k][1]]
    BY <2>2 DEF TakenInv, New
  <2>4. \A m \in 1..(k - 1) : m \in 1..Len(taken) /\ m < k
    BY ONLY <2>2, k \in 1..Len(taken)
  <2>5. \A m \in 1..(k - 1) : taken[m][1] = taken[k][1] => taken[m][2] < taken[k][2]
    BY <2>2, <2>4 DEF TakenInv, Rising
  <2>6. QED
    BY <2>3, <2>5
<1>2. QED
  BY <1>1, TraceInit, TraceStep, PTL DEF Spec

-----------------------------------------------------------------------------
(* What is recorded: the text of the files.                                *)

\* The characters of a line.
Char == ((Nat \X Nat) \union {"#"}) \X Nat

Early  == {"region", "open", "clean", "next", "read", "lseek", "regular"}
Places == {"start", "row", "copy", "returned", "crashed"} \union Early
MsgPlaces == {"msg region", "msg open", "msg row", "msg measure", "msg lines"}

\* The trace daemon: from its first row to the copy the sparse file holds the line of each
\* measure taken, and offset_map is its end; what the regular file holds is its front.
FileInv ==
  prog = "trace" =>
    /\ dpc \in Places /\ size_max \in Nat
    /\ dpc \in {"start", "row"} => sparse = <<>> /\ offset_map = 0
    /\ dpc \in Early => sparse = Header \o Text(taken) /\ offset_map = Len(sparse)
    /\ dpc \notin {"copy", "returned", "crashed"} => out = <<>>
    /\ dpc = "copy" /\ fault = "none" =>
         /\ sparse = Header \o Text(taken) /\ position \in 0..Len(sparse) /\ position <= size_max + 1
         /\ offset_map = Len(sparse) - position /\ out = SubSeq(sparse, 1, position)
    /\ dpc = "returned" /\ ret = 0 /\ fault = "none" => out = Header \o Text(taken)

\* The measures of one read, and of the reads that are done, are bounded; so is the file.
FitInv ==
  prog = "trace" =>
    /\ dpc # "crashed" /\ Len(sparse) <= size_max + 1
    /\ dpc \notin {"start", "returned"} => size_max = MAX_SIZE_SP
    /\ dpc = "read" => i < Reads /\ \A c \in Cpus : c < cpu => Len(region[c]) <= N_UNIT
    /\ dpc \in {"next", "read"} => i <= Reads /\ Len(taken) <= N_CPU * N_UNIT * i
    /\ dpc = "lseek" => i < Reads /\ Len(taken) <= N_CPU * N_UNIT * (i + 1)

\* The Msg daemon: the files after the measures of m sizes.
Lines(s, n)   == Text([k \in 1..n |-> <<s, k>>])
OfSizes(m)    == FlattenSeq([k \in 1..m |-> OfSize(Power[k - 1])])
SynthOf(m)    == Header \o Text([k \in 1..m |-> <<Power[k - 1], 0>>])
Before(m)     == /\ m \in 0..MaxSize /\ i = Power[m] /\ synth = SynthOf(m)
                 /\ \A k \in 0..(m - 1) : Power[k] <= MaxSize
AtRow(m)      == Before(m) /\ out = OfSizes(m)
AtMeasure(m)  == Before(m) /\ i <= MaxSize /\ out = OfSizes(m) \o Header
AtLines(m)    == /\ Before(m) /\ i <= MaxSize /\ cpu \in 0..BUFF_MEASURE /\ out = OfSizes(m) \o (Header \o Lines(i, cpu))
                 /\ region[0] = [n \in 1..BUFF_MEASURE |-> <<i, n>>]
SizeInv ==
  prog = "msg" =>
    /\ dpc \in {"start", "returned"} \union MsgPlaces /\ sparse = <<>> /\ size_max = 0 /\ 0 \in DOMAIN region
    /\ dpc \in {"start", "msg region", "msg open"} => out = <<>>
    /\ fault = "none" /\ dpc = "msg row" => \E m \in 0..MaxSize : AtRow(m)
    /\ fault = "none" /\ dpc = "msg measure" => \E m \in 0..MaxSize : AtMeasure(m)
    /\ fault = "none" /\ dpc = "msg lines" => \E m \in 0..MaxSize : AtLines(m)
    /\ fault = "none" /\ dpc = "returned" /\ ret = 0 => i > MaxSize /\ \E m \in 0..MaxSize : AtRow(m)

\* FlattenSeq of one part more.
OneMore(S, n, ss, t) ==
  (\A k \in 1..n : t[k] = ss[k]) => FlattenSeq(ss) \in Seq(S) /\ FlattenSeq(t) = FlattenSeq(ss) \o t[n + 1]

\* Without parts there is nothing.
LEMMA FlattenNone == \A f : f = [k \in 1..0 |-> f[k]] => FlattenSeq(f) = <<>>
<1> SUFFICES ASSUME NEW f, f = [k \in 1..0 |-> f[k]] PROVE FlattenSeq(f) = <<>>
  OBVIOUS
<1>1. f = <<>>
  OBVIOUS
<1>2. QED
  BY <1>1 DEF FlattenSeq

\* A part more comes after those there were.
LEMMA FlattenMore ==
  \A S : \A n \in Nat : \A ss \in [1..n -> Seq(S)] : \A t \in [1..(n + 1) -> Seq(S)] : OneMore(S, n, ss, t)
<1> SUFFICES ASSUME NEW S, NEW n \in Nat, NEW ss \in [1..n -> Seq(S)], NEW t \in [1..(n + 1) -> Seq(S)],
                    \A k \in 1..n : t[k] = ss[k]
             PROVE  FlattenSeq(ss) \in Seq(S) /\ FlattenSeq(t) = FlattenSeq(ss) \o t[n + 1]
  BY DEF OneMore
<1> DEFINE F(m, s, f) == /\ f[1] = s[1] /\ \A k \in 1..(m - 1) : f[k + 1] = f[k] \o s[k + 1]
                         /\ FlattenSeq(s) = f[m]
<1>1. \A m \in Nat \ {0} : \A s \in [1..m -> Seq(S)] : \E f \in [1..m -> Seq(S)] : F(m, s, f)
  BY ONLY FlattenIs, Zenon
<1>2. n + 1 \in Nat \ {0} /\ n + 1 \in 1..(n + 1) /\ 1 \in 1..(n + 1)
  OBVIOUS
<1>3. PICK g \in [1..(n + 1) -> Seq(S)] : F(n + 1, t, g)
  <2> HIDE DEF F
  <2> QED
    BY <1>1, <1>2
<1>g. \A k \in 1..n : g[k + 1] = g[k] \o t[k + 1]
  <2>1. (n + 1) - 1 = n
    OBVIOUS
  <2>2. \A k \in 1..((n + 1) - 1) : g[k + 1] = g[k] \o t[k + 1]
    BY <1>3, Zenon
  <2>3. QED
    BY ONLY <2>1, <2>2
<1>4. CASE n = 0
  <2>1. FlattenSeq(ss) = <<>>
    <3>1. ss = [k \in 1..0 |-> ss[k]]
      BY <1>4
    <3>2. QED
      BY ONLY <3>1, FlattenNone
  <2>2. FlattenSeq(t) = t[1] /\ t[n + 1] = t[1] /\ t[1] \in Seq(S)
    <3>1. n + 1 = 1
      BY <1>4
    <3>2. QED
      BY <1>2, <1>3, <3>1
  <2>3. <<>> \in Seq(S)
    BY EmptySeq
  <2>4. QED
    BY ONLY <2>1, <2>2, <2>3, ConcatEmptySeq
<1>5. CASE n # 0
  <2>1. n \in Nat \ {0} /\ n \in 1..n /\ 1 \in 1..n
    BY <1>5
  <2>2. PICK f \in [1..n -> Seq(S)] : F(n, ss, f)
    <3> HIDE DEF F
    <3> QED
      BY <1>1, <2>1
  <2> DEFINE E == {k \in 1..n : f[k] = g[k]}
  <2>3. 1..n \subseteq E
    <3>1. 1 \in E
      BY <1>3, <2>1, <2>2
    <3>2. ASSUME NEW k \in 1..(n - 1), k \in E PROVE k + 1 \in E
      <4>1. k + 1 \in 1..n /\ k \in 1..n
        OBVIOUS
      <4>2. f[k + 1] = f[k] \o ss[k + 1]
        BY <2>2
      <4>3. g[k + 1] = g[k] \o t[k + 1]
        BY <1>g, <4>1
      <4>4. t[k + 1] = ss[k + 1] /\ f[k] = g[k]
        BY <3>2, <4>1
      <4>5. QED
        BY <4>1, <4>2, <4>3, <4>4
    <3> HIDE DEF E
    <3>3. QED
      BY ONLY <3>1, <3>2, n \in Nat, UpTo
  <2>4. f[n] = g[n] /\ FlattenSeq(ss) = f[n] /\ f[n] \in Seq(S)
    BY <2>1, <2>2, <2>3
  <2>5. g[n + 1] = g[n] \o t[n + 1]
    BY <1>g, <2>1
  <2>6. FlattenSeq(t) = g[n + 1]
    BY <1>3
  <2>7. QED
    BY ONLY <2>4, <2>5, <2>6
<1>6. QED
  BY <1>4, <1>5

Pair == Nat \X Nat

\* Lines are made of characters that are not NUL, and shorter than N_CHAR_LINE.
LEMMA LineFacts ==
  /\ N_CHAR_LINE \in Nat /\ N_CHAR_LINE > 2 /\ NUL \notin Char
  /\ Header \in Seq(Char) /\ Len(Header) = N_CHAR_LINE - 1
  /\ \A m \in Pair : Line(m) \in Seq(Char) /\ Len(Line(m)) \in 1..(N_CHAR_LINE - 1)
<1>1. N_CHAR_LINE \in Nat /\ N_CHAR_LINE > 2
  BY RecorderAssumption
<1>2. NUL \notin Char
  <2> SUFFICES ASSUME <<>> \in Char PROVE FALSE
    BY DEF NUL
  <2>1. PICK a, b : <<>> = <<a, b>>
    BY DEF Char
  <2>2. Len(<<a, b>>) = 2 /\ Len(<<>>) = 0
    OBVIOUS
  <2>3. Len(<<a, b>>) = Len(<<>>)
    BY ONLY <2>1
  <2>4. QED
    BY ONLY <2>2, <2>3
<1>3. ASSUME NEW n \in Nat, NEW c \in Pair \union {"#"}, NEW l, l = [k \in 1..n |-> <<c, k>>] PROVE l \in Seq(Char) /\ Len(l) = n
  <2>1. l \in [1..n -> Char]
    BY <1>3 DEF Char, Pair
  <2>2. QED
    BY <2>1
<1>4. Header \in Seq(Char) /\ Len(Header) = N_CHAR_LINE - 1
  <2>1. N_CHAR_LINE - 1 \in Nat
    BY <1>1
  <2>2. QED
    BY <1>3, <2>1 DEF Header
<1>5. ASSUME NEW m \in Pair PROVE Line(m) \in Seq(Char) /\ Len(Line(m)) \in 1..(N_CHAR_LINE - 1)
  <2>1. m[2] \in Nat
    BY DEF Pair
  <2>2. m[2] % 2 \in 0..1
    BY <2>1
  <2> DEFINE l == N_CHAR_LINE - 1 - (m[2] % 2)
  <2>3. l \in 1..(N_CHAR_LINE - 1) /\ l \in Nat
    BY <1>1, <2>2
  <2>4. Line(m) = [k \in 1..l |-> <<m, k>>]
    BY DEF Line
  <2> HIDE DEF l
  <2>5. QED
    BY <1>3, <2>3, <2>4
<1>6. QED
  BY <1>1, <1>2, <1>4, <1>5

\* The text of one measure more.
TextOne(ms, m) ==
  /\ Text(ms) \in Seq(Char) /\ Text(Append(ms, m)) = Text(ms) \o Line(m) /\ Append(ms, m) \in Seq(Pair)

\* It is the text of the others, and the line of that one.
LEMMA TextMore == Text(<<>>) = <<>> /\ \A ms \in Seq(Pair) : \A m \in Pair : TextOne(ms, m)
<1>1. Text(<<>>) = <<>>
  <2> DEFINE f == [k \in 1..Len(<<>>) |-> Line(<<>>[k])]
  <2>1. f = [k \in 1..0 |-> f[k]]
    OBVIOUS
  <2>2. Text(<<>>) = FlattenSeq(f)
    BY DEF Text
  <2> HIDE DEF f
  <2>3. QED
    BY ONLY <2>1, <2>2, FlattenNone
<1>2. ASSUME NEW ms \in Seq(Pair), NEW m \in Pair PROVE TextOne(ms, m)
  <2> DEFINE n  == Len(ms)
             ns == Append(ms, m)
             ss == [k \in 1..n |-> Line(ms[k])]
             t  == [k \in 1..(n + 1) |-> Line(ns[k])]
  <2>1. n \in Nat /\ \A k \in 1..n : ms[k] \in Pair
    BY ElementOfSeq, LenProperties
  <2>2. ns \in Seq(Pair) /\ Len(ns) = n + 1 /\ (\A k \in 1..n : ns[k] = ms[k]) /\ ns[n + 1] = m
    BY AppendProperties
  <2>3. \A k \in 1..(n + 1) : ns[k] \in Pair
    BY <2>2, ElementOfSeq
  <2>4. Text(ms) = FlattenSeq(ss)
    BY DEF Text
  <2>5. Text(ns) = FlattenSeq(t)
    BY <2>2 DEF Text
  <2> HIDE DEF ns
  <2>6. ss \in [1..n -> Seq(Char)]
    BY <2>1, LineFacts
  <2>7. t \in [1..(n + 1) -> Seq(Char)]
    BY <2>3, LineFacts
  <2>8. (\A k \in 1..n : t[k] = ss[k]) /\ t[n + 1] = Line(m)
    BY <2>1, <2>2
  <2> HIDE DEF n, ss, t
  <2>9. OneMore(Char, n, ss, t)
    BY ONLY <2>1, <2>6, <2>7, FlattenMore
  <2>10. FlattenSeq(ss) \in Seq(Char) /\ FlattenSeq(t) = FlattenSeq(ss) \o t[n + 1]
    BY ONLY <2>8, <2>9 DEF OneMore
  <2>11. Text(ms) \in Seq(Char) /\ Text(ns) = Text(ms) \o Line(m) /\ ns \in Seq(Pair)
    BY ONLY <2>2, <2>4, <2>5, <2>8, <2>10
  <2>12. QED
    BY <2>11 DEF ns, TextOne
<1>3. QED
  BY <1>1, <1>2

\* A text is as long as its lines.
LEMMA TextLen == \A ms \in Seq(Pair) : Text(ms) \in Seq(Char) /\ Len(Text(ms)) <= (N_CHAR_LINE - 1) * Len(ms)
<1> DEFINE L == N_CHAR_LINE - 1
           Good == {n \in Nat : \A ms \in Seq(Pair) : Len(ms) = n - 1 => Text(ms) \in Seq(Char) /\ Len(Text(ms)) <= L * Len(ms)}
<1>0. L \in Nat
  BY LineFacts
<1>1. 1 \in Good
  <2> SUFFICES ASSUME NEW ms \in Seq(Pair), Len(ms) = 0 PROVE Text(ms) \in Seq(Char) /\ Len(Text(ms)) <= L * Len(ms)
    OBVIOUS
  <2>1. ms = <<>>
    BY EmptySeq
  <2>2. Text(ms) = <<>> /\ <<>> \in Seq(Char) /\ Len(<<>>) = 0
    BY <2>1, TextMore, EmptySeq
  <2>3. L * Len(ms) = 0
    BY <1>0
  <2>4. QED
    BY <2>2, <2>3
<1>2. ASSUME NEW n \in Nat, n \in Good, n >= 1 PROVE n + 1 \in Good
  <2> SUFFICES ASSUME NEW ms \in Seq(Pair), Len(ms) = n PROVE Text(ms) \in Seq(Char) /\ Len(Text(ms)) <= L * Len(ms)
    BY <1>2
  <2>1. ms # <<>>
    BY <1>2, EmptySeq
  <2>2. PICK s \in Seq(Pair), m \in Pair : ms = Append(s, m)
    BY <2>1, SequenceEmptyOrAppend
  <2>3. Len(s) \in Nat /\ Len(s) = n - 1
    BY <1>2, <2>2, AppendProperties, LenProperties
  <2>4. Text(s) \in Seq(Char) /\ Len(Text(s)) <= L * Len(s)
    BY <1>2, <2>3
  <2>5. Text(ms) = Text(s) \o Line(m)
    BY ONLY <2>2, TextMore DEF TextOne
  <2>6. Line(m) \in Seq(Char) /\ Len(Line(m)) \in Nat /\ Len(Line(m)) <= L
    BY LineFacts
  <2>7. Text(ms) \in Seq(Char) /\ Len(Text(ms)) = Len(Text(s)) + Len(Line(m)) /\ Len(Text(s)) \in Nat
    BY ONLY <2>4, <2>5, <2>6, ConcatProperties, LenProperties
  <2>8. L * Len(ms) = L * Len(s) + L /\ L * Len(s) \in Nat
    <3>1. \A a, b \in Nat : a * (b + 1) = a * b + a /\ a * b \in Nat
      OBVIOUS
    <3>2. Len(ms) = Len(s) + 1
      BY <2>3
    <3>3. QED
      BY ONLY <1>0, <2>3, <3>1, <3>2
  <2>9. Len(Text(ms)) <= L * Len(ms)
    BY ONLY <1>0, <2>4, <2>6, <2>7, <2>8
  <2>10. QED
    BY <2>7, <2>9
<1> HIDE DEF Good
<1>3. ASSUME NEW n \in Nat PROVE 1..n \subseteq Good
  <2>1. \A k \in 1..(n - 1) : k \in Good => k + 1 \in Good
    BY <1>2
  <2>2. QED
    BY ONLY <1>1, <2>1, n \in Nat, UpTo
<1>4. SUFFICES ASSUME NEW ms \in Seq(Pair) PROVE Text(ms) \in Seq(Char) /\ Len(Text(ms)) <= L * Len(ms)
  OBVIOUS
<1>5. Len(ms) \in Nat
  BY LenProperties
<1>6. Len(ms) + 1 \in Good
  BY <1>3, <1>5
<1>7. QED
  BY <1>5, <1>6 DEF Good

AssocAt(s, t, u) == (s \o t) \o u = s \o (t \o u)

\* It does not matter in which order texts are put together.
LEMMA Assoc == \A S : \A s, t, u \in Seq(S) : AssocAt(s, t, u)
BY ConcatAssociative DEF AssocAt

\* In a file without NUL, strlen finds the end of the file, and sprintf adds to it.
PutAtEnd(f, base, line) == StrLen(f, base) = Len(f) - base /\ Put(f, base, line) = f \o line

\* So it is with any file, and any line.
LEMMA PutIs == \A f \in Seq(Char) : \A base \in 0..Len(f) : \A line \in Seq(Char) : PutAtEnd(f, base, line)
<1> SUFFICES ASSUME NEW f \in Seq(Char), NEW base \in 0..Len(f), NEW line \in Seq(Char) PROVE PutAtEnd(f, base, line)
  OBVIOUS
<1> DEFINE l == Len(f)
           n == Len(line)
<1>1. l \in Nat /\ n \in Nat /\ \A k \in 1..l : f[k] # NUL
  BY LenProperties, ElementOfSeq, LineFacts
<1>b. base \in Nat /\ base <= l
  BY <1>1
<1>2. StrLen(f, base) = l - base
  <2> DEFINE K == {k \in (base + 1)..l : \A m \in (base + 1)..k : f[m] # NUL}
  <2>1. K = (base + 1)..l
    <3>1. \A k \in (base + 1)..l : \A m \in (base + 1)..k : m \in 1..l
      BY ONLY <1>1, <1>b
    <3>2. QED
      BY <1>1, <3>1
  <2>2. StrLen(f, base) = Cardinality(K)
    BY DEF StrLen
  <2> HIDE DEF K
  <2>3. Cardinality((base + 1)..l) = IF base + 1 > l THEN 0 ELSE l - (base + 1) + 1
    <3>1. base + 1 \in Int /\ l \in Int
      BY <1>1, <1>b
    <3>2. QED
      BY ONLY <3>1, FS_Interval
  <2>4. (IF base + 1 > l THEN 0 ELSE l - (base + 1) + 1) = l - base
    BY ONLY <1>1, <1>b
  <2>5. QED
    BY ONLY <2>1, <2>2, <2>3, <2>4
<1> DEFINE u == f \o line
<1>3. u = [k \in 1..(l + n) |-> IF k <= l THEN f[k] ELSE line[k - l]]
  <2>1. u \in Seq(Char) /\ Len(u) = l + n /\ \A k \in 1..(l + n) : u[k] = IF k <= l THEN f[k] ELSE line[k - l]
    BY ConcatProperties
  <2>2. u = [k \in 1..(l + n) |-> u[k]]
    BY <2>1, LenProperties
  <2>3. QED
    BY ONLY <2>1, <2>2
<1>4. base + (l - base) = l
  BY ONLY <1>1, <1>b
<1>5. Put(f, base, line) = [k \in 1..(IF l + n > l THEN l + n ELSE l) |->
                             IF k \in (l + 1)..(l + n) THEN line[k - l] ELSE IF k <= l THEN f[k] ELSE NUL]
  BY <1>2, <1>4 DEF Put
<1> HIDE DEF l, n, u
<1>6. (IF l + n > l THEN l + n ELSE l) = l + n
  BY ONLY <1>1
<1>7. \A k \in 1..(l + n) : (k \in (l + 1)..(l + n) => ~(k <= l)) /\ (k \notin (l + 1)..(l + n) => k <= l)
  BY ONLY <1>1
<1>8. Put(f, base, line) = u
  BY ONLY <1>3, <1>5, <1>6, <1>7
<1>9. QED
  BY <1>2, <1>8 DEF PutAtEnd, l, u

\* What sprintf leaves after the first k lines is a function of k.
File(ms, file) ==
  file = [k \in 0..Len(ms) |-> IF k = 0 THEN sparse ELSE Put(file[k - 1], OffsetToPage, Line(ms[k]))]

MapGives(h, ts, ms) ==
  /\ Mapped(ms) \in Seq(Char) /\ Mapped(ms) = h \o Text(ts \o ms)
  /\ StrLen(Mapped(ms), OffsetToPage) = Len(Mapped(ms)) - OffsetToPage

\* There is one: each line is put at the end of the text before, wherever the pages end.
LEMMA MappedIs ==
  ASSUME NEW h \in Seq(Char), NEW ts \in Seq(Pair), NEW ms \in Seq(Pair), sparse = h \o Text(ts), OffsetToPage \in 0..Len(sparse)
  PROVE  MapGives(h, ts, ms)
<1> DEFINE l == Len(ms)
           T(k) == ts \o SubSeq(ms, 1, k)
<1>1. l \in Nat
  BY LenProperties
<1>2. T(0) = ts
  <2>1. SubSeq(ms, 1, 0) = <<>>
    BY SubSeqEmpty
  <2>2. QED
    BY <2>1, ConcatEmptySeq
<1>3. ASSUME NEW k \in 0..l PROVE T(k) \in Seq(Pair)
  <2>1. SubSeq(ms, 1, k) \in Seq(Pair)
    BY ONLY ms \in Seq(Pair), k \in 0..l, Cut
  <2>2. QED
    BY <2>1, ConcatProperties
<1>4. ASSUME NEW k \in 1..l PROVE k - 1 \in 0..l /\ ms[k] \in Pair /\ T(k) = Append(T(k - 1), ms[k])
  <2>1. k - 1 \in 0..l /\ k \in 1..l /\ 1 \in 1..l /\ k \in 0..l
    BY <1>1
  <2>2. ms[k] \in Pair
    BY ElementOfSeq
  <2> DEFINE a == SubSeq(ms, 1, k - 1)
             b == SubSeq(ms, 1, k)
  <2>3. b = a \o <<ms[k]>>
    BY ONLY <2>1, ms \in Seq(Pair), SubSeqRecursiveSecond
  <2>4. a \in Seq(Pair) /\ b \in Seq(Pair)
    BY ONLY <2>1, ms \in Seq(Pair), Cut
  <2>5. <<ms[k]>> \in Seq(Pair)
    BY <2>2
  <2> HIDE DEF a, b
  <2>6. ts \o b = (ts \o a) \o <<ms[k]>>
    <3>1. AssocAt(ts, a, <<ms[k]>>)
      BY ONLY <2>4, <2>5, ts \in Seq(Pair), Assoc
    <3>2. QED
      BY ONLY <2>3, <3>1 DEF AssocAt
  <2>7. ts \o a \in Seq(Pair)
    BY ONLY <2>4, ts \in Seq(Pair), ConcatProperties
  <2>8. Append(ts \o a, ms[k]) = (ts \o a) \o <<ms[k]>>
    BY ONLY <2>2, <2>7, AppendIsConcat
  <2>9. QED
    BY ONLY <2>1, <2>2, <2>6, <2>8 DEF a, b
<1> HIDE DEF T
<1> DEFINE W(k) == h \o Text(T(k))
<1>5. ASSUME NEW k \in 0..l PROVE Text(T(k)) \in Seq(Char) /\ W(k) \in Seq(Char) /\ Len(W(k)) \in Nat
  <2>1. Text(T(k)) \in Seq(Char)
    BY <1>3, TextLen
  <2>2. W(k) \in Seq(Char)
    BY <2>1, ConcatProperties
  <2>3. QED
    BY <2>1, <2>2, LenProperties
<1>6. ASSUME NEW k \in 1..l PROVE W(k) = W(k - 1) \o Line(ms[k]) /\ Line(ms[k]) \in Seq(Char) /\ Len(W(k)) >= Len(W(k - 1))
  <2>1. k - 1 \in 0..l /\ k \in 0..l
    BY <1>1
  <2>2. Text(T(k)) = Text(T(k - 1)) \o Line(ms[k])
    <3>1. TextOne(T(k - 1), ms[k])
      BY <1>3, <1>4, <2>1, TextMore
    <3>2. QED
      BY <1>4, <3>1 DEF TextOne
  <2>3. Line(ms[k]) \in Seq(Char)
    BY <1>4, LineFacts
  <2>4. (h \o Text(T(k - 1))) \o Line(ms[k]) = h \o (Text(T(k - 1)) \o Line(ms[k]))
    <3>1. Text(T(k - 1)) \in Seq(Char)
      BY <1>5, <2>1
    <3>2. AssocAt(h, Text(T(k - 1)), Line(ms[k]))
      BY ONLY <2>3, <3>1, h \in Seq(Char), Assoc
    <3>3. QED
      BY ONLY <3>2 DEF AssocAt
  <2>5. W(k) = W(k - 1) \o Line(ms[k])
    BY ONLY <2>2, <2>4
  <2>6. Len(W(k)) = Len(W(k - 1)) + Len(Line(ms[k])) /\ Len(W(k - 1)) \in Nat /\ Len(Line(ms[k])) \in Nat
    <3>1. W(k - 1) \in Seq(Char)
      BY <1>5, <2>1
    <3>2. QED
      BY ONLY <2>3, <2>5, <3>1, ConcatProperties, LenProperties
  <2>7. QED
    BY ONLY <2>3, <2>5, <2>6
<1>7. W(0) = sparse
  BY <1>2
<1> HIDE DEF W
<1> DEFINE Long == {k \in 1..(l + 1) : Len(sparse) <= Len(W(k - 1))}
<1>8. 1..(l + 1) \subseteq Long
  <2>1. 1 \in Long
    <3>1. 1 \in 1..(l + 1) /\ 1 - 1 = 0 /\ 0 \in 0..l
      BY <1>1
    <3>2. QED
      BY <1>5, <1>7, <3>1
  <2>2. ASSUME NEW k \in 1..((l + 1) - 1), k \in Long PROVE k + 1 \in Long
    <3>1. k \in 1..l /\ k + 1 \in 1..(l + 1) /\ (k + 1) - 1 = k /\ k - 1 \in 0..l /\ k \in 0..l /\ 0 \in 0..l
      BY <1>1
    <3>2. Len(sparse) <= Len(W(k - 1)) /\ Len(W(k)) >= Len(W(k - 1))
      BY <1>6, <2>2, <3>1
    <3>3. Len(sparse) \in Nat /\ Len(W(k - 1)) \in Nat /\ Len(W(k)) \in Nat
      BY <1>5, <1>7, <3>1
    <3>4. Len(sparse) <= Len(W(k))
      BY ONLY <3>2, <3>3
    <3>5. QED
      BY <3>1, <3>4
  <2>3. l + 1 \in Nat
    BY <1>1
  <2> HIDE DEF Long
  <2>4. QED
    BY ONLY <2>1, <2>2, <2>3, UpTo
<1>9. ASSUME NEW k \in 1..l PROVE PutAtEnd(W(k - 1), OffsetToPage, Line(ms[k])) /\ W(k) = Put(W(k - 1), OffsetToPage, Line(ms[k]))
  <2>1. k \in 1..(l + 1) /\ k - 1 \in 0..l /\ 0 \in 0..l
    BY <1>1
  <2>2. Len(sparse) <= Len(W(k - 1)) /\ Len(W(k - 1)) \in Nat /\ Len(sparse) \in Nat
    BY <1>5, <1>7, <1>8, <2>1
  <2>3. OffsetToPage \in 0..Len(W(k - 1))
    BY ONLY <2>2, OffsetToPage \in 0..Len(sparse)
  <2>4. W(k - 1) \in Seq(Char) /\ Line(ms[k]) \in Seq(Char) /\ W(k) = W(k - 1) \o Line(ms[k])
    BY <1>5, <1>6, <2>1
  <2>5. PutAtEnd(W(k - 1), OffsetToPage, Line(ms[k]))
    BY ONLY <2>3, <2>4, PutIs
  <2>6. QED
    BY <2>4, <2>5 DEF PutAtEnd
<1>10. ASSUME NEW g, File(ms, g) PROVE \A k \in 0..l : g[k] = W(k)
  <2>0. g = [k \in 0..l |-> IF k = 0 THEN sparse ELSE Put(g[k - 1], OffsetToPage, Line(ms[k]))]
    BY <1>10 DEF File
  <2> DEFINE Same == {k \in 1..(l + 1) : g[k - 1] = W(k - 1)}
  <2>1. 1 \in Same
    <3>1. 1 \in 1..(l + 1) /\ 1 - 1 = 0 /\ 0 \in 0..l
      BY <1>1
    <3>2. QED
      BY <1>7, <2>0, <3>1
  <2>2. ASSUME NEW k \in 1..((l + 1) - 1), k \in Same PROVE k + 1 \in Same
    <3>1. k \in 1..l /\ k + 1 \in 1..(l + 1) /\ (k + 1) - 1 = k /\ k \in 0..l /\ k # 0
      BY <1>1
    <3>2. g[k] = Put(g[k - 1], OffsetToPage, Line(ms[k]))
      BY <2>0, <3>1
    <3>3. g[k] = W(k)
      BY <1>9, <2>2, <3>1, <3>2
    <3>4. QED
      BY <3>1, <3>3
  <2>3. l + 1 \in Nat
    BY <1>1
  <2> HIDE DEF Same
  <2>4. 1..(l + 1) \subseteq Same
    BY ONLY <2>1, <2>2, <2>3, UpTo
  <2>5. SUFFICES ASSUME NEW k \in 0..l PROVE g[k] = W(k)
    OBVIOUS
  <2>6. k + 1 \in 1..(l + 1) /\ (k + 1) - 1 = k
    BY <1>1
  <2>7. QED
    BY <2>4, <2>6 DEF Same
<1>11. File(ms, [k \in 0..l |-> W(k)])
  <2> DEFINE w == [k \in 0..l |-> W(k)]
  <2>1. ASSUME NEW k \in 0..l PROVE W(k) = IF k = 0 THEN sparse ELSE Put(w[k - 1], OffsetToPage, Line(ms[k]))
    <3>1. CASE k = 0
      BY <1>7, <3>1
    <3>2. CASE k # 0
      <4>1. k \in 1..l /\ k - 1 \in 0..l
        BY <1>1, <3>2
      <4>2. w[k - 1] = W(k - 1)
        BY <4>1
      <4>3. QED
        BY <1>9, <3>2, <4>1, <4>2
    <3>3. QED
      BY <3>1, <3>2
  <2>2. w = [k \in 0..l |-> IF k = 0 THEN sparse ELSE Put(w[k - 1], OffsetToPage, Line(ms[k]))]
    BY <2>1
  <2>3. QED
    BY <2>2 DEF File
<1>12. \E g : File(ms, g) /\ Mapped(ms) = g[l]
  <2> DEFINE g == CHOOSE file : File(ms, file)
  <2>1. File(ms, g)
    BY <1>11
  <2>2. Mapped(ms) = g[l]
    BY DEF Mapped, File
  <2>3. QED
    BY <2>1, <2>2
<1>13. Mapped(ms) = W(l)
  <2>1. l \in 0..l
    BY <1>1
  <2>2. QED
    BY <1>10, <1>12, <2>1
<1>14. T(l) = ts \o ms
  <2>1. SubSeq(ms, 1, l) = ms
    BY SubSeqFull
  <2>2. QED
    BY <2>1 DEF T
<1>15. Mapped(ms) = h \o Text(ts \o ms)
  BY <1>13, <1>14 DEF W
<1>16. Mapped(ms) \in Seq(Char) /\ OffsetToPage \in 0..Len(Mapped(ms))
  <2>1. l \in 0..l /\ l + 1 \in 1..(l + 1) /\ (l + 1) - 1 = l
    BY <1>1
  <2>2. W(l) \in Seq(Char) /\ Len(W(l)) \in Nat /\ Len(sparse) <= Len(W(l))
    BY <1>5, <1>8, <2>1
  <2>3. Len(sparse) \in Nat
    BY <1>1, <1>5, <1>7
  <2>4. QED
    BY ONLY <1>13, <2>2, <2>3, OffsetToPage \in 0..Len(sparse)
<1>17. StrLen(Mapped(ms), OffsetToPage) = Len(Mapped(ms)) - OffsetToPage
  <2>1. <<>> \in Seq(Char)
    BY EmptySeq
  <2>2. PutAtEnd(Mapped(ms), OffsetToPage, <<>>)
    BY ONLY <1>16, <2>1, PutIs
  <2>3. QED
    BY <2>2 DEF PutAtEnd
<1>18. QED
  BY <1>15, <1>16, <1>17 DEF MapGives

\* The text read page by page is the text.
PageAt(f, p, g) ==
  SubSeq(f, 1, p) \o SubSeq(SubSeq(Pad(f, p + g), p + 1, p + g), 1, g) = SubSeq(f, 1, p + g)

\* A page read at p, where the text goes on for g characters, continues it.
LEMMA PageIs == \A f \in Seq(Char) : \A p, g \in Nat : p + g <= Len(f) => PageAt(f, p, g)
<1> SUFFICES ASSUME NEW f \in Seq(Char), NEW p \in Nat, NEW g \in Nat, p + g <= Len(f) PROVE PageAt(f, p, g)
  OBVIOUS
<1> DEFINE l == Len(f)
           q == Pad(f, p + g)
           page == SubSeq(q, p + 1, p + g)
<1>1. l \in Nat /\ \A k \in 1..l : f[k] \in Char
  BY LenProperties, ElementOfSeq
<1>2. \A k \in 1..(p + g) : k \in 1..l /\ k <= l
  BY <1>1
<1>3. q = [k \in 1..(p + g) |-> f[k]]
  BY <1>2 DEF Pad
<1>4. page = [k \in 1..g |-> f[p + k]]
  <2>1. page = [k \in 1..(p + g - (p + 1) + 1) |-> q[k + (p + 1) - 1]]
    OBVIOUS
  <2>2. \A k \in 1..g : k + (p + 1) - 1 = p + k /\ p + k \in 1..(p + g)
    OBVIOUS
  <2>3. p + g - (p + 1) + 1 = g
    OBVIOUS
  <2> HIDE DEF page, q
  <2>4. \A k \in 1..g : q[k + (p + 1) - 1] = f[p + k]
    BY <1>3, <2>2
  <2>5. QED
    BY ONLY <2>1, <2>3, <2>4
<1>5. SubSeq(f, p + 1, p + g) = [k \in 1..g |-> f[p + k]]
  <2>1. SubSeq(f, p + 1, p + g) = [k \in 1..(p + g - (p + 1) + 1) |-> f[k + (p + 1) - 1]]
    OBVIOUS
  <2>2. \A k \in 1..g : k + (p + 1) - 1 = p + k
    OBVIOUS
  <2>3. p + g - (p + 1) + 1 = g
    OBVIOUS
  <2>4. QED
    BY ONLY <2>1, <2>2, <2>3
<1>6. page \in Seq(Char) /\ Len(page) = g
  <2>1. page \in [1..g -> Char]
    <3>1. \A k \in 1..g : p + k \in 1..l
      BY <1>1
    <3>2. QED
      BY <1>1, <1>4, <3>1
  <2> HIDE DEF page
  <2>2. QED
    BY ONLY <2>1, g \in Nat, IsASeq, LenProperties
<1> HIDE DEF page, q
<1>7. SubSeq(page, 1, g) = page
  BY ONLY <1>6, SubSeqFull
<1>8. SubSeq(f, 1, p) \o SubSeq(f, p + 1, p + g) = SubSeq(f, 1, p + g)
  <2>1. 1 \in 1..(Len(f) + 1) /\ p \in (1 - 1)..Len(f) /\ p + g \in p..Len(f)
    BY <1>1
  <2>2. QED
    BY ONLY <2>1, f \in Seq(Char), ConcatAdjacentSubSeq
<1>9. SubSeq(f, 1, p) \o SubSeq(page, 1, g) = SubSeq(f, 1, p + g)
  BY ONLY <1>4, <1>5, <1>7, <1>8
<1>10. QED
  BY <1>9 DEF PageAt, page, q

\* No step changes the program.
LEMMA SameProg == [Next]_vars => prog' = prog
BY Steps DEF OpenSteps, ReadSteps, CopySteps, MsgSteps, event, vars, At, trace_driver_read,
  daemon_create_sparse_file, sparse_first_row, init_region, open_device,
  read_failed, clean_kernel_buffer, next_read, save_measure, mmap_failed, lseek_device,
  create_regular_file, lseek_sparse_failed, copy_normal_file, copy_failed, copy_no_memory, record_done,
  msg_open_files, msg_init_region, msg_open_device, write_first_row, msg_measure, msg_save_line, data_synthesis, msg_record_done

\* What the trace daemon has taken, and the sparse file, are texts.
LEMMA TakenText ==
  ASSUME RingInv
  PROVE  /\ taken \in Seq(Pair) /\ Header \o Text(taken) \in Seq(Char) /\ Len(Header \o Text(taken)) \in Nat
         /\ Len(Header \o Text(taken)) <= (N_CHAR_LINE - 1) + (N_CHAR_LINE - 1) * Len(taken)
<1>1. taken \in Seq(Measure) /\ Measure \subseteq Pair
  <2>1. taken \in Seq(Measure)
    BY DEF RingInv
  <2>2. Cpus \subseteq Nat
    BY CpuType
  <2>3. QED
    BY <2>1, <2>2 DEF Measure, Pair
<1>2. taken \in Seq(Pair)
  BY ONLY <1>1, SeqMonotonic
<1>3. Text(taken) \in Seq(Char) /\ Len(Text(taken)) <= (N_CHAR_LINE - 1) * Len(taken)
  BY <1>2, TextLen
<1>4. Header \in Seq(Char) /\ Len(Header) = N_CHAR_LINE - 1 /\ N_CHAR_LINE - 1 \in Nat
  BY LineFacts
<1>5. Header \o Text(taken) \in Seq(Char) /\ Len(Header \o Text(taken)) = Len(Header) + Len(Text(taken))
  BY ONLY <1>3, <1>4, ConcatProperties
<1>6. Len(Text(taken)) \in Nat /\ Len(taken) \in Nat
  BY <1>2, <1>3, LenProperties
<1>7. (N_CHAR_LINE - 1) * Len(taken) \in Int
  <2>1. \A a, b \in Nat : a * b \in Int
    OBVIOUS
  <2>2. QED
    BY ONLY <1>4, <1>6, <2>1
<1>8. QED
  BY ONLY <1>2, <1>3, <1>4, <1>5, <1>6, <1>7

\* The measures of the region are appended to those taken.
LEMMA MeasuresPairs == ASSUME RingInv, TakenInv, dpc = "read", cpu = N_CPU PROVE Measures \in Seq(Pair) /\ Measures \in Seq(Measure)
<1>1. \A c \in Cpus : c < cpu
  BY CpuType
<1>2. region \in [Cpus -> Seq(Measure)] /\ \A c \in Cpus : Of(region[c], c) /\ Rising(region[c])
  BY <1>1 DEF RingInv, TakenInv
<1>3. Measures \in Seq(Measure)
  BY <1>2, MeasuresAre
<1>4. Measure \subseteq Pair
  BY CpuType DEF Measure, Pair
<1>5. QED
  BY ONLY <1>3, <1>4, SeqMonotonic

\* A step that leaves the files alone.
LEMMA FileKept ==
  ASSUME FileInv, prog = "trace", prog' = prog, UNCHANGED <<size_max, offset_map, sparse, out, taken>>,
         \/ dpc' = "returned" /\ ~(ret' = 0 /\ fault' = "none")
         \/ dpc \in Early /\ dpc' \in Early
         \/ UNCHANGED <<dpc, position, ret, fault>>
  PROVE  FileInv'
<1>1. CASE dpc' = "returned" /\ ~(ret' = 0 /\ fault' = "none")
  BY <1>1 DEF FileInv, Places, Early
<1>2. CASE dpc \in Early /\ dpc' \in Early
  BY <1>2 DEF FileInv, Places, Early
<1>3. CASE UNCHANGED <<dpc, position, ret, fault>>
  BY <1>3 DEF FileInv
<1>4. QED
  BY <1>1, <1>2, <1>3

\* The lines of one read come after those of the reads before, although the daemon looks for the
\* end of the text from the start of its last page.
LEMMA SaveLines ==
  ASSUME RingInv, TakenInv, FileInv, prog = "trace", dpc = "read", cpu = N_CPU
  PROVE  /\ Mapped(Measures) = Header \o Text(taken \o Measures) /\ NewOffset = Len(Mapped(Measures))
         /\ OffsetToPage + SizeMap = Len(sparse) + N_CHAR_LINE * Len(Measures)
<1>1. sparse = Header \o Text(taken) /\ offset_map = Len(sparse)
  BY DEF FileInv, Early
<1>2. offset_map \in Nat /\ taken \in Seq(Pair) /\ Header \in Seq(Char) /\ Measures \in Seq(Pair)
  BY <1>1, TakenText, LineFacts, MeasuresPairs
<1>3. PAGE_SIZE \in Nat \ {0}
  BY RecorderAssumption
<1>4. offset_map % PAGE_SIZE \in 0..offset_map
  <2>1. \A a \in Nat : \A b \in Nat \ {0} : a % b \in 0..a
    <3> TAKE a \in Nat
    <3> TAKE b \in Nat \ {0}
    <3>1. a = b * (a \div b) + (a % b) /\ a % b \in Nat /\ a \div b \in Nat
      OBVIOUS
    <3>2. b * (a \div b) >= 0
      BY <3>1
    <3>3. QED
      BY <3>1, <3>2
  <2>2. QED
    BY ONLY <1>2, <1>3, <2>1
<1>5. OffsetToPage \in 0..Len(sparse)
  BY <1>1, <1>2, <1>4 DEF OffsetToPage
<1>6. MapGives(Header, taken, Measures)
  BY ONLY <1>1, <1>2, <1>5, MappedIs
<1> DEFINE f == Mapped(Measures)
<1>7. f \in Seq(Char) /\ f = Header \o Text(taken \o Measures) /\ StrLen(f, OffsetToPage) = Len(f) - OffsetToPage
  BY <1>6 DEF MapGives
<1>8. NewOffset = OffsetToPage + StrLen(f, OffsetToPage)
  BY DEF NewOffset
<1> HIDE DEF f
<1>9. Len(f) \in Nat /\ OffsetToPage \in Int
  BY <1>1, <1>2, <1>5, <1>7, LenProperties
<1>10. NewOffset = Len(f)
  BY ONLY <1>7, <1>8, <1>9
<1>11. OffsetToPage + SizeMap = Len(sparse) + N_CHAR_LINE * Len(Measures)
  <2>1. N_CHAR_LINE * Len(Measures) \in Int
    <3>1. \A a, b \in Nat : a * b \in Int
      OBVIOUS
    <3>2. Len(Measures) \in Nat /\ N_CHAR_LINE \in Nat
      BY <1>2, LenProperties, LineFacts
    <3>3. QED
      BY ONLY <3>1, <3>2
  <2>2. \A a, b, c \in Int : (a - b) + (b + c) = a + c
    OBVIOUS
  <2>3. offset_map \in Int /\ offset_map % PAGE_SIZE \in Int
    BY <1>2, <1>4
  <2>4. (offset_map - (offset_map % PAGE_SIZE)) + ((offset_map % PAGE_SIZE) + N_CHAR_LINE * Len(Measures)) = offset_map + N_CHAR_LINE * Len(Measures)
    BY ONLY <2>1, <2>2, <2>3
  <2>5. QED
    BY <1>1, <2>4 DEF OffsetToPage, SizeMap
<1>12. QED
  BY <1>7, <1>10, <1>11 DEF f

\* One page of the sparse file is copied.
LEMMA CopyPage == RingInv /\ FileInv /\ prog = "trace" /\ prog' = prog /\ copy_normal_file => FileInv'
<1> SUFFICES ASSUME RingInv, FileInv, prog = "trace", prog' = prog, copy_normal_file PROVE FileInv'
  OBVIOUS
<1> DEFINE want == IF offset_map >= PAGE_SIZE THEN PAGE_SIZE ELSE offset_map
           got  == IF position + want <= size_max + 1 THEN want ELSE size_max + 1 - position
           page == SubSeq(Pad(sparse, position + got), position + 1, position + got)
<1>1. dpc = "copy" /\ offset_map > 0 /\ UNCHANGED <<dpc, size_max, sparse, taken>>
  BY DEF copy_normal_file, At
<1>2. PICK n \in {got} \union (IF ShortWrites /\ fault = "none" THEN 1..got ELSE {}) :
         /\ out' = out \o SubSeq(page, 1, n) /\ offset_map' = offset_map - n /\ position' = position + got
         /\ fault' = IF n < got THEN "short write" ELSE fault
  BY DEF copy_normal_file
<1>3. size_max \in Nat /\ PAGE_SIZE \in Nat \ {0} /\ size_max' \in Nat
  BY <1>1, RecorderAssumption DEF FileInv
<1>4. CASE fault' # "none"
  BY <1>1, <1>3, <1>4 DEF FileInv, Places, Early
<1>5. CASE fault' = "none"
  <2>1. fault = "none" /\ ~(n < got)
    BY <1>2, <1>5
  <2>2. /\ sparse = Header \o Text(taken) /\ position \in 0..Len(sparse) /\ position <= size_max + 1
        /\ offset_map = Len(sparse) - position /\ out = SubSeq(sparse, 1, position)
    BY <1>1, <2>1 DEF FileInv
  <2>3. sparse \in Seq(Char) /\ Len(sparse) \in Nat
    BY <2>2, TakenText
  <2>4. position \in Nat /\ offset_map \in Nat
    BY <2>2, <2>3
  <2>5. want \in Nat /\ want <= offset_map
    BY <1>3, <2>4
  <2> HIDE DEF want
  <2>6. got \in Nat /\ position + got <= Len(sparse) /\ position + got <= size_max + 1
    <3>1. CASE position + want <= size_max + 1
      BY <2>2, <2>3, <2>4, <2>5, <3>1
    <3>2. CASE ~(position + want <= size_max + 1)
      BY <1>3, <2>2, <2>3, <2>4, <2>5, <3>2
    <3>3. QED
      BY <3>1, <3>2
  <2> HIDE DEF got
  <2>7. n = got
    BY <1>2, <2>1, <2>6
  <2>8. PageAt(sparse, position, got)
    BY <2>3, <2>4, <2>6, PageIs
  <2>9. SubSeq(sparse, 1, position) \o SubSeq(page, 1, got) = SubSeq(sparse, 1, position + got)
    BY <2>8 DEF PageAt
  <2> HIDE DEF page
  <2>10. out' = SubSeq(sparse', 1, position')
    BY <1>1, <1>2, <2>2, <2>7, <2>9
  <2>11. position' \in 0..Len(sparse') /\ position' <= size_max' + 1 /\ offset_map' = Len(sparse') - position'
    <3>1. position' = position + got /\ offset_map' = offset_map - got /\ sparse' = sparse /\ size_max' = size_max
      BY <1>1, <1>2, <2>7
    <3>2. position + got \in 0..Len(sparse) /\ offset_map - got = Len(sparse) - (position + got)
      BY ONLY <2>2, <2>3, <2>4, <2>6
    <3>3. QED
      BY ONLY <2>6, <3>1, <3>2
  <2>12. sparse' = Header \o Text(taken')
    BY <1>1, <2>2
  <2>13. QED
    BY <1>1, <1>3, <2>10, <2>11, <2>12 DEF FileInv, Places, Early
<1>6. QED
  BY <1>4, <1>5

\* FileInv is inductive.
LEMMA FileStep == TraceInv /\ FileInv /\ [Next]_vars => FileInv'
<1> SUFFICES ASSUME TraceInv, FileInv, [Next]_vars, prog' = "trace" PROVE FileInv'
  BY DEF FileInv
<1>1. prog' = prog /\ prog = "trace"
  BY SameProg
<1>2. RingInv /\ TakenInv
  BY <1>1 DEF TraceInv
<1>k. ASSUME UNCHANGED <<size_max, offset_map, sparse, out, taken>>,
             \/ dpc' = "returned" /\ ~(ret' = 0 /\ fault' = "none")
             \/ dpc \in Early /\ dpc' \in Early
             \/ UNCHANGED <<dpc, position, ret, fault>>
      PROVE  FileInv'
  BY <1>1, <1>k, FileKept
<1>3. CASE OpenSteps
  <2>1. CASE daemon_create_sparse_file /\ dpc' = "row"
    <3>1. /\ dpc = "start" /\ size_max' = Wrap(MAX_SIZE_SP) /\ size_max' >= 0 /\ offset_map' = 0
          /\ UNCHANGED <<sparse, out>>
      BY <2>1 DEF daemon_create_sparse_file, err_rec1, Leave, At, Go
    <3>2. size_max' \in Nat
      <4>1. MAX_SIZE_SP \in Int
        <5>1. {Reads, PLUS_CHAR_LINE, N_UNIT, N_CHAR_LINE, N_CPU} \subseteq Nat
          BY RecorderAssumption
        <5>2. \A a, b \in Nat : a * b \in Nat /\ a + b \in Nat
          OBVIOUS
        <5>3. MAX_SIZE_SP \in Nat
          BY <5>1, <5>2, Zenon DEF MAX_SIZE_SP
        <5>4. QED
          BY <5>3
      <4>2. INT_RANGE \in Nat \ {0}
        BY RecorderAssumption
      <4>3. INT_RANGE \div 2 \in Int
        BY <4>2
      <4>4. (MAX_SIZE_SP + INT_RANGE \div 2) % INT_RANGE \in Int
        BY <4>1, <4>2, <4>3
      <4>5. Wrap(MAX_SIZE_SP) \in Int
        BY <4>3, <4>4 DEF Wrap
      <4>6. QED
        BY <3>1, <4>5
    <3>3. sparse = <<>> /\ out = <<>>
      BY <1>1, <3>1 DEF FileInv
    <3>4. QED
      BY <2>1, <3>1, <3>2, <3>3 DEF FileInv, Places, Early
  <2>2. CASE sparse_first_row /\ dpc' = "region"
    <3>1. dpc = "row" /\ sparse' = Header /\ offset_map' = Len(Header) /\ UNCHANGED <<size_max, out, taken>>
      BY <2>2 DEF sparse_first_row, err_rec2, Leave, At, Go, History
    <3>2. taken = <<>> /\ out = <<>> /\ size_max \in Nat
      BY <1>1, <1>2, <3>1 DEF FileInv, RingInv
    <3>3. Header \o Text(taken) = Header
      <4>1. Text(taken) = <<>> /\ Header \in Seq(Char)
        BY <3>2, TextMore, LineFacts
      <4>2. QED
        BY <4>1, ConcatEmptySeq
    <3>4. sparse' = Header \o Text(taken') /\ offset_map' = Len(sparse')
      BY <3>1, <3>3
    <3>5. QED
      BY <2>2, <3>1, <3>2, <3>4 DEF FileInv, Places, Early
  <2>3. CASE (init_region /\ dpc' = "open") \/ (open_device /\ dpc' = "clean")
    <3>1. UNCHANGED <<size_max, offset_map, sparse, out, taken>> /\ dpc \in Early /\ dpc' \in Early
      BY <2>3 DEF init_region, open_device, err_rec2, err_rec3, Leave, At, Go, Files, files, History, Early
    <3>2. QED
      BY <1>k, <3>1
  <2>4. CASE (daemon_create_sparse_file /\ dpc' # "row") \/ (sparse_first_row /\ dpc' # "region")
             \/ (init_region /\ dpc' # "open") \/ (open_device /\ dpc' # "clean")
    <3>0. -1 # 0
      OBVIOUS
    <3>1. UNCHANGED <<size_max, offset_map, sparse, out, taken>> /\ dpc' = "returned" /\ ~(ret' = 0 /\ fault' = "none")
      <4>1. CASE daemon_create_sparse_file /\ dpc' # "row"
        BY <3>0, <4>1 DEF daemon_create_sparse_file, err_rec1, Leave, Go, Files, files
      <4>2. CASE sparse_first_row /\ dpc' # "region"
        BY <3>0, <4>2 DEF sparse_first_row, err_rec2, Leave, Go, Files, files
      <4>3. CASE init_region /\ dpc' # "open"
        BY <4>3 DEF init_region, err_rec2, Leave, Go, Files, files
      <4>4. CASE open_device /\ dpc' # "clean"
        BY <4>4 DEF open_device, err_rec3, Leave, Go, Files, files
      <4>5. QED
        BY <2>4, <4>1, <4>2, <4>3, <4>4
    <3>2. QED
      BY <1>k, <3>1
  <2>5. QED
    BY <1>3, <2>1, <2>2, <2>3, <2>4 DEF OpenSteps
<1>4. CASE ReadSteps
  <2>1. CASE save_measure
    <3>1. dpc = "read" /\ cpu = N_CPU /\ taken' = taken \o Measures /\ dpc' \in {"lseek", "crashed"} /\ UNCHANGED <<size_max, out>>
      BY <2>1 DEF save_measure, At, Go, files
    <3>2. sparse = Header \o Text(taken) /\ offset_map = Len(sparse) /\ out = <<>> /\ size_max \in Nat
      BY <1>1, <3>1 DEF FileInv, Early
    <3>3. sparse' = Header \o Text(taken') /\ offset_map' = Len(sparse')
      <4>1. CASE Measures = <<>>
        <5>1. taken' = taken
          BY <1>2, <3>1, <4>1, TakenText, ConcatEmptySeq
        <5>2. UNCHANGED <<sparse, offset_map>>
          BY <2>1, <4>1 DEF save_measure, files
        <5>3. QED
          BY <3>2, <5>1, <5>2
      <4>2. CASE Measures # <<>>
        <5>1. sparse' = Mapped(Measures) /\ offset_map' = NewOffset
          BY <2>1, <4>2 DEF save_measure
        <5>2. QED
          BY <1>1, <1>2, <3>1, <5>1, SaveLines
      <4>3. QED
        BY <4>1, <4>2
    <3>4. QED
      BY <3>1, <3>2, <3>3 DEF FileInv, Places, Early
  <2>2. CASE trace_driver_read \/ clean_kernel_buffer \/ next_read \/ (lseek_device /\ dpc' = "next")
    <3>1. UNCHANGED <<size_max, offset_map, sparse, out, taken>> /\ dpc \in Early /\ dpc' \in Early
      BY <2>2 DEF trace_driver_read, clean_kernel_buffer, next_read, lseek_device, err_rec4, Leave, At, Go, Files, files, History, Early
    <3>2. QED
      BY <1>k, <3>1
  <2>3. CASE read_failed \/ mmap_failed \/ (lseek_device /\ dpc' # "next")
    <3>1. UNCHANGED <<size_max, offset_map, sparse, out, taken>> /\ dpc' = "returned" /\ ~(ret' = 0 /\ fault' = "none")
      BY <2>3 DEF read_failed, mmap_failed, lseek_device, err_rec4, Leave, At, Go, Files, files
    <3>2. QED
      BY <1>k, <3>1
  <2>4. QED
    BY <1>4, <2>1, <2>2, <2>3 DEF ReadSteps
<1>5. CASE CopySteps
  <2>1. CASE create_regular_file /\ dpc' = "copy"
    <3>1. dpc = "regular" /\ position' = 0 /\ UNCHANGED <<size_max, offset_map, sparse, out, taken>>
      BY <2>1 DEF create_regular_file, err_rec4, Leave, At, Go, History
    <3>2. sparse = Header \o Text(taken) /\ offset_map = Len(sparse) /\ out = <<>> /\ size_max \in Nat
      BY <1>1, <3>1 DEF FileInv, Early
    <3>3. Len(sparse) \in Nat
      BY <1>2, <3>2, TakenText
    <3>4. SubSeq(sparse, 1, 0) = <<>>
      BY SubSeqEmpty
    <3>5. /\ position' \in 0..Len(sparse') /\ position' <= size_max' + 1
          /\ offset_map' = Len(sparse') - position' /\ out' = SubSeq(sparse', 1, position')
      BY <3>1, <3>2, <3>3, <3>4
    <3>6. sparse' = Header \o Text(taken') /\ size_max' \in Nat
      BY <3>1, <3>2
    <3>7. QED
      BY <2>1, <3>5, <3>6 DEF FileInv, Places, Early
  <2>2. CASE copy_normal_file
    BY <1>1, <1>2, <2>2, CopyPage
  <2>3. CASE record_done
    <3>1. dpc = "copy" /\ offset_map = 0 /\ dpc' = "returned" /\ UNCHANGED <<size_max, out, taken, fault>>
      BY <2>3 DEF record_done, err_rec5, Leave, At, Go, Files, files
    <3>2. size_max' \in Nat
      BY <1>1, <3>1 DEF FileInv
    <3>3. fault' = "none" => out' = Header \o Text(taken')
      <4> SUFFICES ASSUME fault = "none" PROVE out = Header \o Text(taken)
        BY <3>1
      <4>1. /\ sparse = Header \o Text(taken) /\ position \in 0..Len(sparse)
            /\ offset_map = Len(sparse) - position /\ out = SubSeq(sparse, 1, position)
        BY <1>1, <3>1 DEF FileInv
      <4>2. sparse \in Seq(Char) /\ Len(sparse) \in Nat
        BY <1>2, <4>1, TakenText
      <4>3. position = Len(sparse)
        BY ONLY <3>1, <4>1, <4>2
      <4>4. SubSeq(sparse, 1, Len(sparse)) = sparse
        BY ONLY <4>2, SubSeqFull
      <4>5. QED
        BY ONLY <4>1, <4>3, <4>4
    <3>4. QED
      BY <3>1, <3>2, <3>3 DEF FileInv, Places, Early
  <2>4. CASE lseek_sparse_failed \/ copy_failed \/ copy_no_memory \/ (create_regular_file /\ dpc' # "copy")
    <3>0. -1 # 0
      OBVIOUS
    <3>1. UNCHANGED <<size_max, offset_map, sparse, out, taken>> /\ dpc' = "returned" /\ ~(ret' = 0 /\ fault' = "none")
      <4>1. CASE lseek_sparse_failed
        BY <3>0, <4>1 DEF lseek_sparse_failed, Go, Files, files
      <4>2. CASE copy_failed
        BY <3>0, <4>2 DEF copy_failed, err_rec5, Leave, Go, Files, files
      <4>3. CASE copy_no_memory
        BY <3>0, <4>3 DEF copy_no_memory, err_rec5, Leave, Go, Files, files
      <4>4. CASE create_regular_file /\ dpc' # "copy"
        BY <3>0, <4>4 DEF create_regular_file, err_rec4, Leave, Go, Files, files
      <4>5. QED
        BY <2>4, <4>1, <4>2, <4>3, <4>4
    <3>2. QED
      BY <1>k, <3>1
  <2>5. QED
    BY <1>5, <2>1, <2>2, <2>3, <2>4 DEF CopySteps
<1>6. CASE MsgSteps
  <2>1. FALSE
    BY <1>1, <1>2, <1>6 DEF RingInv, MsgSteps, msg_open_files, msg_init_region, msg_open_device, write_first_row, msg_measure,
      msg_save_line, data_synthesis, msg_record_done, At
  <2>2. QED
    BY <2>1
<1>7. ASSUME NEW c \in Cpus, event(c) PROVE FileInv'
  BY <1>k, <1>7 DEF event, files
<1>8. CASE UNCHANGED vars
  BY <1>k, <1>8 DEF vars, files
<1>9. QED
  BY <1>3, <1>4, <1>5, <1>6, <1>7, <1>8, Steps

\* Before the daemon starts there is no text.
LEMMA FileInit == Init => FileInv
BY DEF Init, FileInv, Places, Early

-----------------------------------------------------------------------------
(* What the Msg daemon records.                                            *)

PowerTo(m, g) == g = [n \in 0..m |-> IF n = 0 THEN 1 ELSE 2 * g[n - 1]]

\* The powers of 2.
LEMMA PowerIs ==
  /\ MaxSize \in Nat \ {0} /\ Power[0] = 1
  /\ \A n \in 0..MaxSize : Power[n] \in Nat /\ Power[n] > n
  /\ \A n \in 1..MaxSize : Power[n] = 2 * Power[n - 1]
<1>1. MaxSize \in Nat \ {0}
  BY RecorderAssumption
<1> DEFINE Good == {m \in Nat : \E g : PowerTo(m - 1, g)}
<1>2. 1 \in Good
  <2> DEFINE g == [n \in 0..0 |-> 1]
  <2>1. g = [n \in 0..0 |-> IF n = 0 THEN 1 ELSE 2 * g[n - 1]]
    OBVIOUS
  <2>2. 1 - 1 = 0
    OBVIOUS
  <2>3. QED
    BY <2>1, <2>2 DEF PowerTo
<1>3. ASSUME NEW m \in Nat \ {0}, m \in Good PROVE m + 1 \in Good
  <2>1. PICK g : PowerTo(m - 1, g)
    BY <1>3
  <2>2. g = [n \in 0..(m - 1) |-> IF n = 0 THEN 1 ELSE 2 * g[n - 1]]
    BY <2>1 DEF PowerTo
  <2> DEFINE h == [n \in 0..m |-> IF n = m THEN 2 * g[m - 1] ELSE g[n]]
  <2>3. ASSUME NEW n \in 0..m PROVE h[n] = IF n = 0 THEN 1 ELSE 2 * h[n - 1]
    <3>1. CASE n = m
      <4>1. n # 0 /\ m - 1 \in 0..m /\ m - 1 # m
        BY <3>1
      <4>2. h[n] = 2 * g[m - 1] /\ h[m - 1] = g[m - 1]
        BY <3>1, <4>1
      <4>3. QED
        BY <3>1, <4>1, <4>2
    <3>2. CASE n # m
      <4>1. n \in 0..(m - 1)
        BY <3>2
      <4>2. h[n] = g[n] /\ g[n] = IF n = 0 THEN 1 ELSE 2 * g[n - 1]
        BY <2>2, <3>2, <4>1
      <4>3. n # 0 => n - 1 \in 0..m /\ n - 1 # m
        BY <4>1
      <4>4. n # 0 => h[n - 1] = g[n - 1]
        BY <4>3
      <4>5. QED
        BY ONLY <4>2, <4>4
    <3>3. QED
      BY <3>1, <3>2
  <2>4. h = [n \in 0..m |-> h[n]]
    OBVIOUS
  <2> HIDE DEF h
  <2>5. h = [n \in 0..m |-> IF n = 0 THEN 1 ELSE 2 * h[n - 1]]
    BY ONLY <2>3, <2>4
  <2>6. PowerTo((m + 1) - 1, h)
    <3>1. (m + 1) - 1 = m
      OBVIOUS
    <3>2. QED
      BY <2>5, <3>1 DEF PowerTo
  <2>7. QED
    BY <2>6
<1>4. MaxSize + 1 \in Good
  <2>1. \A k \in 1..((MaxSize + 1) - 1) : k \in Good => k + 1 \in Good
    BY <1>3
  <2>2. MaxSize + 1 \in Nat /\ MaxSize + 1 \in 1..(MaxSize + 1)
    BY <1>1
  <2> HIDE DEF Good
  <2>3. QED
    BY ONLY <1>2, <2>1, <2>2, UpTo
<1>5. \E g : PowerTo(MaxSize, g)
  <2>1. (MaxSize + 1) - 1 = MaxSize
    BY <1>1
  <2>2. QED
    BY <1>4, <2>1
<1>6. PowerTo(MaxSize, Power)
  <2>1. Power = CHOOSE g : PowerTo(MaxSize, g)
    BY DEF Power, PowerTo
  <2>2. QED
    BY <1>5, <2>1
<1>7. Power = [n \in 0..MaxSize |-> IF n = 0 THEN 1 ELSE 2 * Power[n - 1]]
  BY <1>6 DEF PowerTo
<1>8. Power[0] = 1 /\ \A n \in 1..MaxSize : Power[n] = 2 * Power[n - 1]
  <2>1. 0 \in 0..MaxSize /\ \A n \in 1..MaxSize : n \in 0..MaxSize /\ n # 0
    BY <1>1
  <2>2. QED
    BY <1>7, <2>1
<1> DEFINE Big == {n \in Nat : Power[n - 1] \in Nat /\ Power[n - 1] > n - 1}
<1>9. 1..(MaxSize + 1) \subseteq Big
  <2>1. 1 \in Big
    BY <1>8
  <2>2. ASSUME NEW k \in 1..((MaxSize + 1) - 1), k \in Big PROVE k + 1 \in Big
    <3>1. k \in 1..MaxSize /\ (k + 1) - 1 = k /\ k + 1 \in Nat
      BY <1>1
    <3>2. Power[k] = 2 * Power[k - 1] /\ Power[k - 1] \in Nat /\ Power[k - 1] > k - 1
      BY <1>8, <2>2, <3>1
    <3>3. Power[k] \in Nat /\ Power[k] > k
      BY ONLY <3>1, <3>2
    <3>4. QED
      BY <3>1, <3>3
  <2>3. MaxSize + 1 \in Nat
    BY <1>1
  <2> HIDE DEF Big
  <2>4. QED
    BY ONLY <2>1, <2>2, <2>3, UpTo
<1>10. ASSUME NEW n \in 0..MaxSize PROVE Power[n] \in Nat /\ Power[n] > n
  <2>1. n + 1 \in 1..(MaxSize + 1) /\ (n + 1) - 1 = n
    BY <1>1
  <2>2. QED
    BY <1>9, <2>1
<1>11. QED
  BY <1>1, <1>8, <1>10

\* When m powers of 2 are not above MaxSize and the next one is, the sizes are those m.
LEMMA SizesAre ==
  ASSUME NEW m \in 0..MaxSize, Power[m] > MaxSize, \A k \in 0..(m - 1) : Power[k] <= MaxSize
  PROVE  Sizes = [k \in 1..m |-> Power[k - 1]] /\ Len(Sizes) = m
<1>1. MaxSize \in Nat /\ m \in Nat
  BY PowerIs
<1> DEFINE d == MaxSize - m + 1
           Above == {k \in Nat : Power[m + k - 1] > MaxSize}
<1>2. d \in Nat
  BY <1>1
<1>3. 1..d \subseteq Above
  <2>1. 1 \in Above
    <3>1. m + 1 - 1 = m
      BY <1>1
    <3>2. QED
      BY <3>1
  <2>2. ASSUME NEW k \in 1..(d - 1), k \in Above PROVE k + 1 \in Above
    <3>1. m + k \in 1..MaxSize /\ m + (k + 1) - 1 = m + k /\ (m + k) - 1 = m + k - 1 /\ m + k - 1 \in 0..MaxSize /\ k + 1 \in Nat
      BY <1>1
    <3>2. Power[m + k] = 2 * Power[m + k - 1]
      BY <3>1, PowerIs
    <3>3. Power[m + k - 1] \in Nat /\ Power[m + k - 1] > MaxSize
      BY <2>2, <3>1, PowerIs
    <3>4. Power[m + k] > MaxSize
      BY ONLY <1>1, <3>2, <3>3
    <3>5. QED
      BY <3>1, <3>4
  <2> HIDE DEF Above, d
  <2>3. QED
    BY ONLY <1>2, <2>1, <2>2, UpTo
<1> DEFINE N == {n \in 0..MaxSize : Power[n] <= MaxSize}
<1>4. N = 0..(m - 1)
  <2>1. ASSUME NEW n \in 0..MaxSize, n >= m PROVE ~(Power[n] <= MaxSize)
    <3>1. n - m + 1 \in 1..d /\ m + (n - m + 1) - 1 = n
      BY <1>1, <2>1
    <3>2. Power[n] > MaxSize
      BY <1>3, <3>1
    <3>3. QED
      BY <1>1, <3>2, PowerIs
  <2>2. \A n \in 0..(m - 1) : n \in 0..MaxSize
    BY <1>1
  <2>3. \A n \in 0..MaxSize : n \in 0..(m - 1) \/ n >= m
    BY <1>1
  <2>4. QED
    BY <2>1, <2>2, <2>3
<1> HIDE DEF N
<1>5. Cardinality(N) = m
  <2>1. Cardinality(0..(m - 1)) = IF 0 > m - 1 THEN 0 ELSE m - 1 - 0 + 1
    <3>1. 0 \in Int /\ m - 1 \in Int
      BY <1>1
    <3>2. QED
      BY ONLY <3>1, FS_Interval
  <2>2. QED
    BY ONLY <1>1, <1>4, <2>1
<1>6. Sizes = [k \in 1..m |-> Power[k - 1]]
  BY <1>5 DEF Sizes, N
<1>7. Len(Sizes) = m
  <2>1. Sizes \in [1..m -> Nat]
    <3>1. \A k \in 1..m : k - 1 \in 0..MaxSize
      BY <1>1
    <3>2. QED
      BY <1>6, <3>1, PowerIs
  <2>2. QED
    BY ONLY <1>1, <2>1, IsASeq, LenProperties
<1>8. QED
  BY <1>6, <1>7

MoreText(n, f, g) ==
  (\A k \in 1..n : g[k] = f[k]) => /\ Text(f) \in Seq(Char) /\ Text(g) = Text(f) \o Line(g[n + 1])

\* The text of n + 1 measures, when the first n are given.
LEMMA TextNext == \A n \in Nat : \A f \in [1..n -> Pair] : \A g \in [1..(n + 1) -> Pair] : MoreText(n, f, g)
<1> SUFFICES ASSUME NEW n \in Nat, NEW f \in [1..n -> Pair], NEW g \in [1..(n + 1) -> Pair], \A k \in 1..n : g[k] = f[k]
             PROVE  Text(f) \in Seq(Char) /\ Text(g) = Text(f) \o Line(g[n + 1])
  BY DEF MoreText
<1>1. f \in Seq(Pair) /\ Len(f) = n
  BY ONLY n \in Nat, f \in [1..n -> Pair], IsASeq, LenProperties
<1>2. n + 1 \in 1..(n + 1) /\ g[n + 1] \in Pair
  OBVIOUS
<1> DEFINE u == Append(f, g[n + 1])
<1>3. u \in Seq(Pair) /\ Len(u) = n + 1 /\ (\A k \in 1..n : u[k] = f[k]) /\ u[n + 1] = g[n + 1]
  BY <1>1, <1>2, AppendProperties
<1>4. DOMAIN u = 1..(n + 1)
  BY <1>3, LenProperties
<1>5. \A k \in 1..(n + 1) : k \in 1..n \/ k = n + 1
  OBVIOUS
<1> HIDE DEF u
<1>6. u = g
  <2>1. \A k \in 1..(n + 1) : u[k] = g[k]
    BY <1>3, <1>5
  <2>2. u = [k \in 1..(n + 1) |-> u[k]]
    BY <1>3, <1>4
  <2>3. g = [k \in 1..(n + 1) |-> g[k]]
    OBVIOUS
  <2>4. QED
    BY ONLY <2>1, <2>2, <2>3
<1>7. TextOne(f, g[n + 1])
  BY <1>1, <1>2, TextMore
<1>8. QED
  BY <1>6, <1>7 DEF TextOne, u

\* The lines of a size, one after the other.
LinesAre(s, n) ==
  /\ Lines(s, n) \in Seq(Char) /\ Lines(s, 0) = <<>>
  /\ Lines(s, n + 1) = Lines(s, n) \o Line(<<s, n + 1>>) /\ Line(<<s, n + 1>>) \in Seq(Char)

\* They are what the daemon writes.
LEMMA LinesMore == \A s, n \in Nat : LinesAre(s, n)
<1> SUFFICES ASSUME NEW s \in Nat, NEW n \in Nat PROVE LinesAre(s, n)
  OBVIOUS
<1> DEFINE f == [k \in 1..n |-> <<s, k>>]
           g == [k \in 1..(n + 1) |-> <<s, k>>]
<1>1. f \in [1..n -> Pair] /\ g \in [1..(n + 1) -> Pair] /\ (\A k \in 1..n : g[k] = f[k]) /\ g[n + 1] = <<s, n + 1>>
  BY DEF Pair
<1>2. Lines(s, n) = Text(f) /\ Lines(s, n + 1) = Text(g)
  BY DEF Lines
<1> HIDE DEF f, g
<1>3. MoreText(n, f, g)
  BY ONLY <1>1, n \in Nat, TextNext
<1>4. Text(f) \in Seq(Char) /\ Text(g) = Text(f) \o Line(g[n + 1])
  BY ONLY <1>1, <1>3 DEF MoreText
<1>5. Lines(s, 0) = <<>>
  <2>1. [k \in 1..0 |-> <<s, k>>] = <<>>
    OBVIOUS
  <2>2. QED
    BY <2>1, TextMore DEF Lines
<1>6. Line(<<s, n + 1>>) \in Seq(Char)
  <2>1. <<s, n + 1>> \in Pair
    BY DEF Pair
  <2>2. QED
    BY <2>1, LineFacts
<1>7. QED
  BY <1>1, <1>2, <1>4, <1>5, <1>6 DEF LinesAre

\* The files of one size more.
LEMMA SizesMore ==
  /\ OfSizes(0) = <<>> /\ SynthOf(0) = Header
  /\ \A m \in 0..MaxSize : OfSizes(m) \in Seq(Char) /\ SynthOf(m) \in Seq(Char)
  /\ \A m \in 0..(MaxSize - 1) :
       /\ OfSizes(m + 1) = OfSizes(m) \o (Header \o Lines(Power[m], BUFF_MEASURE))
       /\ SynthOf(m + 1) = SynthOf(m) \o Line(<<Power[m], 0>>)
<1>b. BUFF_MEASURE \in Nat /\ MaxSize \in Nat
  BY RecorderAssumption
<1>h. Header \in Seq(Char)
  BY LineFacts
<1>1. OfSizes(0) = <<>>
  <2> DEFINE f == [k \in 1..0 |-> OfSize(Power[k - 1])]
  <2>1. f = [k \in 1..0 |-> f[k]] /\ OfSizes(0) = FlattenSeq(f)
    BY DEF OfSizes
  <2> HIDE DEF f
  <2>2. QED
    BY ONLY <2>1, FlattenNone
<1>2. SynthOf(0) = Header
  <2>1. [k \in 1..0 |-> <<Power[k - 1], 0>>] = <<>>
    OBVIOUS
  <2>2. SynthOf(0) = Header \o Text([k \in 1..0 |-> <<Power[k - 1], 0>>])
    BY DEF SynthOf
  <2>3. SynthOf(0) = Header \o <<>>
    BY ONLY <2>1, <2>2, TextMore
  <2>4. QED
    BY ONLY <1>h, <2>3, ConcatEmptySeq
<1>3. ASSUME NEW m \in 0..MaxSize PROVE Power[m] \in Nat /\ OfSize(Power[m]) = Header \o Lines(Power[m], BUFF_MEASURE) /\ OfSize(Power[m]) \in Seq(Char)
  <2>1. Power[m] \in Nat
    BY PowerIs
  <2>2. Lines(Power[m], BUFF_MEASURE) \in Seq(Char)
    <3>1. LinesAre(Power[m], BUFF_MEASURE)
      BY <1>b, <2>1, LinesMore
    <3>2. QED
      BY <3>1 DEF LinesAre
  <2>3. OfSize(Power[m]) = Header \o Lines(Power[m], BUFF_MEASURE)
    BY DEF OfSize, Lines
  <2>4. QED
    BY <1>h, <2>1, <2>2, <2>3, ConcatProperties
<1>4. ASSUME NEW m \in Nat, m <= MaxSize + 1 PROVE [k \in 1..m |-> OfSize(Power[k - 1])] \in [1..m -> Seq(Char)]
                                              /\ [k \in 1..m |-> <<Power[k - 1], 0>>] \in [1..m -> Pair]
  <2>1. \A k \in 1..m : k - 1 \in 0..MaxSize
    BY <1>4, <1>b
  <2>2. QED
    BY <1>3, <2>1 DEF Pair
<1>5. ASSUME NEW m \in 0..MaxSize
      PROVE  /\ OfSizes(m) \in Seq(Char) /\ SynthOf(m) \in Seq(Char)
             /\ OfSizes(m + 1) = OfSizes(m) \o OfSize(Power[m])
             /\ SynthOf(m + 1) = SynthOf(m) \o Line(<<Power[m], 0>>)
  <2> DEFINE ss == [k \in 1..m |-> OfSize(Power[k - 1])]
             t  == [k \in 1..(m + 1) |-> OfSize(Power[k - 1])]
             f  == [k \in 1..m |-> <<Power[k - 1], 0>>]
             g  == [k \in 1..(m + 1) |-> <<Power[k - 1], 0>>]
  <2>0. m \in Nat /\ m <= MaxSize + 1 /\ m + 1 \in Nat /\ m + 1 <= MaxSize + 1
    BY <1>b
  <2>1. ss \in [1..m -> Seq(Char)] /\ f \in [1..m -> Pair] /\ t \in [1..(m + 1) -> Seq(Char)] /\ g \in [1..(m + 1) -> Pair]
    BY <1>4, <2>0
  <2>2. OfSizes(m) = FlattenSeq(ss) /\ OfSizes(m + 1) = FlattenSeq(t) /\ SynthOf(m) = Header \o Text(f) /\ SynthOf(m + 1) = Header \o Text(g)
    BY DEF OfSizes, SynthOf
  <2>3. /\ \A k \in 1..m : k \in 1..(m + 1)
        /\ m + 1 \in 1..(m + 1) /\ (m + 1) - 1 = m
    BY <2>0
  <2>4. /\ \A k \in 1..m : t[k] = ss[k] /\ g[k] = f[k]
        /\ t[m + 1] = OfSize(Power[m]) /\ g[m + 1] = <<Power[m], 0>>
    BY <2>3
  <2> HIDE DEF ss, t, f, g
  <2>5. OneMore(Char, m, ss, t) /\ MoreText(m, f, g)
    BY ONLY <2>0, <2>1, FlattenMore, TextNext
  <2>6. FlattenSeq(ss) \in Seq(Char) /\ FlattenSeq(t) = FlattenSeq(ss) \o t[m + 1]
    BY ONLY <2>4, <2>5 DEF OneMore
  <2>7. Text(f) \in Seq(Char) /\ Text(g) = Text(f) \o Line(g[m + 1])
    BY ONLY <2>4, <2>5 DEF MoreText
  <2>8. Line(<<Power[m], 0>>) \in Seq(Char)
    <3>1. <<Power[m], 0>> \in Pair
      BY <1>3 DEF Pair
    <3>2. QED
      BY <3>1, LineFacts
  <2>9. Header \o (Text(f) \o Line(<<Power[m], 0>>)) = (Header \o Text(f)) \o Line(<<Power[m], 0>>) /\ Header \o Text(f) \in Seq(Char)
    <3>1. AssocAt(Header, Text(f), Line(<<Power[m], 0>>))
      BY ONLY <1>h, <2>7, <2>8, Assoc
    <3>2. Header \o Text(f) \in Seq(Char)
      BY ONLY <1>h, <2>7, ConcatProperties
    <3>3. QED
      BY ONLY <3>1, <3>2 DEF AssocAt
  <2>10. QED
    BY ONLY <2>2, <2>4, <2>6, <2>7, <2>9
<1>6. ASSUME NEW m \in 0..(MaxSize - 1) PROVE /\ OfSizes(m + 1) = OfSizes(m) \o (Header \o Lines(Power[m], BUFF_MEASURE))
                                              /\ SynthOf(m + 1) = SynthOf(m) \o Line(<<Power[m], 0>>)
  <2>1. m \in 0..MaxSize
    BY <1>b
  <2>2. QED
    BY <1>3, <1>5, <2>1
<1>7. QED
  BY <1>1, <1>2, <1>5, <1>6

WholeLine(f, line, n) == ~(n < Len(line)) => n = Len(line) /\ Written(f, line, n) = f \o line

\* A write that is not cut short adds the line.
LEMMA WrittenIs == \A f, line \in Seq(Char) : \A n \in Cuts(line) : WholeLine(f, line, n)
<1> SUFFICES ASSUME NEW f \in Seq(Char), NEW line \in Seq(Char), NEW n \in Cuts(line), ~(n < Len(line))
             PROVE  n = Len(line) /\ Written(f, line, n) = f \o line
  BY DEF WholeLine
<1>1. Len(line) \in Nat
  BY LenProperties
<1>2. n = Len(line)
  BY <1>1 DEF Cuts
<1>3. Written(f, line, n) = (f \o SubSeq(line, 1, Len(line))) \o <<>>
  BY <1>2 DEF Written
<1>4. SubSeq(line, 1, Len(line)) = line
  BY SubSeqFull
<1>5. f \o line \in Seq(Char)
  BY ConcatProperties
<1>6. (f \o line) \o <<>> = f \o line
  BY ONLY <1>5, ConcatEmptySeq
<1>7. QED
  BY <1>2, <1>3, <1>4, <1>6

MsgFrame == prog = "msg" /\ prog' = "msg" /\ UNCHANGED <<sparse, size_max>> /\ 0 \in DOMAIN region'

\* A step of the Msg daemon that fails ends it.
LEMMA MsgFails ==
  ASSUME SizeInv, MsgFrame, dpc' = "returned", ~(ret' = 0 /\ fault' = "none")
  PROVE  SizeInv'
BY DEF SizeInv, MsgFrame, MsgPlaces

\* The first row of the measures of a size.
LEMMA RowStep == SizeInv /\ MsgFrame /\ write_first_row /\ dpc' = "msg measure" => SizeInv'
<1> SUFFICES ASSUME SizeInv, MsgFrame, write_first_row, dpc' = "msg measure" PROVE SizeInv'
  OBVIOUS
<1>1. dpc = "msg row" /\ i <= MaxSize /\ UNCHANGED <<i, synth>>
  BY DEF write_first_row, At, Go, Loop, Leave
<1>2. PICK n \in Cuts(Header) : out' = Written(out, Header, n) /\ fault' = IF n < Len(Header) THEN "short write" ELSE fault
  BY DEF write_first_row, Go, Leave
<1>3. ASSUME fault' = "none" PROVE \E m \in 0..MaxSize : AtMeasure(m)'
  <2>1. fault = "none" /\ ~(n < Len(Header))
    BY <1>2, <1>3
  <2>2. PICK m \in 0..MaxSize : AtRow(m)
    BY <1>1, <2>1 DEF SizeInv, MsgFrame
  <2>3. out = OfSizes(m) /\ Before(m)
    BY <2>2 DEF AtRow
  <2>4. out \in Seq(Char) /\ Header \in Seq(Char)
    BY <2>3, SizesMore, LineFacts
  <2>5. WholeLine(out, Header, n)
    BY <2>4, WrittenIs
  <2>6. out' = OfSizes(m) \o Header
    BY <1>2, <2>1, <2>3, <2>5 DEF WholeLine
  <2>7. Before(m)'
    BY <1>1, <2>3 DEF Before
  <2>8. AtMeasure(m)'
    BY <1>1, <2>6, <2>7 DEF AtMeasure
  <2>9. QED
    BY <2>8
<1>4. QED
  BY <1>1, <1>3 DEF SizeInv, MsgFrame, MsgPlaces

\* The measures of a size come into the region.
LEMMA MeasureStep == SizeInv /\ MsgFrame /\ msg_measure /\ dpc' = "msg lines" => SizeInv'
<1> SUFFICES ASSUME SizeInv, MsgFrame, msg_measure, dpc' = "msg lines" PROVE SizeInv'
  OBVIOUS
<1>1. /\ dpc = "msg measure" /\ cpu' = 0 /\ region' = [region EXCEPT ![0] = [n \in 1..BUFF_MEASURE |-> <<i, n>>]]
      /\ UNCHANGED <<i, synth, out, fault>>
  BY DEF msg_measure, At, Go, Leave, Files, files
<1>2. region'[0] = [n \in 1..BUFF_MEASURE |-> <<i, n>>]
  BY <1>1 DEF SizeInv, MsgFrame
<1>3. ASSUME fault' = "none" PROVE \E m \in 0..MaxSize : AtLines(m)'
  <2>1. PICK m \in 0..MaxSize : AtMeasure(m)
    BY <1>1, <1>3 DEF SizeInv, MsgFrame
  <2>2. Before(m) /\ i <= MaxSize /\ out = OfSizes(m) \o Header /\ i \in Nat
    BY <2>1, PowerIs DEF AtMeasure, Before
  <2>3. Header \o Lines(i, 0) = Header
    <3>1. LinesAre(i, 0)
      BY <2>2, LinesMore
    <3>2. Lines(i, 0) = <<>> /\ Header \in Seq(Char)
      BY <3>1, LineFacts DEF LinesAre
    <3>3. QED
      BY ONLY <3>2, ConcatEmptySeq
  <2>4. out' = OfSizes(m) \o (Header \o Lines(i', cpu'))
    BY <1>1, <2>2, <2>3
  <2>5. Before(m)'
    BY <1>1, <2>2 DEF Before
  <2>6. cpu' \in 0..BUFF_MEASURE
    <3>1. BUFF_MEASURE \in Nat
      BY RecorderAssumption
    <3>2. cpu' = 0
      BY <1>1
    <3>3. QED
      BY ONLY <3>1, <3>2
  <2>7. region'[0] = [n \in 1..BUFF_MEASURE |-> <<i', n>>] /\ i' <= MaxSize
    BY <1>1, <1>2, <2>2
  <2>8. AtLines(m)'
    BY <2>4, <2>5, <2>6, <2>7 DEF AtLines
  <2>9. QED
    BY <2>8
<1>4. QED
  BY <1>3 DEF SizeInv, MsgFrame, MsgPlaces

\* The line of one measure.
LEMMA LineStep == SizeInv /\ MsgFrame /\ msg_save_line /\ dpc' = dpc => SizeInv'
<1> SUFFICES ASSUME SizeInv, MsgFrame, msg_save_line, dpc' = dpc PROVE SizeInv'
  OBVIOUS
<1> DEFINE line == Line(region[0][cpu + 1])
<1>1. dpc = "msg lines" /\ cpu < Len(region[0]) /\ cpu' = cpu + 1 /\ UNCHANGED <<i, synth, region>>
  BY DEF msg_save_line, At, Go, Leave
<1>2. PICK n \in Cuts(line) : out' = Written(out, line, n) /\ fault' = IF n < Len(line) THEN "short write" ELSE fault
  BY DEF msg_save_line, At, Go, Leave
<1>3. ASSUME fault' = "none" PROVE \E m \in 0..MaxSize : AtLines(m)'
  <2> HIDE DEF line
  <2>1. fault = "none" /\ ~(n < Len(line))
    BY <1>2, <1>3
  <2>2. PICK m \in 0..MaxSize : AtLines(m)
    BY <1>1, <2>1 DEF SizeInv, MsgFrame
  <2>3. /\ Before(m) /\ i <= MaxSize /\ cpu \in 0..BUFF_MEASURE /\ out = OfSizes(m) \o (Header \o Lines(i, cpu))
        /\ region[0] = [k \in 1..BUFF_MEASURE |-> <<i, k>>]
    BY <2>2 DEF AtLines
  <2>4. i \in Nat /\ BUFF_MEASURE \in Nat
    BY <2>3, PowerIs, RecorderAssumption DEF Before
  <2>5. Len(region[0]) = BUFF_MEASURE
    <3>1. region[0] \in [1..BUFF_MEASURE -> Pair]
      BY ONLY <2>3, <2>4 DEF Pair
    <3>2. QED
      BY ONLY <2>4, <3>1, IsASeq, LenProperties
  <2>6. cpu \in Nat /\ cpu + 1 \in 1..BUFF_MEASURE /\ cpu + 1 \in 0..BUFF_MEASURE
    <3>1. cpu \in 0..BUFF_MEASURE /\ cpu < BUFF_MEASURE
      BY <1>1, <2>3, <2>5
    <3>2. QED
      BY ONLY <2>4, <3>1
  <2>7. line = Line(<<i, cpu + 1>>)
    BY <2>3, <2>6 DEF line
  <2>8. LinesAre(i, cpu)
    BY <2>4, <2>6, LinesMore
  <2>9. Lines(i, cpu) \in Seq(Char) /\ line \in Seq(Char) /\ Lines(i, cpu + 1) = Lines(i, cpu) \o line
    BY <2>7, <2>8 DEF LinesAre
  <2>10. Header \in Seq(Char) /\ OfSizes(m) \in Seq(Char)
    BY SizesMore, LineFacts
  <2>11. Header \o Lines(i, cpu) \in Seq(Char) /\ out \in Seq(Char)
    BY ONLY <2>3, <2>9, <2>10, ConcatProperties
  <2>12. out' = out \o line
    <3>1. WholeLine(out, line, n)
      BY <2>9, <2>11, WrittenIs
    <3>2. QED
      BY <1>2, <2>1, <3>1 DEF WholeLine
  <2>13. out \o line = OfSizes(m) \o (Header \o Lines(i, cpu + 1))
    <3> DEFINE hl == Header \o Lines(i, cpu)
               os == OfSizes(m)
    <3>0. hl \in Seq(Char) /\ os \in Seq(Char) /\ line \in Seq(Char)
      BY <2>9, <2>10, <2>11
    <3> HIDE DEF hl, os
    <3>1. AssocAt(os, hl, line)
      BY ONLY <3>0, Assoc
    <3>2. AssocAt(Header, Lines(i, cpu), line)
      BY ONLY <2>9, <2>10, Assoc
    <3>3. QED
      BY ONLY <2>3, <2>9, <3>1, <3>2 DEF hl, os, AssocAt
  <2>14. out' = OfSizes(m) \o (Header \o Lines(i', cpu')) /\ cpu' \in 0..BUFF_MEASURE /\ i' <= MaxSize
    BY <1>1, <2>3, <2>6, <2>12, <2>13
  <2>15. Before(m)' /\ region'[0] = [k \in 1..BUFF_MEASURE |-> <<i', k>>]
    BY <1>1, <2>3 DEF Before
  <2>16. AtLines(m)'
    BY <2>14, <2>15 DEF AtLines
  <2>17. QED
    BY <2>16
<1>4. QED
  BY <1>1, <1>3 DEF SizeInv, MsgFrame, MsgPlaces

\* The line of the synthesis, and the next size.
LEMMA SynthStep == SizeInv /\ MsgFrame /\ data_synthesis /\ dpc' = "msg row" => SizeInv'
<1> SUFFICES ASSUME SizeInv, MsgFrame, data_synthesis, dpc' = "msg row" PROVE SizeInv'
  OBVIOUS
<1>1. /\ dpc = "msg lines" /\ cpu = Len(region[0]) /\ i' = 2 * i /\ synth' = synth \o Line(<<i, 0>>)
      /\ UNCHANGED <<out, fault>>
  BY DEF data_synthesis, At, Go, Leave, History
<1>2. ASSUME fault' = "none" PROVE \E m \in 0..MaxSize : AtRow(m)'
  <2>1. PICK m \in 0..MaxSize : AtLines(m)
    BY <1>1, <1>2 DEF SizeInv, MsgFrame
  <2>2. /\ Before(m) /\ i <= MaxSize /\ out = OfSizes(m) \o (Header \o Lines(i, cpu))
        /\ region[0] = [k \in 1..BUFF_MEASURE |-> <<i, k>>]
    BY <2>1 DEF AtLines
  <2>3. i = Power[m] /\ synth = SynthOf(m) /\ \A k \in 0..(m - 1) : Power[k] <= MaxSize
    BY <2>2 DEF Before
  <2>4. i \in Nat /\ BUFF_MEASURE \in Nat /\ MaxSize \in Nat /\ i > m
    BY <2>3, PowerIs, RecorderAssumption
  <2>5. Len(region[0]) = BUFF_MEASURE
    <3>1. region[0] \in [1..BUFF_MEASURE -> Pair]
      BY ONLY <2>2, <2>4 DEF Pair
    <3>2. QED
      BY ONLY <2>4, <3>1, IsASeq, LenProperties
  <2>6. m \in 0..(MaxSize - 1) /\ m + 1 \in 1..MaxSize /\ m + 1 \in 0..MaxSize /\ (m + 1) - 1 = m
    BY ONLY <2>2, <2>4, m \in 0..MaxSize
  <2>7. out' = OfSizes(m + 1) /\ synth' = SynthOf(m + 1)
    BY <1>1, <2>2, <2>3, <2>5, <2>6, SizesMore
  <2>8. i' = Power[m + 1]
    <3>1. Power[m + 1] = 2 * Power[(m + 1) - 1]
      BY <2>6, PowerIs
    <3>2. QED
      BY <1>1, <2>3, <2>6, <3>1
  <2>9. \A k \in 0..((m + 1) - 1) : Power[k] <= MaxSize
    <3>1. \A k \in 0..((m + 1) - 1) : k \in 0..(m - 1) \/ k = m
      BY ONLY <2>4, m \in 0..MaxSize
    <3>2. QED
      BY ONLY <2>2, <2>3, <3>1
  <2>10. Before(m + 1)'
    BY <2>6, <2>7, <2>8, <2>9 DEF Before
  <2>11. AtRow(m + 1)'
    BY <2>7, <2>10 DEF AtRow
  <2>12. QED
    BY <2>6, <2>11
<1>3. QED
  BY <1>2 DEF SizeInv, MsgFrame, MsgPlaces

\* SizeInv is inductive.
LEMMA SizeStep == SizeInv /\ [Next]_vars => SizeInv'
<1> SUFFICES ASSUME SizeInv, [Next]_vars, prog' = "msg" PROVE SizeInv'
  BY DEF SizeInv
<1>1. prog' = prog /\ prog = "msg"
  BY SameProg
<1>2. dpc \in {"start", "returned"} \union MsgPlaces /\ 0 \in DOMAIN region
  BY <1>1 DEF SizeInv
<1>3. CASE MsgSteps
  <2>0. -1 # 0
    OBVIOUS
  <2>1. CASE msg_open_files
    <3>1. MsgFrame
      BY <1>1, <1>2, <2>1 DEF MsgFrame, msg_open_files, Leave, Loop, Files, files
    <3>2. CASE dpc' = "returned"
      BY <2>0, <2>1, <3>1, <3>2, MsgFails DEF msg_open_files, Leave, Go
    <3>3. CASE dpc' = "msg region"
      BY <2>1, <3>1, <3>3 DEF SizeInv, MsgFrame, MsgPlaces, msg_open_files, At, Leave, Files, files
    <3>4. QED
      BY <2>1, <3>2, <3>3 DEF msg_open_files, Leave, Go
  <2>2. CASE msg_init_region
    <3>1. MsgFrame
      BY <1>1, <1>2, <2>2 DEF MsgFrame, msg_init_region, Leave, Loop, Files, files
    <3>2. CASE dpc' = "returned"
      BY <2>0, <2>2, <3>1, <3>2, MsgFails DEF msg_init_region, Leave, Go
    <3>3. CASE dpc' = "msg open"
      BY <2>2, <3>1, <3>3 DEF SizeInv, MsgFrame, MsgPlaces, msg_init_region, At, Leave, Files, files
    <3>4. QED
      BY <2>2, <3>2, <3>3 DEF msg_init_region, Leave, Go
  <2>3. CASE msg_open_device
    <3>1. MsgFrame
      BY <1>1, <1>2, <2>3 DEF MsgFrame, msg_open_device, Leave, Loop, Files, files
    <3>2. CASE dpc' = "returned"
      BY <2>0, <2>3, <3>1, <3>2, MsgFails DEF msg_open_device, Leave, Go
    <3>3. CASE dpc' = "msg row"
      <4>1. dpc = "msg open" /\ synth' = Header /\ i' = 1 /\ out' = out
        BY <2>3, <3>3 DEF msg_open_device, At, Go, Leave
      <4>2. out = <<>>
        BY <1>1, <4>1 DEF SizeInv
      <4>3. 0 \in 0..MaxSize /\ \A k \in 0..(0 - 1) : Power[k] <= MaxSize
        BY PowerIs
      <4>4. AtRow(0)'
        BY <4>1, <4>2, <4>3, PowerIs, SizesMore DEF AtRow, Before
      <4>5. QED
        BY <3>1, <3>3, <4>3, <4>4 DEF SizeInv, MsgFrame, MsgPlaces
    <3>4. QED
      BY <2>3, <3>2, <3>3 DEF msg_open_device, Leave, Go
  <2>4. CASE write_first_row
    <3>1. MsgFrame
      BY <1>1, <1>2, <2>4 DEF MsgFrame, write_first_row, Leave, Loop, Files, files
    <3>2. CASE dpc' = "returned"
      BY <2>0, <2>4, <3>1, <3>2, MsgFails DEF write_first_row, Leave, Go
    <3>3. CASE dpc' = "msg measure"
      BY <2>4, <3>1, <3>3, RowStep
    <3>4. QED
      BY <2>4, <3>2, <3>3 DEF write_first_row, Leave, Go
  <2>5. CASE msg_measure
    <3>1. MsgFrame
      BY <1>1, <1>2, <2>5 DEF MsgFrame, msg_measure, Leave, Loop, Files, files
    <3>2. CASE dpc' = "returned"
      BY <2>0, <2>5, <3>1, <3>2, MsgFails DEF msg_measure, Leave, Go
    <3>3. CASE dpc' = "msg lines"
      BY <2>5, <3>1, <3>3, MeasureStep
    <3>4. QED
      BY <2>5, <3>2, <3>3 DEF msg_measure, Leave, Go
  <2>6. CASE msg_save_line
    <3>1. MsgFrame
      BY <1>1, <1>2, <2>6 DEF MsgFrame, msg_save_line, Leave, Loop, Files, files
    <3>2. CASE dpc' = "returned"
      BY <2>0, <2>6, <3>1, <3>2, MsgFails DEF msg_save_line, At, Leave, Go
    <3>3. CASE dpc' = dpc
      BY <2>6, <3>1, <3>3, LineStep
    <3>4. QED
      BY <2>6, <3>2, <3>3 DEF msg_save_line, Leave, Go
  <2>7. CASE data_synthesis
    <3>1. MsgFrame
      BY <1>1, <1>2, <2>7 DEF MsgFrame, data_synthesis, Leave, Loop, Files, files
    <3>2. CASE dpc' = "returned"
      BY <2>0, <2>7, <3>1, <3>2, MsgFails DEF data_synthesis, Leave, Go
    <3>3. CASE dpc' = "msg row"
      BY <2>7, <3>1, <3>3, SynthStep
    <3>4. QED
      BY <2>7, <3>2, <3>3 DEF data_synthesis, Leave, Go
  <2>8. CASE msg_record_done
    <3>1. MsgFrame /\ dpc = "msg row" /\ i > MaxSize /\ dpc' = "returned" /\ UNCHANGED <<i, synth, out, fault>>
      BY <1>1, <1>2, <2>8 DEF MsgFrame, msg_record_done, At, Go, Leave, Loop, Files, files
    <3>2. ASSUME fault' = "none" PROVE \E m \in 0..MaxSize : AtRow(m)'
      <4>1. PICK m \in 0..MaxSize : AtRow(m)
        BY <1>1, <3>1, <3>2 DEF SizeInv
      <4>2. AtRow(m)'
        BY <3>1, <4>1 DEF AtRow, Before
      <4>3. QED
        BY <4>2
    <3>3. QED
      BY <3>1, <3>2 DEF SizeInv, MsgFrame, MsgPlaces
  <2>9. QED
    BY <1>3, <2>1, <2>2, <2>3, <2>4, <2>5, <2>6, <2>7, <2>8 DEF MsgSteps
<1>4. CASE OpenSteps \/ ReadSteps \/ CopySteps
  <2>1. FALSE
    BY <1>1, <1>2, <1>4 DEF MsgPlaces, OpenSteps, ReadSteps, CopySteps, trace_driver_read, At,
      daemon_create_sparse_file, sparse_first_row, init_region, open_device,
      read_failed, clean_kernel_buffer, next_read, save_measure, mmap_failed, lseek_device,
      create_regular_file, lseek_sparse_failed, copy_normal_file, copy_failed, copy_no_memory, record_done
  <2>2. QED
    BY <2>1
<1>5. ASSUME NEW c \in Cpus, event(c) PROVE SizeInv'
  BY <1>1, <1>5 DEF event
<1>6. CASE UNCHANGED vars
  BY <1>6 DEF vars, files, SizeInv, AtRow, AtMeasure, AtLines, Before
<1>7. QED
  BY <1>3, <1>4, <1>5, <1>6, Steps

\* Before it starts the Msg daemon has written nothing.
LEMMA SizeInit == Init => SizeInv
<1> SUFFICES ASSUME Init, prog = "msg" PROVE SizeInv
  BY DEF SizeInv
<1>1. 0 \in Cpus
  BY CpuType
<1>2. QED
  BY <1>1 DEF Init, SizeInv, MsgPlaces

\* A daemon that returns 0, and met no fault, has written every measure it was handed, once, whole
\* and in order, whatever the sizes of page, line and region and however the kernel goes on measuring.
THEOREM Complete == Spec => []RecordComplete
<1>1. FileInv /\ SizeInv /\ prog \in {"trace", "msg"} => RecordComplete
  <2> SUFFICES ASSUME FileInv, SizeInv, prog \in {"trace", "msg"}, dpc = "returned", ret = 0, fault = "none"
               PROVE  IF prog = "trace" THEN out = Header \o Text(taken)
                      ELSE /\ out = FlattenSeq([k \in 1..Len(Sizes) |-> OfSize(Sizes[k])])
                           /\ synth = Header \o Text([k \in 1..Len(Sizes) |-> <<Sizes[k], 0>>])
    BY DEF RecordComplete
  <2>1. CASE prog = "trace"
    BY <2>1 DEF FileInv
  <2>2. CASE prog = "msg"
    <3>1. i > MaxSize /\ \E m \in 0..MaxSize : AtRow(m)
      BY <2>2 DEF SizeInv
    <3>2. PICK m \in 0..MaxSize : AtRow(m)
      BY <3>1
    <3>3. i = Power[m] /\ synth = SynthOf(m) /\ out = OfSizes(m) /\ \A k \in 0..(m - 1) : Power[k] <= MaxSize
      BY <3>2 DEF AtRow, Before
    <3>4. Power[m] > MaxSize
      BY <3>1, <3>3
    <3>5. Sizes = [k \in 1..m |-> Power[k - 1]] /\ Len(Sizes) = m
      BY <3>3, <3>4, SizesAre
    <3>6. \A k \in 1..m : Sizes[k] = Power[k - 1]
      BY ONLY <3>5
    <3>7. [k \in 1..Len(Sizes) |-> OfSize(Sizes[k])] = [k \in 1..m |-> OfSize(Power[k - 1])]
      BY ONLY <3>5, <3>6
    <3>8. [k \in 1..Len(Sizes) |-> <<Sizes[k], 0>>] = [k \in 1..m |-> <<Power[k - 1], 0>>]
      BY ONLY <3>5, <3>6
    <3>9. out = FlattenSeq([k \in 1..m |-> OfSize(Power[k - 1])]) /\ synth = Header \o Text([k \in 1..m |-> <<Power[k - 1], 0>>])
      BY ONLY <3>3 DEF OfSizes, SynthOf
    <3>10. prog # "trace"
      BY <2>2
    <3>11. QED
      BY ONLY <3>7, <3>8, <3>9, <3>10
  <2>3. QED
    BY <2>1, <2>2
<1>2. Init => prog \in {"trace", "msg"}
  BY RecorderAssumption DEF Init
<1>3. prog \in {"trace", "msg"} /\ [Next]_vars => (prog \in {"trace", "msg"})'
  BY SameProg
<1>4. QED
  BY <1>1, <1>2, <1>3, TraceInit, TraceStep, FileInit, FileStep, SizeInit, SizeStep, PTL DEF Spec

-----------------------------------------------------------------------------
(* The size of the sparse file.                                            *)

\* The size is computed without overflow, and there is a page of lines more than for the reads.
SizeSuffices == MAX_SIZE_SP < INT_RANGE \div 2 /\ PLUS_CHAR_LINE >= 1

\* One read hands over at most N_UNIT measures of each cpu.
LEMMA FewMeasures ==
  ASSUME region \in [Cpus -> Seq(Measure)], \A c \in Cpus : Len(region[c]) <= N_UNIT
  PROVE  Len(Measures) <= N_CPU * N_UNIT
<1> DEFINE ss == [c \in 1..N_CPU |-> region[c - 1]]
<1>0. N_CPU \in Nat \ {0} /\ N_UNIT \in Nat /\ 1 \in 1..N_CPU /\ N_CPU \in 1..N_CPU
  BY CpuType
<1>1. \A c \in 1..N_CPU : c - 1 \in Cpus
  BY CpuType
<1>2. ss \in [1..N_CPU -> Seq(Measure)] /\ \A c \in 1..N_CPU : Len(ss[c]) <= N_UNIT /\ Len(ss[c]) \in Nat
  BY <1>1, LenProperties
<1>3. Measures = FlattenSeq(ss)
  BY DEF Measures
<1> HIDE DEF ss
<1>4. \E f \in [1..N_CPU -> Seq(Measure)] :
        /\ f[1] = ss[1] /\ \A k \in 1..(N_CPU - 1) : f[k + 1] = f[k] \o ss[k + 1]
        /\ FlattenSeq(ss) = f[N_CPU]
  <2> DEFINE P(S, n, s) == \E f \in [1..n -> Seq(S)] :
                             /\ f[1] = s[1] /\ \A k \in 1..(n - 1) : f[k + 1] = f[k] \o s[k + 1]
                             /\ FlattenSeq(s) = f[n]
  <2>1. \A S : \A n \in Nat \ {0} : \A s \in [1..n -> Seq(S)] : P(S, n, s)
    BY ONLY FlattenIs, Zenon
  <2> HIDE DEF P
  <2>2. P(Measure, N_CPU, ss)
    BY ONLY <1>0, <1>2, <2>1
  <2>3. QED
    BY ONLY <2>2 DEF P
<1>5. PICK f \in [1..N_CPU -> Seq(Measure)] :
        /\ f[1] = ss[1] /\ \A k \in 1..(N_CPU - 1) : f[k + 1] = f[k] \o ss[k + 1]
        /\ FlattenSeq(ss) = f[N_CPU]
  BY <1>4
<1> DEFINE Few == {k \in 1..N_CPU : Len(f[k]) <= k * N_UNIT}
<1>6. 1..N_CPU \subseteq Few
  <2>1. 1 \in Few
    <3>1. Len(f[1]) <= N_UNIT /\ 1 * N_UNIT = N_UNIT
      BY <1>0, <1>2, <1>5
    <3>2. QED
      BY <1>0, <3>1
  <2>2. ASSUME NEW k \in 1..(N_CPU - 1), k \in Few PROVE k + 1 \in Few
    <3>1. k \in 1..N_CPU /\ k + 1 \in 1..N_CPU /\ k \in Nat
      BY <1>0
    <3>2. f[k + 1] = f[k] \o ss[k + 1] /\ f[k] \in Seq(Measure) /\ ss[k + 1] \in Seq(Measure)
      BY <1>2, <1>5, <3>1
    <3>3. Len(f[k + 1]) = Len(f[k]) + Len(ss[k + 1]) /\ Len(f[k]) \in Nat /\ Len(ss[k + 1]) \in Nat
      BY ONLY <3>2, ConcatProperties, LenProperties
    <3>4. (k + 1) * N_UNIT = k * N_UNIT + N_UNIT /\ k * N_UNIT \in Int
      <4>1. \A a, b \in Nat : (a + 1) * b = a * b + b /\ a * b \in Int
        OBVIOUS
      <4>2. QED
        BY ONLY <1>0, <3>1, <4>1
    <3>5. Len(f[k]) <= k * N_UNIT /\ Len(ss[k + 1]) <= N_UNIT
      BY <1>2, <2>2, <3>1
    <3>6. Len(f[k + 1]) <= (k + 1) * N_UNIT
      <4> DEFINE x == k * N_UNIT
                 y == (k + 1) * N_UNIT
                 u == Len(f[k])
                 v == Len(ss[k + 1])
                 w == Len(f[k + 1])
      <4>1. w = u + v /\ u \in Nat /\ v \in Nat /\ y = x + N_UNIT /\ x \in Int /\ u <= x /\ v <= N_UNIT
        BY <3>3, <3>4, <3>5
      <4> HIDE DEF x, y, u, v, w
      <4>2. w <= y
        BY ONLY <1>0, <4>1
      <4>3. QED
        BY <4>2 DEF w, y
    <3>7. QED
      BY <3>1, <3>6
  <2>3. N_CPU \in Nat
    BY <1>0
  <2> HIDE DEF Few
  <2>4. QED
    BY ONLY <2>1, <2>2, <2>3, UpTo
<1>7. QED
  BY <1>0, <1>3, <1>5, <1>6

\* The arithmetic of MAX_SIZE_SP: n characters a line, b measures a read, t taken by k reads, m more.
LEMMA RoomFor ==
  ASSUME NEW n \in Nat, NEW b \in Nat, NEW r \in Nat, NEW p \in Nat, NEW k \in Nat, NEW t \in Nat, NEW m \in Nat,
         n >= 1, b >= 1, p >= 1, k < r, t <= b * k, m <= b
  PROVE  ((n - 1) + (n - 1) * t) + n * m <= (r + p) * (n * b)
<1>1. \A x, y, z \in Nat : x <= y => x * z <= y * z /\ z * x <= z * y /\ x * z \in Nat
  OBVIOUS
<1>2. (n - 1) * t <= n * (b * k)
  <2>1. b * k \in Nat /\ n - 1 \in Nat /\ n - 1 <= n /\ n * t \in Nat
    <3>1. b * k \in Nat /\ n * t \in Nat
      BY <1>1
    <3>2. QED
      BY <3>1
  <2>2. (n - 1) * t <= n * t /\ (n - 1) * t \in Nat
    BY <1>1, <2>1
  <2>3. n * t <= n * (b * k) /\ n * (b * k) \in Nat
    BY <1>1, <2>1
  <2>4. QED
    BY ONLY <2>1, <2>2, <2>3
<1>3. n <= n * b /\ n * m <= n * b /\ n * b \in Nat /\ n * m \in Nat
  <2>1. n * 1 <= n * b /\ n * m <= n * b /\ n * b \in Nat /\ n * m \in Nat
    BY <1>1
  <2>2. n * 1 = n
    OBVIOUS
  <2>3. QED
    BY <2>1, <2>2
<1>4. n * (b * k) = k * (n * b)
  OBVIOUS
<1> DEFINE c == n * b
<1>5. c \in Nat
  BY <1>3
<1>6. (n - 1) * t \in Nat
  <2>1. n - 1 \in Nat
    OBVIOUS
  <2>2. QED
    BY <1>1, <2>1
<1> HIDE DEF c
<1>7. (k + 2) * c <= (r + p) * c
  <2>1. k + 2 \in Nat /\ r + p \in Nat /\ k + 2 <= r + p
    OBVIOUS
  <2>2. QED
    BY ONLY <1>1, <1>5, <2>1
<1>8. (k + 2) * c = k * c + c + c /\ k * c \in Nat
  BY <1>1, <1>5
<1>9. (r + p) * c \in Int
  BY <1>5
<1>10. ((n - 1) + (n - 1) * t) + n * m <= (r + p) * c
  <2>1. (n - 1) * t <= k * c /\ n <= c /\ n * m <= c /\ n * m \in Nat
    BY <1>2, <1>3, <1>4 DEF c
  <2> DEFINE u == (n - 1) * t
             v == n * m
             w == k * c
             x == (r + p) * c
             y == (k + 2) * c
  <2>2. u \in Nat /\ v \in Nat /\ w \in Nat /\ x \in Int /\ y = w + c + c /\ y <= x /\ u <= w /\ v <= c /\ n <= c
    BY <1>6, <1>7, <1>8, <1>9, <2>1
  <2> HIDE DEF u, v, w, x, y
  <2>3. ((n - 1) + u) + v <= x
    BY ONLY <1>5, <2>2, n \in Nat
  <2>4. QED
    BY <2>3 DEF u, v, x
<1>11. QED
  BY <1>10 DEF c

\* The size of the file, for N_CPU * N_UNIT measures a read.
LEMMA MaxSizeIs ==
  /\ MAX_SIZE_SP = (Reads + PLUS_CHAR_LINE) * (N_CHAR_LINE * (N_CPU * N_UNIT)) /\ MAX_SIZE_SP \in Nat
  /\ Reads \in Nat /\ PLUS_CHAR_LINE \in Nat /\ N_CPU * N_UNIT \in Nat /\ N_CPU * N_UNIT >= 1
<1>1. Reads \in Nat /\ PLUS_CHAR_LINE \in Nat /\ N_UNIT \in Nat \ {0} /\ N_CHAR_LINE \in Nat /\ N_CPU \in Nat \ {0}
  BY RecorderAssumption
<1>2. \A a, b, c, d \in Nat : a * b * c * d = a * (c * (d * b))
  OBVIOUS
<1>3. Reads + PLUS_CHAR_LINE \in Nat
  BY <1>1
<1>4. \A a, b \in Nat : a * b \in Nat
  OBVIOUS
<1>5. \A a, b \in Nat \ {0} : a * b >= 1
  OBVIOUS
<1>6. N_CPU * N_UNIT \in Nat /\ N_CPU * N_UNIT >= 1
  BY ONLY <1>1, <1>4, <1>5
<1>7. MAX_SIZE_SP = (Reads + PLUS_CHAR_LINE) * (N_CHAR_LINE * (N_CPU * N_UNIT))
  BY ONLY <1>1, <1>2, <1>3 DEF MAX_SIZE_SP
<1>8. N_CHAR_LINE * (N_CPU * N_UNIT) \in Nat
  BY ONLY <1>1, <1>4, <1>6
<1>9. MAX_SIZE_SP \in Nat
  BY ONLY <1>3, <1>4, <1>7, <1>8
<1>10. QED
  BY <1>1, <1>6, <1>7, <1>9

\* What one more read maps and leaves is within the file.
LEMMA SaveFits ==
  ASSUME SizeSuffices, RingInv, TakenInv, FileInv, FitInv, prog = "trace", dpc = "read", cpu = N_CPU
  PROVE  /\ OffsetToPage + SizeMap <= MAX_SIZE_SP
         /\ Len(Header \o Text(taken \o Measures)) <= MAX_SIZE_SP
         /\ Len(taken \o Measures) <= N_CPU * N_UNIT * (i + 1)
<1> DEFINE b == N_CPU * N_UNIT
           t == Len(taken)
           m == Len(Measures)
           n == N_CHAR_LINE
<1>1. i < Reads /\ (\A c \in Cpus : c < cpu => Len(region[c]) <= N_UNIT) /\ Len(taken) <= N_CPU * N_UNIT * i
  BY DEF FitInv
<1>2. \A c \in Cpus : Len(region[c]) <= N_UNIT
  BY <1>1, CpuType
<1>3. m <= b
  BY <1>2, FewMeasures DEF RingInv
<1>4. taken \in Seq(Pair) /\ Measures \in Seq(Pair) /\ i \in Nat
  BY TakenText, MeasuresPairs DEF RingInv
<1>5. n \in Nat /\ n > 2 /\ b \in Nat /\ b >= 1 /\ Reads \in Nat /\ PLUS_CHAR_LINE \in Nat /\ PLUS_CHAR_LINE >= 1
      /\ MAX_SIZE_SP = (Reads + PLUS_CHAR_LINE) * (n * b) /\ MAX_SIZE_SP \in Nat
  BY MaxSizeIs, LineFacts DEF SizeSuffices
<1>6. t \in Nat /\ m \in Nat
  BY <1>4, LenProperties
<1>7. t <= b * i
  BY <1>1
<1> HIDE DEF b, t, m, n
<1>8. ((n - 1) + (n - 1) * t) + n * m <= MAX_SIZE_SP
  <2>1. n >= 1
    BY <1>5
  <2>2. QED
    BY ONLY <1>1, <1>3, <1>4, <1>5, <1>6, <1>7, <2>1, RoomFor
<1>a. \A x, y \in Nat : x * y \in Nat
  OBVIOUS
<1>b. n - 1 \in Nat
  BY <1>5
<1>c. (n - 1) * t \in Nat /\ n * m \in Nat /\ (n - 1) * m \in Nat
  BY ONLY <1>5, <1>6, <1>a, <1>b
<1>9. OffsetToPage + SizeMap <= MAX_SIZE_SP
  <2>1. OffsetToPage + SizeMap = Len(sparse) + n * m
    BY SaveLines DEF n, m
  <2>2. sparse = Header \o Text(taken)
    BY DEF FileInv, Early
  <2>3. Len(sparse) \in Nat /\ Len(sparse) <= (n - 1) + (n - 1) * t
    BY <2>2, TakenText DEF n, t
  <2>4. QED
    BY ONLY <1>5, <1>8, <1>b, <1>c, <2>1, <2>3
<1>10. taken \o Measures \in Seq(Pair) /\ Len(taken \o Measures) = t + m
  BY <1>4, ConcatProperties DEF t, m
<1>11. Len(Header \o Text(taken \o Measures)) <= MAX_SIZE_SP
  <2> DEFINE x == Text(taken \o Measures)
  <2>1. x \in Seq(Char) /\ Len(x) <= (n - 1) * (t + m)
    <3>1. Text(taken \o Measures) \in Seq(Char) /\ Len(Text(taken \o Measures)) <= (N_CHAR_LINE - 1) * Len(taken \o Measures)
      BY <1>10, TextLen
    <3>2. QED
      BY <1>10, <3>1 DEF n
  <2> HIDE DEF x
  <2>2. Header \in Seq(Char) /\ Len(Header) = n - 1
    BY LineFacts DEF n
  <2>3. Len(Header \o x) = (n - 1) + Len(x) /\ Len(x) \in Nat
    BY ONLY <2>1, <2>2, ConcatProperties, LenProperties
  <2>4. (n - 1) * (t + m) = (n - 1) * t + (n - 1) * m /\ (n - 1) * m <= n * m
    <3>1. \A u, v, w \in Nat : u * (v + w) = u * v + u * w
      OBVIOUS
    <3>2. \A u, v, w \in Nat : u <= v => u * w <= v * w
      OBVIOUS
    <3>3. n - 1 <= n
      BY <1>5
    <3>4. QED
      BY ONLY <1>5, <1>6, <1>b, <3>1, <3>2, <3>3
  <2>5. Len(Header \o x) <= MAX_SIZE_SP
    BY ONLY <1>5, <1>8, <1>b, <1>c, <2>1, <2>3, <2>4
  <2>6. QED
    BY <2>5 DEF x
<1>12. Len(taken \o Measures) <= N_CPU * N_UNIT * (i + 1)
  <2>1. \A u, v \in Nat : u * (v + 1) = u * v + u /\ u * v \in Nat
    OBVIOUS
  <2>2. b * (i + 1) = b * i + b /\ b * i \in Nat
    BY ONLY <1>4, <1>5, <2>1
  <2>3. t + m <= b * (i + 1)
    BY ONLY <1>3, <1>5, <1>6, <1>7, <2>2
  <2>4. QED
    BY <1>10, <2>3 DEF b
<1>13. QED
  BY <1>9, <1>11, <1>12

FitFrame == FitInv /\ prog = "trace" /\ prog' = prog /\ UNCHANGED <<sparse, size_max>> /\ dpc # "start"

\* A step that leaves the sparse file alone, and does not come to a read.
LEMMA FitKept ==
  ASSUME FitFrame, dpc' \notin {"start", "crashed", "next", "read", "lseek"}, dpc' # "returned" => dpc # "returned"
  PROVE  FitInv'
BY DEF FitFrame, FitInv

\* The driver reads the ring of one cpu.
LEMMA FitRead == RingInv /\ FitFrame /\ trace_driver_read => FitInv'
<1> SUFFICES ASSUME RingInv, FitFrame, trace_driver_read PROVE FitInv'
  OBVIOUS
<1> DEFINE n == IF Len(log[cpu]) < N_UNIT THEN Len(log[cpu]) ELSE N_UNIT
<1>1. /\ dpc \in {"clean", "read"} /\ cpu \in Cpus /\ cpu' = cpu + 1 /\ region' = [region EXCEPT ![cpu] = SubSeq(log[cpu], 1, n)]
      /\ UNCHANGED <<dpc, i, taken>>
  BY DEF trace_driver_read, region_read_cpu
<1>2. region \in [Cpus -> Seq(Measure)] /\ log[cpu] \in Seq(Measure)
  BY <1>1 DEF RingInv
<1>3. N_UNIT \in Nat /\ cpu \in Nat /\ Len(log[cpu]) \in Nat
  BY <1>1, <1>2, CpuType, LenProperties
<1>4. n \in 0..Len(log[cpu]) /\ n <= N_UNIT
  BY ONLY <1>3
<1> HIDE DEF n
<1>5. Len(SubSeq(log[cpu], 1, n)) = n
  BY ONLY <1>2, <1>4, Cut
<1>6. ASSUME dpc = "read", NEW c \in Cpus, c < cpu' PROVE Len(region'[c]) <= N_UNIT
  <2>1. CASE c = cpu
    BY <1>1, <1>2, <1>4, <1>5, <2>1
  <2>2. CASE c # cpu
    <3>1. c < cpu
      <4>1. c \in Nat
        BY CpuType
      <4>2. QED
        BY <1>1, <1>3, <1>6, <2>2, <4>1
    <3>2. region'[c] = region[c]
      BY <1>1, <1>2, <2>2
    <3>3. QED
      BY <1>6, <3>1, <3>2 DEF FitFrame, FitInv
  <2>3. QED
    BY <2>1, <2>2
<1>7. QED
  BY <1>1, <1>6 DEF FitFrame, FitInv

\* The lines of a read.
LEMMA FitSave == SizeSuffices /\ RingInv /\ TakenInv /\ FileInv /\ FitInv /\ prog = "trace" /\ prog' = prog /\ save_measure => FitInv'
<1> SUFFICES ASSUME SizeSuffices, RingInv, TakenInv, FileInv, FitInv, prog = "trace", prog' = prog, save_measure PROVE FitInv'
  OBVIOUS
<1>1. dpc = "read" /\ cpu = N_CPU /\ taken' = taken \o Measures /\ UNCHANGED <<i, size_max>>
  BY DEF save_measure, At, Loop, files
<1>2. /\ OffsetToPage + SizeMap <= MAX_SIZE_SP /\ Len(Header \o Text(taken \o Measures)) <= MAX_SIZE_SP
      /\ Len(taken \o Measures) <= N_CPU * N_UNIT * (i + 1)
  BY <1>1, SaveFits
<1>3. size_max = MAX_SIZE_SP /\ i < Reads /\ MAX_SIZE_SP \in Nat
  BY <1>1, MaxSizeIs DEF FitInv
<1>4. dpc' = "lseek" /\ Len(sparse') <= size_max' + 1
  <2>1. CASE Measures = <<>>
    <3>1. dpc' = "lseek" /\ sparse' = sparse
      BY <2>1 DEF save_measure, Go, files
    <3>2. QED
      BY <1>1, <3>1 DEF FitInv
  <2>2. CASE Measures # <<>>
    <3>1. sparse' = Mapped(Measures) /\ dpc' = IF OffsetToPage + SizeMap <= size_max + 1 THEN "lseek" ELSE "crashed"
      BY <2>2 DEF save_measure, Go
    <3>2. Mapped(Measures) = Header \o Text(taken \o Measures) /\ OffsetToPage + SizeMap = Len(sparse) + N_CHAR_LINE * Len(Measures)
      BY <1>1, SaveLines
    <3>3. OffsetToPage + SizeMap \in Int /\ Len(sparse') \in Nat
      <4>1. Measures \in Seq(Pair) /\ taken \in Seq(Pair)
        BY <1>1, MeasuresPairs, TakenText
      <4>2. taken \o Measures \in Seq(Pair) /\ Len(Measures) \in Nat
        BY ONLY <4>1, ConcatProperties, LenProperties
      <4>3. Text(taken \o Measures) \in Seq(Char) /\ Header \in Seq(Char)
        BY <4>2, TextLen, LineFacts
      <4>4. Len(Header \o Text(taken \o Measures)) \in Nat
        BY ONLY <4>3, ConcatProperties, LenProperties
      <4>5. sparse = Header \o Text(taken)
        BY <1>1 DEF FileInv, Early
      <4>6. Len(sparse) \in Nat
        BY <4>5, TakenText
      <4>7. N_CHAR_LINE * Len(Measures) \in Nat
        <5>1. \A x, y \in Nat : x * y \in Nat
          OBVIOUS
        <5>2. N_CHAR_LINE \in Nat
          BY LineFacts
        <5>3. QED
          BY ONLY <4>2, <5>1, <5>2
      <4>8. Len(sparse) + N_CHAR_LINE * Len(Measures) \in Int
        BY ONLY <4>6, <4>7
      <4>9. QED
        BY <3>1, <3>2, <4>4, <4>8
    <3>4. OffsetToPage + SizeMap <= size_max + 1
      BY ONLY <1>2, <1>3, <3>3
    <3>5. Len(sparse') <= MAX_SIZE_SP
      BY <1>2, <3>1, <3>2
    <3>6. Len(sparse') <= size_max' + 1
      BY ONLY <1>1, <1>3, <3>3, <3>5
    <3>7. QED
      BY <3>1, <3>4, <3>6
  <2>3. QED
    BY <2>1, <2>2
<1>5. QED
  BY <1>1, <1>2, <1>3, <1>4 DEF FitInv

\* FitInv is inductive.
LEMMA FitStep == SizeSuffices /\ TraceInv /\ FileInv /\ FitInv /\ [Next]_vars => FitInv'
<1> SUFFICES ASSUME SizeSuffices, TraceInv, FileInv, FitInv, [Next]_vars, prog' = "trace" PROVE FitInv'
  BY DEF FitInv
<1>1. prog' = prog /\ prog = "trace"
  BY SameProg
<1>2. RingInv /\ TakenInv
  BY <1>1 DEF TraceInv
<1>3. CASE OpenSteps
  <2>1. CASE daemon_create_sparse_file
    <3>1. dpc = "start" /\ sparse = <<>> /\ sparse' = <<>> /\ size_max \in Nat /\ Len(<<>>) = 0
      BY <1>1, <2>1 DEF daemon_create_sparse_file, err_rec1, Leave, At, Files, files, FileInv
    <3>2. CASE dpc' = "row"
      <4>1. size_max' = Wrap(MAX_SIZE_SP)
        BY <2>1, <3>2 DEF daemon_create_sparse_file, err_rec1, Leave, Go
      <4>2. Wrap(MAX_SIZE_SP) = MAX_SIZE_SP
        <5> DEFINE h == INT_RANGE \div 2
                   x == MAX_SIZE_SP
        <5>1. INT_RANGE \in Nat \ {0} /\ x \in Nat /\ x < h
          BY RecorderAssumption, MaxSizeIs DEF SizeSuffices
        <5>2. h \in Nat /\ h + h <= INT_RANGE
          BY <5>1
        <5>w. Wrap(x) = ((x + h) % INT_RANGE) - h
          BY DEF Wrap
        <5> HIDE DEF h, x
        <5>3. x + h \in 0..(INT_RANGE - 1)
          BY ONLY <5>1, <5>2
        <5>4. \A r \in Nat \ {0} : \A a \in 0..(r - 1) : a % r = a
          OBVIOUS
        <5>5. (x + h) % INT_RANGE = x + h
          BY ONLY <5>1, <5>3, <5>4
        <5>6. Wrap(x) = x
          BY ONLY <5>1, <5>2, <5>5, <5>w
        <5>7. QED
          BY <5>6 DEF x
      <4>3. Len(sparse') <= size_max' + 1 /\ size_max' = MAX_SIZE_SP
        BY <3>1, <4>1, <4>2, MaxSizeIs
      <4>4. QED
        BY <3>2, <4>3 DEF FitInv
    <3>3. CASE dpc' = "returned"
      <4>1. size_max' = size_max
        BY <2>1, <3>3 DEF daemon_create_sparse_file, err_rec1, Leave, Go, Files, files
      <4>2. Len(sparse') <= size_max' + 1
        BY <3>1, <4>1
      <4>3. QED
        BY <3>3, <4>2 DEF FitInv
    <3>4. QED
      BY <2>1, <3>2, <3>3 DEF daemon_create_sparse_file, err_rec1, Leave, Go
  <2>2. CASE sparse_first_row /\ dpc' = "region"
    <3>1. dpc = "row" /\ sparse' = Header /\ size_max' = size_max
      BY <2>2 DEF sparse_first_row, err_rec2, Leave, At, Go
    <3>2. size_max = MAX_SIZE_SP
      BY <1>1, <3>1 DEF FitInv
    <3>3. Len(Header) <= MAX_SIZE_SP
      <4> DEFINE c == N_CHAR_LINE * (N_CPU * N_UNIT)
                 r == Reads + PLUS_CHAR_LINE
      <4>1. Len(Header) = N_CHAR_LINE - 1 /\ N_CHAR_LINE \in Nat
        BY LineFacts
      <4>2. r \in Nat /\ r >= 1 /\ MAX_SIZE_SP = r * c
        BY MaxSizeIs DEF SizeSuffices
      <4>3. \A x, y \in Nat : y >= 1 => x <= x * y /\ x <= y * x /\ x * y \in Nat
        OBVIOUS
      <4>4. c \in Nat /\ N_CHAR_LINE <= c
        BY ONLY <4>1, <4>3, MaxSizeIs
      <4> HIDE DEF c, r
      <4>5. c <= r * c /\ r * c \in Nat
        <5>1. c <= r * c /\ c * r \in Nat
          BY ONLY <4>2, <4>3, <4>4
        <5>2. r * c = c * r
          BY ONLY <4>2, <4>4
        <5>3. QED
          BY ONLY <5>1, <5>2
      <4>6. QED
        BY ONLY <4>1, <4>2, <4>4, <4>5
    <3>4. Len(sparse') <= size_max' + 1
      <4>1. MAX_SIZE_SP \in Nat /\ Len(Header) \in Nat
        BY MaxSizeIs, LineFacts
      <4>2. Len(Header) <= MAX_SIZE_SP + 1
        BY ONLY <3>3, <4>1
      <4>3. QED
        BY <3>1, <3>2, <4>2
    <3>5. QED
      BY <2>2, <3>1, <3>2, <3>4 DEF FitInv
  <2>3. CASE init_region \/ open_device \/ (sparse_first_row /\ dpc' # "region")
    <3>1. UNCHANGED <<sparse, size_max>> /\ dpc \in {"row", "region", "open"} /\ dpc' \in {"open", "clean", "returned"}
      BY <2>3 DEF sparse_first_row, init_region, open_device, err_rec2, err_rec3, Leave, At, Go, Files, files
    <3>2. QED
      BY <1>1, <3>1, FitKept DEF FitFrame
  <2>4. QED
    BY <1>3, <2>1, <2>2, <2>3 DEF OpenSteps
<1>4. CASE ReadSteps
  <2>1. CASE trace_driver_read
    <3>1. FitFrame
      BY <1>1, <2>1 DEF FitFrame, trace_driver_read, files
    <3>2. QED
      BY <1>2, <2>1, <3>1, FitRead
  <2>2. CASE save_measure
    BY <1>1, <1>2, <2>2, FitSave
  <2>3. CASE clean_kernel_buffer
    <3>1. FitFrame /\ dpc = "clean" /\ taken' = taken /\ (dpc' = "clean" \/ (dpc' = "next" /\ i' = 0))
      BY <1>1, <2>3 DEF FitFrame, clean_kernel_buffer, At, Go, Files, files, History
    <3>2. CASE dpc' = "clean"
      BY <3>1, <3>2, FitKept
    <3>3. CASE dpc' = "next"
      <4>1. taken = <<>> /\ i' = 0
        BY <1>2, <3>1, <3>3 DEF RingInv
      <4>2. Len(taken') = 0
        BY <3>1, <4>1
      <4>3. N_CPU * N_UNIT * 0 = 0 /\ 0 <= Reads
        <5>1. \A x \in Nat : x * 0 = 0
          OBVIOUS
        <5>2. QED
          BY <5>1, MaxSizeIs
      <4>4. i' <= Reads /\ Len(taken') <= N_CPU * N_UNIT * i'
        BY <4>1, <4>2, <4>3
      <4>5. QED
        BY <3>1, <3>3, <4>4 DEF FitFrame, FitInv
    <3>4. QED
      BY <3>1, <3>2, <3>3
  <2>4. CASE next_read
    <3>1. FitFrame /\ dpc = "next" /\ cpu' = 0 /\ UNCHANGED <<i, taken, region>> /\ dpc' = IF i < Reads THEN "read" ELSE "regular"
      BY <1>1, <2>4 DEF FitFrame, next_read, At, Go, Files, files, History
    <3>2. \A c \in Cpus : ~(c < cpu')
      BY <3>1, CpuType
    <3>3. QED
      BY <3>1, <3>2 DEF FitFrame, FitInv
  <2>5. CASE lseek_device /\ dpc' = "next"
    <3>1. FitFrame /\ dpc = "lseek" /\ i' = i + 1 /\ taken' = taken
      BY <1>1, <2>5 DEF FitFrame, lseek_device, err_rec4, Leave, At, Go, Files, files, History
    <3>2. i < Reads /\ Len(taken) <= N_CPU * N_UNIT * (i + 1) /\ i \in Nat /\ Reads \in Nat
      BY <1>1, <1>2, <3>1, MaxSizeIs DEF FitInv, RingInv
    <3>3. i' <= Reads /\ Len(taken') <= N_CPU * N_UNIT * i'
      BY <3>1, <3>2
    <3>4. QED
      BY <2>5, <3>1, <3>3 DEF FitFrame, FitInv
  <2>6. CASE read_failed \/ mmap_failed \/ (lseek_device /\ dpc' # "next")
    <3>1. FitFrame /\ dpc' = "returned"
      BY <1>1, <2>6 DEF FitFrame, read_failed, mmap_failed, lseek_device, err_rec4, Leave, At, Go, Files, files
    <3>2. QED
      BY <3>1, FitKept
  <2>7. QED
    BY <1>4, <2>1, <2>2, <2>3, <2>4, <2>5, <2>6 DEF ReadSteps
<1>5. CASE CopySteps
  <2>1. FitFrame /\ dpc \in {"regular", "copy"} /\ dpc' \in {"copy", "returned"}
    BY <1>1, <1>5 DEF FitFrame, CopySteps, create_regular_file, lseek_sparse_failed, copy_normal_file, copy_failed, copy_no_memory,
      record_done, err_rec4, err_rec5, Leave, At, Go, Files, files
  <2>2. QED
    BY <2>1, FitKept
<1>6. CASE MsgSteps
  <2>1. FALSE
    BY <1>1, <1>2, <1>6 DEF RingInv, MsgSteps, msg_open_files, msg_init_region, msg_open_device, write_first_row, msg_measure,
      msg_save_line, data_synthesis, msg_record_done, At
  <2>2. QED
    BY <2>1
<1>7. ASSUME NEW c \in Cpus, event(c) PROVE FitInv'
  BY <1>1, <1>7 DEF event, files, FitInv
<1>8. CASE UNCHANGED vars
  BY <1>8 DEF vars, files, FitInv
<1>9. QED
  BY <1>3, <1>4, <1>5, <1>6, <1>7, <1>8, Steps

\* Before the daemon starts the file is empty.
LEMMA FitInit == Init => FitInv
<1> SUFFICES ASSUME Init, prog = "trace" PROVE FitInv
  BY DEF FitInv
<1>1. Len(<<>>) <= 0 + 1
  OBVIOUS
<1>2. QED
  BY <1>1 DEF Init, FitInv

\* The text of the sparse file has no hole, ends at offset_map and never outgrows the file; so no
\* mapping reaches past it and the daemon is not killed: provided MAX_SIZE_SP is computed without
\* overflow, and PLUS_CHAR_LINE leaves room for the first row.
THEOREM Fits ==
  ASSUME MAX_SIZE_SP < INT_RANGE \div 2, PLUS_CHAR_LINE >= 1
  PROVE  Spec => []TextFits
<1>1. SizeSuffices
  BY DEF SizeSuffices
<1>2. TraceInv /\ FileInv /\ FitInv /\ SizeInv /\ prog \in {"trace", "msg"} => TextFits
  <2> SUFFICES ASSUME TraceInv, FileInv, FitInv, SizeInv, prog \in {"trace", "msg"} PROVE TextFits
    OBVIOUS
  <2>1. CASE prog = "trace"
    <3>1. RingInv
      BY <2>1 DEF TraceInv
    <3>2. ASSUME dpc \in {"next", "read", "lseek", "regular"} PROVE offset_map = Len(sparse) /\ NUL \notin Range(sparse)
      <4>1. sparse = Header \o Text(taken) /\ offset_map = Len(sparse)
        BY <2>1, <3>2 DEF FileInv, Early
      <4>2. sparse \in Seq(Char)
        BY <3>1, <4>1, TakenText
      <4>3. Range(sparse) \in SUBSET Char
        BY <4>2, RangeOfSeq
      <4>4. QED
        BY <4>1, <4>3, LineFacts
    <3>3. QED
      BY <2>1, <3>2 DEF FitInv, TextFits
  <2>2. CASE prog = "msg"
    <3>1. Len(<<>>) <= 0 + 1
      OBVIOUS
    <3>2. QED
      BY <2>2, <3>1 DEF SizeInv, TextFits, MsgPlaces
  <2>3. QED
    BY <2>1, <2>2
<1>3. Init => prog \in {"trace", "msg"}
  BY RecorderAssumption DEF Init
<1>4. prog \in {"trace", "msg"} /\ [Next]_vars => (prog \in {"trace", "msg"})'
  BY SameProg
<1>5. TraceInv /\ FileInv /\ FitInv /\ [Next]_vars => FitInv'
  BY <1>1, FitStep
<1>6. QED
  BY <1>2, <1>3, <1>4, <1>5, TraceInit, TraceStep, FileInit, FileStep, FitInit, SizeInit, SizeStep, PTL DEF Spec
=============================================================================
