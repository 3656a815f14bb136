------------------------------ MODULE Recorder ------------------------------
(***************************************************************************)
(* The programs that record: the trace daemon (trace/daemon, prog "trace") *)
(* with the read of the trace driver it uses, and the daemon of            *)
(* micro-benchmark_Msg ("msg").                                            *)
(*                                                                         *)
(* The trace daemon empties the rings of all cpus, then reads them Reads   *)
(* times and appends a line for each measure to a sparse file, which it    *)
(* maps page by page; at the end the text of the sparse file is copied     *)
(* into a regular file.  The kernel goes on measuring meanwhile; of a ring *)
(* the module knows what MeasureLog promises, a bounded log without        *)
(* overwriting.  The Msg daemon has the driver measure copies of 1, 2, 4   *)
(* ... bytes and writes a line for each measure into a regular file.       *)
(*                                                                         *)
(* A character of a file is <<m, k>>, the k-th of the line of measure m;   *)
(* NUL is what the sparse file holds where nothing was written.            *)
(***************************************************************************)
EXTENDS Integers, Sequences, FiniteSets, SequencesExt

CONSTANTS
  Progs,
  N_CPU, KERNEL_UNIT_BUFFER, N_UNIT, Reads, MaxEvents,
  PAGE_SIZE, N_CHAR_LINE, PLUS_CHAR_LINE,
  INT_RANGE,              \* values of an int: MAX_SIZE_SP is computed modulo INT_RANGE
  MaxSize, BUFF_MEASURE,  \* of Msg: the largest size measured, the measures of a size
  ShortWrites             \* whether write may, once, write less than it is given

ASSUME RecorderAssumption ==
  /\ Progs \subseteq {"trace", "msg"} /\ ShortWrites \in BOOLEAN
  /\ {N_CPU, KERNEL_UNIT_BUFFER, N_UNIT, PAGE_SIZE, INT_RANGE, MaxSize, BUFF_MEASURE} \subseteq Nat \ {0}
  /\ {Reads, MaxEvents, PLUS_CHAR_LINE} \subseteq Nat /\ N_CHAR_LINE \in Nat \ (0..2)

VARIABLES
  prog,
  count_event, log,       \* the rings
  region, cpu,            \* ptr_region of the driver and region_mem of the daemon; a loop index
  dpc, i, ret,            \* the daemon: its place, its loop index and what it returns
  fds, mem,               \* descriptors that are open, memory that is allocated
  size_max, offset_map, sparse, position,   \* struct daemon_trace, the sparse file, where it is read
  out, synth,             \* the regular files
  begun, taken, fault     \* (history) count_event when the device was opened, the measures the
                          \* driver handed over since it was emptied, what went wrong

rings == <<count_event, log>>
files == <<size_max, offset_map, sparse, position, out, synth>>
vars  == <<prog, rings, region, cpu, dpc, i, ret, fds, mem, files, begun, taken, fault>>

Cpus == 0..(N_CPU - 1)
NUL  == <<>>

\* Lines differ in length, and none is as long as N_CHAR_LINE.
Line(m)  == [k \in 1..(N_CHAR_LINE - 1 - (m[2] % 2)) |-> <<m, k>>]
Header   == [k \in 1..(N_CHAR_LINE - 1) |-> <<"#", k>>]
Text(ms) == FlattenSeq([k \in 1..Len(ms) |-> Line(ms[k])])

Init ==
  /\ prog \in Progs
  /\ count_event \in [Cpus -> 0..(IF prog = "trace" THEN KERNEL_UNIT_BUFFER - 1 ELSE 0)]
  /\ log = [c \in Cpus |-> [n \in 1..count_event[c] |-> <<c, n>>]]
  /\ region = [c \in Cpus |-> <<>>] /\ cpu = 0
  /\ dpc = "start" /\ i = 0 /\ ret = 0 /\ fds = {} /\ mem = {}
  /\ size_max = 0 /\ offset_map = 0 /\ sparse = <<>> /\ position = 0
  /\ out = <<>> /\ synth = <<>>
  /\ begun = [c \in Cpus |-> 0] /\ taken = <<>> /\ fault = "none"

-----------------------------------------------------------------------------
(* The kernel: a measure enters its ring, or finds it full.                *)

event(c) ==
  /\ prog = "trace" /\ dpc \notin {"returned", "crashed"} /\ count_event[c] < MaxEvents
  /\ count_event' = [count_event EXCEPT ![c] = @ + 1]
  /\ log' = IF Len(log[c]) < KERNEL_UNIT_BUFFER - 1
            THEN [log EXCEPT ![c] = Append(@, <<c, count_event[c] + 1>>)] ELSE log
  /\ UNCHANGED <<prog, region, cpu, dpc, i, ret, fds, mem, files, begun, taken, fault>>

-----------------------------------------------------------------------------
(* Steps of the daemons.                                                   *)

At(pc)   == dpc = pc /\ UNCHANGED <<prog, rings>>
Go(pc)   == dpc' = pc
Files    == UNCHANGED files
History  == UNCHANGED <<begun, taken, fault>>
Loop     == UNCHANGED <<region, cpu, i>>

\* Leaving by one of the labels err_rec...: what it closes and frees.
Leave(value, closes, frees) ==
  /\ Go("returned") /\ ret' = value /\ fds' = fds \ closes /\ mem' = mem \ frees
  /\ Loop /\ Files /\ UNCHANGED <<begun, taken>>

err_rec4_KeepsRegion(v) == Leave(v, {"sp", "dev"}, {})
err_rec1(v) == Leave(v, {}, {})
err_rec2(v) == Leave(v, {"sp"}, {})
err_rec3(v) == Leave(v, {"sp"}, {"region"})
err_rec4(v) == Leave(v, {"sp", "dev"}, {"region"})
err_rec5(v) == Leave(v, {"sp", "dev", "fl"}, {"region"})

\* The size of the sparse file, computed with ints: it may come out negative, and
\* lseek fails.
MAX_SIZE_SP_PerLine == (Reads + PLUS_CHAR_LINE) * N_CHAR_LINE * N_CPU
MAX_SIZE_SP == (Reads + PLUS_CHAR_LINE) * N_UNIT * N_CHAR_LINE * N_CPU
Wrap(x) == ((x + INT_RANGE \div 2) % INT_RANGE) - INT_RANGE \div 2

daemon_create_sparse_file ==
  /\ At("start") /\ prog = "trace"
  /\ \/ /\ Wrap(MAX_SIZE_SP) >= 0 /\ Go("row") /\ size_max' = Wrap(MAX_SIZE_SP) /\ offset_map' = 0
        /\ fds' = {"sp"} /\ Loop /\ History /\ UNCHANGED <<ret, mem, sparse, position, out, synth>>
     \/ err_rec1(-1) /\ UNCHANGED fault

sparse_first_row ==
  /\ At("row")
  /\ \/ /\ Go("region") /\ sparse' = Header /\ offset_map' = Len(Header) /\ ret' = 0
        /\ Loop /\ History /\ UNCHANGED <<fds, mem, size_max, position, out, synth>>
     \/ err_rec2(-1) /\ UNCHANGED fault

\* When the region cannot be had or the device cannot be opened, ret keeps the 0
\* of sparse_first_row.
init_region ==
  /\ At("region")
  /\ \/ Go("open") /\ mem' = mem \union {"region"} /\ Loop /\ Files /\ History /\ UNCHANGED <<ret, fds>>
     \/ err_rec2(ret) /\ fault' = "no region"

open_device ==
  /\ At("open")
  /\ \/ /\ Go("clean") /\ fds' = fds \union {"dev"} /\ begun' = count_event /\ i' = 0 /\ cpu' = 0
        /\ Files /\ UNCHANGED <<region, ret, mem, taken, fault>>
     \/ err_rec3(ret) /\ fault' = "no device"

\* cbRead_list moves at most N_UNIT measures of a cpu into its part of ptr_region.
region_read_cpu(c) ==
  LET n == IF Len(log[c]) < N_UNIT THEN Len(log[c]) ELSE N_UNIT IN
  /\ region' = [region EXCEPT ![c] = SubSeq(log[c], 1, n)]
  /\ log' = [log EXCEPT ![c] = SubSeq(@, n + 1, Len(@))]

\* The read of the driver: one cpu after the other, then all is copied out.
trace_driver_read ==
  /\ dpc \in {"clean", "read"} /\ cpu \in Cpus
  /\ region_read_cpu(cpu)
  /\ cpu' = cpu + 1
  /\ UNCHANGED <<prog, count_event, dpc, i, ret, fds, mem, files, begun, taken, fault>>

read_failed ==
  /\ dpc \in {"clean", "read"} /\ cpu = N_CPU /\ At(dpc)
  /\ err_rec4(-1) /\ UNCHANGED fault

\* Old measures are discarded.
n_read_clean_Short == KERNEL_UNIT_BUFFER \div N_UNIT
n_read_clean == (KERNEL_UNIT_BUFFER \div N_UNIT) + 1

clean_kernel_buffer ==
  /\ At("clean") /\ cpu = N_CPU
  /\ cpu' = 0
  /\ IF i + 1 < n_read_clean THEN i' = i + 1 /\ Go("clean") ELSE i' = 0 /\ Go("next")
  /\ Files /\ History /\ UNCHANGED <<region, ret, fds, mem>>

next_read ==
  /\ At("next")
  /\ cpu' = 0 /\ Go(IF i < Reads THEN "read" ELSE "regular")
  /\ Files /\ History /\ UNCHANGED <<region, i, ret, fds, mem>>

\* The sparse file as mapped memory: what strlen finds from base on, and what
\* sprintf leaves there.
StrLen(f, base) == Cardinality({k \in (base + 1)..Len(f) : \A m \in (base + 1)..k : f[m] # NUL})
Put(f, base, line) ==
  LET at == base + StrLen(f, base)
      to == at + Len(line)
  IN [k \in 1..(IF to > Len(f) THEN to ELSE Len(f)) |->
        IF k \in (at + 1)..to THEN line[k - at] ELSE IF k <= Len(f) THEN f[k] ELSE NUL]

Measures     == FlattenSeq([c \in 1..N_CPU |-> region[c - 1]])
OffsetToPage == offset_map - (offset_map % PAGE_SIZE)
SizeMap      == (offset_map % PAGE_SIZE) + N_CHAR_LINE * Len(Measures)
Mapped(ms)   ==
  LET file[k \in 0..Len(ms)] == IF k = 0 THEN sparse ELSE Put(file[k - 1], OffsetToPage, Line(ms[k]))
  IN  file[Len(ms)]

\* offset_map as save_measure leaves it.
NewOffset_InMap == StrLen(Mapped(Measures), OffsetToPage)
NewOffset == OffsetToPage + StrLen(Mapped(Measures), OffsetToPage)

\* The lines of one read.  A mapping that reaches past the file ends the process.
save_measure ==
  /\ At("read") /\ cpu = N_CPU /\ taken' = taken \o Measures
  /\ \/ /\ Measures = <<>> /\ Go("lseek") /\ Loop /\ UNCHANGED <<files, ret, fds, mem, begun, fault>>
     \/ /\ Measures # <<>> /\ sparse' = Mapped(Measures) /\ offset_map' = NewOffset
        /\ Go(IF OffsetToPage + SizeMap <= size_max + 1 THEN "lseek" ELSE "crashed")
        /\ Loop /\ UNCHANGED <<ret, fds, mem, size_max, position, out, synth, begun, fault>>

\* mmap has failed: the measures are lost.
mmap_failed ==
  /\ At("read") /\ cpu = N_CPU /\ Measures # <<>>
  /\ err_rec4(-1) /\ UNCHANGED fault

lseek_device ==
  /\ At("lseek")
  /\ \/ Go("next") /\ i' = i + 1 /\ Files /\ History /\ UNCHANGED <<region, cpu, ret, fds, mem>>
     \/ err_rec4(-1) /\ UNCHANGED fault

\* The regular file is created, and the sparse one read from its start; when
\* lseek fails, the regular file stays open.
create_regular_file ==
  /\ At("regular")
  /\ \/ /\ Go("copy") /\ fds' = fds \union {"fl"} /\ position' = 0 /\ ret' = 0
        /\ Loop /\ History /\ UNCHANGED <<mem, size_max, offset_map, sparse, out, synth>>
     \/ err_rec4(-1) /\ UNCHANGED fault

lseek_sparse_failed ==
  /\ At("regular")
  /\ Go("returned") /\ ret' = -1 /\ fds' = (fds \union {"fl"}) \ {"sp", "dev"} /\ mem' = mem \ {"region"}
  /\ fault' = "no seek" /\ Loop /\ Files /\ UNCHANGED <<begun, taken>>

Pad(f, n) == [k \in 1..n |-> IF k <= Len(f) THEN f[k] ELSE NUL]

\* One page, or the rest, is read and written; offset_map counts what was written.
copy_normal_file ==
  /\ At("copy") /\ offset_map > 0
  /\ LET want == IF offset_map >= PAGE_SIZE THEN PAGE_SIZE ELSE offset_map
         got  == IF position + want <= size_max + 1 THEN want ELSE size_max + 1 - position
         page == SubSeq(Pad(sparse, position + got), position + 1, position + got)
     IN \E n \in {got} \union (IF ShortWrites /\ fault = "none" THEN 1..got ELSE {}) :
          /\ out' = out \o SubSeq(page, 1, n)
          /\ offset_map' = offset_map - n
          /\ position' = position + got
          /\ fault' = IF n < got THEN "short write" ELSE fault
  /\ UNCHANGED <<dpc, region, cpu, i, ret, fds, mem, size_max, sparse, synth, begun, taken>>

copy_failed == At("copy") /\ offset_map > 0 /\ err_rec5(-1) /\ UNCHANGED fault

\* Without a buffer copy_normal_file returns a value nobody has set.
copy_no_memory ==
  /\ At("copy") /\ position = 0
  /\ \/ err_rec5(-1) /\ UNCHANGED fault
     \/ err_rec5(0) /\ fault' = "no buffer"

\* All is closed, and the sparse file removed.
record_done == At("copy") /\ offset_map = 0 /\ err_rec5(0) /\ UNCHANGED fault

-----------------------------------------------------------------------------
(* The Msg daemon.                                                         *)

msg_open_files ==
  /\ At("start") /\ prog = "msg"
  /\ \/ Go("msg region") /\ fds' = {"fl", "synth"} /\ Loop /\ Files /\ History /\ UNCHANGED <<ret, mem>>
     \/ Leave(-1, {}, {}) /\ UNCHANGED fault

\* Without a region record_measures returns a value nobody has set.
msg_init_region ==
  /\ At("msg region")
  /\ \/ Go("msg open") /\ mem' = {"region"} /\ Loop /\ Files /\ History /\ UNCHANGED <<ret, fds>>
     \/ Leave(-1, {"fl", "synth"}, {}) /\ UNCHANGED fault
     \/ Leave(0, {"fl", "synth"}, {}) /\ fault' = "no region"

All == {"fl", "synth", "dev"}

msg_open_device ==
  /\ At("msg open")
  /\ \/ /\ Go("msg row") /\ fds' = fds \union {"dev"} /\ synth' = Header /\ i' = 1
        /\ History /\ UNCHANGED <<region, cpu, ret, mem, size_max, offset_map, sparse, position, out>>
     \/ Leave(-1, {"fl", "synth"}, {"region"}) /\ UNCHANGED fault

\* A write that is cut short is repeated from the start of the line.
Written(f, line, n) ==
  f \o SubSeq(line, 1, n) \o (IF n < Len(line) THEN SubSeq(line, 1, Len(line) - n) ELSE <<>>)
Cuts(line) == {Len(line)} \union (IF ShortWrites /\ fault = "none" THEN 1..Len(line) ELSE {})

write_first_row ==
  /\ At("msg row")
  /\ \/ /\ i <= MaxSize /\ Go("msg measure")
        /\ \E n \in Cuts(Header) :
             /\ out' = Written(out, Header, n)
             /\ fault' = IF n < Len(Header) THEN "short write" ELSE fault
        /\ Loop /\ UNCHANGED <<ret, fds, mem, size_max, offset_map, sparse, position, synth, begun, taken>>
     \/ i <= MaxSize /\ Leave(-1, All, {"region"}) /\ UNCHANGED fault

\* write and read of the device: the measures of size i come into the region.
msg_measure ==
  /\ At("msg measure")
  /\ \/ /\ Go("msg lines") /\ mem' = mem \union {"buf_write", "time_op"} /\ cpu' = 0
        /\ region' = [region EXCEPT ![0] = [n \in 1..BUFF_MEASURE |-> <<i, n>>]]
        /\ taken' = taken \o region'[0]
        /\ Files /\ UNCHANGED <<i, ret, fds, begun, fault>>
     \/ Leave(-1, All, {"region"}) /\ UNCHANGED fault

msg_save_line ==
  /\ At("msg lines") /\ cpu < Len(region[0])
  /\ \/ /\ \E n \in Cuts(Line(region[0][cpu + 1])) :
             /\ out' = Written(out, Line(region[0][cpu + 1]), n)
             /\ fault' = IF n < Len(Line(region[0][cpu + 1])) THEN "short write" ELSE fault
        /\ cpu' = cpu + 1
        /\ UNCHANGED <<dpc, region, i, ret, fds, mem, size_max, offset_map, sparse, position, synth, begun, taken>>
     \/ Leave(-1, All, {"region", "buf_write", "time_op"}) /\ UNCHANGED fault

\* lseek, and the line of the synthesis; then the next size.
data_synthesis ==
  /\ At("msg lines") /\ cpu = Len(region[0])
  /\ \/ /\ synth' = synth \o Line(<<i, 0>>) /\ mem' = mem \ {"buf_write", "time_op"}
        /\ i' = 2 * i /\ Go("msg row")
        /\ History /\ UNCHANGED <<region, cpu, ret, fds, size_max, offset_map, sparse, position, out>>
     \/ Leave(-1, All, {"region", "buf_write", "time_op"}) /\ UNCHANGED fault

msg_record_done == At("msg row") /\ i > MaxSize /\ Leave(0, All, {"region"}) /\ UNCHANGED fault

-----------------------------------------------------------------------------
Daemon ==
  \/ daemon_create_sparse_file \/ sparse_first_row \/ init_region \/ open_device
  \/ trace_driver_read \/ read_failed \/ clean_kernel_buffer \/ next_read
  \/ save_measure \/ mmap_failed \/ lseek_device
  \/ create_regular_file \/ lseek_sparse_failed \/ copy_normal_file \/ copy_failed \/ copy_no_memory \/ record_done
  \/ msg_open_files \/ msg_init_region \/ msg_open_device \/ write_first_row \/ msg_measure
  \/ msg_save_line \/ data_synthesis \/ msg_record_done

Next == Daemon \/ \E c \in Cpus : event(c)

Spec == Init /\ [][Next]_vars
-----------------------------------------------------------------------------
\* The sizes the Msg daemon measures: the powers of 2 up to MaxSize.
Power[n \in 0..MaxSize] == IF n = 0 THEN 1 ELSE 2 * Power[n - 1]
Sizes      == [k \in 1..Cardinality({n \in 0..MaxSize : Power[n] <= MaxSize}) |-> Power[k - 1]]
OfSize(s)  == Header \o Text([n \in 1..BUFF_MEASURE |-> <<s, n>>])

\* A daemon that returns 0 has written every measure it was handed, once, whole
\* and in order, across the pages of the sparse file and the reads; save where a
\* fault made it return 0 early, or a write was cut short.
RecordComplete ==
  dpc = "returned" /\ ret = 0 /\ fault = "none" =>
    IF prog = "trace" THEN out = Header \o Text(taken)
    ELSE /\ out = FlattenSeq([k \in 1..Len(Sizes) |-> OfSize(Sizes[k])])
         /\ synth = Header \o Text([k \in 1..Len(Sizes) |-> <<Sizes[k], 0>>])

\* Nothing is recorded that was measured before the daemon opened the device, and
\* the measures of a cpu are recorded in the order they were made, although the
\* kernel goes on while the rings are emptied and read.
OldDiscarded ==
  prog = "trace" =>
    \A k \in 1..Len(taken) :
      /\ taken[k][2] > begun[taken[k][1]]
      /\ \A m \in 1..(k - 1) : taken[m][1] = taken[k][1] => taken[m][2] < taken[k][2]

\* The text of the sparse file has no hole, ends at offset_map, and never outgrows
\* the file, whose size was fixed before the first read.
TextFits ==
  /\ dpc # "crashed"
  /\ dpc \in {"next", "read", "lseek", "regular"} => offset_map = Len(sparse) /\ NUL \notin Range(sparse)
  /\ Len(sparse) <= size_max + 1

\* Whichever way record_measures is left, nothing stays open or allocated, but for
\* the regular file when the sparse one cannot be read from its start.
CleanUp ==
  dpc = "returned" => mem = {} /\ fds = IF fault = "no seek" THEN {"fl"} ELSE {}
=============================================================================
