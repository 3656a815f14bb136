----------------------------- MODULE BenchDaemon -----------------------------
(***************************************************************************)
(* The programs that measure: the daemons of micro-benchmark_Band and of   *)
(* micro-benchmark_Cache_2CPU, and the mibench program that runs beside    *)
(* the latter.  The daemons create one thread for each channel; the        *)
(* threads set up their device, wait for one another on the condition      *)
(* queue_full and copy.  The Band daemon (prog "band") makes a benchmark   *)
(* with each of its three thread functions, of several rounds each, the    *)
(* first of them to warm the cache; the Cache daemon ("cache") makes one,  *)
(* and copies until a key is pressed; mibench ("mibench") runs its tests   *)
(* in one thread that waits for nobody.                                    *)
(*                                                                         *)
(* A section under queue_lock is one step: only a thread that is cancelled *)
(* inside pthread_cond_wait keeps the lock, as there is no clean-up        *)
(* handler.  A cancelled thread dies at its next cancellation point.       *)
(***************************************************************************)
EXTENDS Integers, Sequences, FiniteSets

CONSTANTS
  N_CHAN,                 \* threads of a daemon
  Programs,               \* which programs are run
  Rounds,                 \* of a benchmark of the Band daemon, the warm-up included
  NOps                    \* passes of a Band thread in a round

ASSUME DaemonAssumption ==
  /\ N_CHAN \in Nat \ {0} /\ {Rounds, NOps} \subseteq Nat \ {0}
  /\ Programs \subseteq {"band", "cache", "mibench"}

VARIABLES
  prog,
  mpc, j, round,          \* the main thread: its place, its loop index, and how many
                          \* rounds of the benchmark it has begun
  func_copy,              \* the function of the threads
  ret,                    \* what start_micro_benchmark or init_test returns
  region,                 \* region_mem or mi_state.results: "none", "alive" or "freed"
  count_queue, end_pthread,
  lock,                   \* queue_lock: "free", or "dead" with an owner that died
  tpc, state_thread,      \* of each thread; "none" and "dead" are no thread
  woken, cancelled,       \* threads that cond_wait lets go; threads to be cancelled
  ops,                    \* calls of read and write, or tests, the thread has made
  opened, pinned,         \* threads whose device is open, whose pages are pinned
  spurious                \* (history) threads of the round that no broadcast let go

main    == <<mpc, j, round, func_copy, ret, region>>
shared  == <<count_queue, end_pthread, lock>>
threads == <<tpc, state_thread, woken, cancelled, ops, opened, pinned, spurious>>
vars    == <<prog, main, shared, threads>>

Threads == IF prog = "mibench" THEN {0} ELSE 0..(N_CHAN - 1)
Gone(t) == tpc[t] \in {"none", "end", "dead"}

Init ==
  /\ prog \in Programs
  /\ mpc = "main" /\ j = 0 /\ round = 0 /\ func_copy = "none" /\ ret = 0 /\ region = "none"
  /\ count_queue = 0 /\ end_pthread = FALSE /\ lock = "free"
  /\ tpc = [t \in 0..(N_CHAN - 1) |-> "none"]
  /\ state_thread = [t \in 0..(N_CHAN - 1) |-> "INIT"]
  /\ woken = {} /\ cancelled = {} /\ opened = {} /\ pinned = {}
  /\ spurious = {}
  /\ ops = [t \in 0..(N_CHAN - 1) |-> 0]

-----------------------------------------------------------------------------
(* main.                                                                   *)

\* The arguments are checked.
band_main ==
  /\ prog = "band" /\ mpc = "main"
  /\ \/ mpc' = "start" /\ func_copy' = "from"
     \/ mpc' = "exit" /\ UNCHANGED func_copy
  /\ UNCHANGED <<prog, j, round, ret, region, shared, threads>>

cache_main ==
  /\ prog = "cache" /\ mpc = "main"
  /\ \/ mpc' = "start" /\ func_copy' \in {"from", "to", "from_to"}
     \/ mpc' = "exit" /\ UNCHANGED func_copy
  /\ UNCHANGED <<prog, j, round, ret, region, shared, threads>>

\* The two files are opened, the results allocated.
mibench_main ==
  /\ prog = "mibench" /\ mpc = "main"
  /\ \/ mpc' = "start" /\ region' = "alive"
     \/ mpc' = "exit" /\ UNCHANGED region
  /\ UNCHANGED <<prog, j, round, func_copy, ret, shared, threads>>

\* The Band daemon goes on to its next benchmark unless the value is negative; a
\* positive one passes for success, and what happens beside threads that a failed
\* benchmark has left behind is not followed ("goes on").
NextCopy == [from |-> "to", to |-> "from_to"]
band_returned ==
  /\ prog = "band" /\ mpc = "returned"
  /\ IF ret >= 0 /\ func_copy # "from_to"
     THEN /\ func_copy' = NextCopy[func_copy]
          /\ mpc' = IF \A t \in Threads : Gone(t) THEN "start" ELSE "goes on"
     ELSE mpc' = "exit" /\ UNCHANGED func_copy
  /\ UNCHANGED <<prog, j, round, ret, region, shared, threads>>

cache_returned ==
  /\ prog = "cache" /\ mpc = "returned"
  /\ mpc' = "exit"
  /\ UNCHANGED <<prog, j, round, func_copy, ret, region, shared, threads>>

mibench_returned ==
  /\ prog = "mibench" /\ mpc = "returned"
  /\ mpc' = "exit" /\ region' = "freed"
  /\ UNCHANGED <<prog, j, round, func_copy, ret, shared, threads>>

-----------------------------------------------------------------------------
(* start_micro_benchmark of the two daemons.                               *)

\* The file of the Band daemon, the attribute, the lock, the condition and the
\* memory.  Failing calls of pthread return a positive number.
Prepare ==
  /\ mpc = "start" /\ round' = 0
  /\ \/ mpc' = "round" /\ region' = "alive" /\ lock' = "free" /\ UNCHANGED ret
     \/ mpc' = "returned" /\ ret' \in {-1, 1} /\ UNCHANGED <<region, lock>>
  /\ UNCHANGED <<prog, j, func_copy, count_queue, end_pthread, threads>>

\* A round begins with nobody in the queue.
begin_round_KeepsCount ==
  /\ mpc = "round"
  /\ end_pthread' = FALSE
  /\ round' = round + 1 /\ j' = 0 /\ mpc' = "create"
  /\ spurious' = {}
  /\ UNCHANGED <<prog, func_copy, ret, region, count_queue, lock, tpc, state_thread, woken, cancelled,
                 ops, opened, pinned>>
begin_round ==
  /\ mpc = "round"
  /\ count_queue' = 0 /\ end_pthread' = FALSE
  /\ round' = round + 1 /\ j' = 0 /\ mpc' = "create"
  /\ spurious' = {}
  /\ UNCHANGED <<prog, func_copy, ret, region, lock, tpc, state_thread, woken, cancelled, ops,
                 opened, pinned>>

create ==
  /\ mpc = "create" /\ j \in Threads
  /\ tpc' = [tpc EXCEPT ![j] = "setup"]
  /\ state_thread' = [state_thread EXCEPT ![j] = "INIT"]
  /\ ops' = [ops EXCEPT ![j] = 0]
  /\ j' = j + 1
  /\ UNCHANGED <<prog, mpc, round, func_copy, ret, region, shared, woken, cancelled, opened, pinned, spurious>>

\* The roll-back, for( ; j <= 0 ; --j), cancels nothing when two or more threads
\* exist, and runs off the front of th_data when there are fewer, which ends the
\* process.
create_failed ==
  /\ mpc = "create" /\ j \in Threads
  /\ IF j <= 1
     THEN mpc' = "crashed" /\ UNCHANGED <<ret, region>>
     ELSE mpc' = "returned" /\ ret' = 1 /\ region' = "freed"
  /\ UNCHANGED <<prog, j, round, func_copy, shared, threads>>

\* All threads exist.
Created == mpc = "create" /\ j \notin Threads

band_created ==
  /\ Created
  /\ mpc' = "join" /\ j' = 0
  /\ UNCHANGED <<prog, round, func_copy, ret, region, shared, threads>>

\* The Cache daemon waits for a key and tells its threads to end.
getchar ==
  /\ Created
  /\ end_pthread' = TRUE
  /\ mpc' = "join" /\ j' = 0
  /\ UNCHANGED <<prog, round, func_copy, ret, region, count_queue, lock, threads>>

Joined == mpc = "join" /\ j \in Threads /\ Gone(j)

\* The thread is OK, and the Band daemon writes its line.
join_Anyhow ==
  /\ Joined
  /\ j' = j + 1
  /\ UNCHANGED <<prog, mpc, round, func_copy, ret, region, shared, threads>>
join ==
  /\ Joined /\ state_thread[j] = "OK"
  /\ j' = j + 1
  /\ UNCHANGED <<prog, mpc, round, func_copy, ret, region, shared, threads>>

\* The thread has failed, or its line cannot be written: the later threads are
\* cancelled, and not waited for.
NoLine == prog = "band" /\ round > 1
join_failed ==
  /\ Joined /\ (state_thread[j] # "OK" \/ NoLine)
  /\ cancelled' = cancelled \union {t \in Threads : t > j /\ ~Gone(t)}
  /\ ret' = -1 /\ region' = "freed" /\ mpc' = "returned"
  /\ UNCHANGED <<prog, j, round, func_copy, shared, tpc, state_thread, woken, ops, opened, pinned, spurious>>

AllJoined == mpc = "join" /\ j \notin Threads

next_round ==
  /\ AllJoined /\ round < Rounds
  /\ mpc' = "round"
  /\ UNCHANGED <<prog, j, round, func_copy, ret, region, shared, threads>>

Finish ==
  /\ AllJoined
  /\ mpc' = "returned" /\ ret' = 0 /\ region' = "freed"
  /\ UNCHANGED <<prog, j, round, func_copy, shared, threads>>

Create == create \/ create_failed
Join   == join \/ join_failed

band_prepare == prog = "band" /\ Prepare
band_create  == prog = "band" /\ (begin_round \/ Create \/ band_created)
band_join    == prog = "band" /\ (Join \/ next_round)
band_finish  == prog = "band" /\ round = Rounds /\ Finish

cache_prepare == prog = "cache" /\ Prepare
cache_create  == prog = "cache" /\ (begin_round \/ Create \/ getchar)
cache_join    == prog = "cache" /\ (Join \/ Finish)

\* init_test of mibench: one thread, joined at once; that it failed is forgotten.
init_test ==
  /\ prog = "mibench"
  /\ \/ /\ mpc = "start"
        /\ mpc' = "join" /\ ret' = 0
        /\ tpc' = [tpc EXCEPT ![0] = "setup"]
     \/ /\ mpc = "start"
        /\ mpc' = "returned" /\ ret' = 1
        /\ UNCHANGED tpc
     \/ /\ Joined
        /\ mpc' = "returned"
        /\ UNCHANGED <<ret, tpc>>
  /\ UNCHANGED <<prog, j, round, func_copy, region, shared, state_thread, woken, cancelled, ops, opened, pinned, spurious>>

-----------------------------------------------------------------------------
(* The threads.                                                            *)

Alive      == mpc \notin {"exit", "crashed", "goes on"}
At(t, pc)  == Alive /\ tpc[t] = pc
Go(t, pc)  == tpc' = [tpc EXCEPT ![t] = pc]
End(t, st) == Go(t, "end") /\ state_thread' = [state_thread EXCEPT ![t] = st]

\* The affinity is set and the device opened.
open(t) ==
  /\ At(t, "setup") /\ Go(t, IF prog = "band" THEN "load" ELSE "queue")
  /\ opened' = opened \union {t}
  /\ UNCHANGED <<prog, main, shared, state_thread, woken, cancelled, ops, pinned, spurious>>

open_failed(t) ==
  /\ At(t, "setup") /\ End(t, "FAIL")
  /\ UNCHANGED <<prog, main, shared, woken, cancelled, ops, opened, pinned, spurious>>

\* ioctl MB_LOAD, which pins the pages of the buffer.
load(t) ==
  /\ At(t, "load") /\ Go(t, "queue")
  /\ pinned' = pinned \union {t}
  /\ UNCHANGED <<prog, main, shared, state_thread, woken, cancelled, ops, opened, spurious>>

load_failed(t) ==
  /\ At(t, "load") /\ End(t, "FAIL")
  /\ opened' = opened \ {t}
  /\ UNCHANGED <<prog, main, shared, woken, cancelled, ops, pinned, spurious>>

\* The last thread to arrive wakes the others ...
LastOne_Early == count_queue + 1 >= N_CHAN - 1
LastOne == count_queue + 1 = N_CHAN

broadcast(t) ==
  /\ At(t, "queue") /\ lock = "free" /\ LastOne
  /\ count_queue' = count_queue + 1
  /\ woken' = woken \union {u \in Threads : tpc[u] = "wait"}
  /\ Go(t, "copy")
  /\ UNCHANGED <<prog, main, end_pthread, lock, state_thread, cancelled, ops, opened, pinned, spurious>>

\* ... which wait, once.
cond_wait(t) ==
  /\ At(t, "queue") /\ lock = "free" /\ ~LastOne
  /\ count_queue' = count_queue + 1
  /\ Go(t, "wait")
  /\ UNCHANGED <<prog, main, end_pthread, lock, state_thread, woken, cancelled, ops, opened, pinned, spurious>>

wake(t) ==
  /\ At(t, "wait") /\ lock = "free" /\ t \in woken
  /\ woken' = woken \ {t}
  /\ Go(t, "copy")
  /\ UNCHANGED <<prog, main, shared, state_thread, cancelled, ops, opened, pinned, spurious>>

\* pthread_cond_wait may return although nobody woke the thread, and there is no
\* loop round it.
spurious_wake(t) ==
  /\ At(t, "wait") /\ lock = "free" /\ t \notin woken
  /\ spurious' = spurious \union {t}
  /\ Go(t, "copy")
  /\ UNCHANGED <<prog, main, shared, state_thread, woken, cancelled, ops, opened, pinned>>

\* A pass of the loop makes n calls, a read, a write or a read and a write.  A
\* Band thread makes n_op passes; a Cache thread goes on until it finds
\* end_pthread at the beginning of a pass, and the place in the pass is all that
\* is kept of its calls.
More(t, n) == IF prog = "band" THEN ops[t] < n * NOps ELSE ops[t] > 0 \/ ~end_pthread
copy(t, n) ==
  /\ At(t, "copy") /\ More(t, n)
  /\ ops' = [ops EXCEPT ![t] = IF prog = "band" THEN @ + 1 ELSE (@ + 1) % n]
  /\ UNCHANGED <<prog, main, shared, tpc, state_thread, woken, cancelled, opened, pinned, spurious>>

copy_failed(t, n) ==
  /\ At(t, "copy") /\ More(t, n)
  /\ Go(t, IF prog = "band" THEN "unload after failure" ELSE "close after failure")
  /\ UNCHANGED <<prog, main, shared, state_thread, woken, cancelled, ops, opened, pinned, spurious>>

copied(t, n) ==
  /\ At(t, "copy") /\ ~More(t, n)
  /\ Go(t, IF prog = "band" THEN "unload" ELSE "close")
  /\ UNCHANGED <<prog, main, shared, state_thread, woken, cancelled, ops, opened, pinned, spurious>>

\* ioctl MB_UNLOAD, which unpins; it can only fail to read its argument, which is
\* on the stack of the thread.
unload_OnlyOk(t) ==
  /\ tpc[t] \in {"unload", "unload after failure"} /\ Alive
  /\ pinned' = IF tpc[t] = "unload" THEN pinned \ {t} ELSE pinned
  /\ Go(t, IF tpc[t] = "unload" THEN "close" ELSE "close after failure")
  /\ UNCHANGED <<prog, main, shared, state_thread, woken, cancelled, ops, opened, spurious>>
unload(t) ==
  /\ tpc[t] \in {"unload", "unload after failure"} /\ Alive
  /\ pinned' = pinned \ {t}
  /\ Go(t, IF tpc[t] = "unload" THEN "close" ELSE "close after failure")
  /\ UNCHANGED <<prog, main, shared, state_thread, woken, cancelled, ops, opened, spurious>>

close(t) ==
  /\ tpc[t] \in {"close", "close after failure"} /\ Alive
  /\ opened' = opened \ {t}
  /\ End(t, IF tpc[t] = "close" THEN "OK" ELSE "FAIL")
  /\ UNCHANGED <<prog, main, shared, woken, cancelled, ops, pinned, spurious>>

\* A cancelled thread dies where it opens, waits, copies or closes, with its
\* device open and its pages pinned; inside pthread_cond_wait it takes the lock
\* first, and keeps it.
pthread_cancel(t) ==
  /\ Alive /\ t \in cancelled
  /\ tpc[t] \in {"setup", "wait", "copy", "close", "close after failure"}
  /\ tpc[t] = "wait" => lock = "free"
  /\ lock' = IF tpc[t] = "wait" THEN "dead" ELSE lock
  /\ Go(t, "dead") /\ cancelled' = cancelled \ {t}
  /\ UNCHANGED <<prog, main, count_queue, end_pthread, state_thread, woken, ops, opened, pinned, spurious>>

Meet(t)    == broadcast(t) \/ cond_wait(t) \/ wake(t)
Loop(t, n) == copy(t, n) \/ copy_failed(t, n) \/ copied(t, n)

Runs(p, f) == prog = p /\ func_copy = f
BandThread(t, n) ==
  \/ open(t) \/ open_failed(t) \/ load(t) \/ load_failed(t)
  \/ Meet(t) \/ Loop(t, n) \/ unload(t) \/ close(t)
CacheThread(t, n) ==
  \/ open(t) \/ open_failed(t) \/ Meet(t) \/ Loop(t, n) \/ close(t)

band_start_thread_from(t)     == Runs("band", "from") /\ BandThread(t, 1)
band_start_thread_to(t)       == Runs("band", "to") /\ BandThread(t, 1)
band_start_thread_from_to(t)  == Runs("band", "from_to") /\ BandThread(t, 2)
cache_start_thread_from(t)    == Runs("cache", "from") /\ CacheThread(t, 1)
cache_start_thread_to(t)      == Runs("cache", "to") /\ CacheThread(t, 1)
cache_start_thread_from_to(t) == Runs("cache", "from_to") /\ CacheThread(t, 2)

-----------------------------------------------------------------------------
(* The thread of mibench.                                                  *)

Mibench(t, pc) == prog = "mibench" /\ At(t, pc)

\* The affinity is set; start_measure writes the first rows of the files.
start_measure_th(t) ==
  /\ Mibench(t, "setup")
  /\ \/ Go(t, "tests") /\ UNCHANGED state_thread
     \/ End(t, "FAIL")
  /\ UNCHANGED <<prog, main, shared, woken, cancelled, ops, opened, pinned, spurious>>

\* A test runs its program, writes its lines and their synthesis, or fails, and
\* then the tests after it are not run.
Test(t, from, to) ==
  /\ Mibench(t, "tests") /\ ops[t] \in from..to
  /\ \/ ops' = [ops EXCEPT ![t] = @ + 1] /\ UNCHANGED <<tpc, state_thread>>
     \/ End(t, "FAIL") /\ UNCHANGED ops
  /\ UNCHANGED <<prog, main, shared, woken, cancelled, opened, pinned, spurious>>

\* Nine tests with susan, then one with each qsort.
start_test_susan(t)   == Test(t, 0, 8)
start_test_qsort_s(t) == Test(t, 9, 9)
start_test_qsort_l(t) == Test(t, 10, 10)

tests_done(t) ==
  /\ Mibench(t, "tests") /\ ops[t] = 11
  /\ End(t, "OK")
  /\ UNCHANGED <<prog, main, shared, woken, cancelled, ops, opened, pinned, spurious>>

start_measure(t) ==
  start_test_susan(t) \/ start_test_qsort_s(t) \/ start_test_qsort_l(t) \/ tests_done(t)

-----------------------------------------------------------------------------
Main ==
  \/ band_main \/ band_prepare \/ band_create \/ band_join \/ band_finish \/ band_returned
  \/ cache_main \/ cache_prepare \/ cache_create \/ cache_join \/ cache_returned
  \/ mibench_main \/ init_test \/ mibench_returned

Thread(t) ==
  \/ band_start_thread_from(t) \/ band_start_thread_to(t) \/ band_start_thread_from_to(t)
  \/ cache_start_thread_from(t) \/ cache_start_thread_to(t) \/ cache_start_thread_from_to(t)
  \/ start_measure_th(t) \/ start_measure(t)
  \/ pthread_cancel(t)

Next == Main \/ \E t \in Threads : Thread(t) \/ spurious_wake(t)

Spec == Init /\ [][Next]_vars

\* The threads of a process are scheduled, and somebody presses a key; no wait need
\* ever return spuriously.
FairSpec == Spec /\ WF_vars(Main) /\ \A t \in 0..(N_CHAN - 1) : WF_vars(t \in Threads /\ Thread(t))

-----------------------------------------------------------------------------
Arrived(t) == tpc[t] \in {"wait", "copy", "unload", "unload after failure", "close",
                          "close after failure", "end", "dead"}
Copying(t) == tpc[t] \in {"copy", "unload", "unload after failure", "close", "close after failure"}

\* The threads of a daemon start together: none that a broadcast let go copies
\* before the last of its round has arrived, in the second and later rounds too.
\* A wait that returns spuriously lets its own thread start early, and no other.
StartTogether ==
  prog # "mibench" =>
    \A t \in Threads \ spurious :
      Copying(t) => count_queue = N_CHAN /\ \A u \in Threads : Arrived(u)

\* A thread that has come to its end, on whatever path, has closed its device and
\* unpinned its pages.
ThreadsCleanUp ==
  \A t \in Threads : tpc[t] = "end" => t \notin opened \union pinned

\* Every thread of a daemon's round has ended and made its copies before the next
\* round reuses the queue, the buffers and the records, and before the benchmark
\* frees the memory and returns 0; mibench never frees results its thread may still
\* write.
RoundsComplete ==
  /\ prog # "mibench" /\ ((mpc = "round" /\ round > 0) \/ (mpc = "returned" /\ ret = 0)) =>
       \A t \in Threads : Gone(t) /\ state_thread[t] = "OK"
  /\ prog = "mibench" /\ region = "freed" => Gone(0)

\* The main thread joins a thread that waits, and nobody is left to wake it: the
\* others wait too, or have ended, one of them before it was counted.
Stuck ==
  /\ mpc = "join" /\ j \in Threads /\ tpc[j] = "wait"
  /\ woken = {} /\ count_queue < N_CHAN
  /\ \A t \in Threads : tpc[t] \in {"wait", "end"}
  /\ \E t \in Threads : t > j /\ tpc[t] = "end" /\ state_thread[t] = "FAIL"

\* The main thread comes to its exit, whichever copies fail and whichever waits
\* return spuriously, or is stuck, which takes a thread that failed before it was
\* counted, after one that waits.  Nothing is claimed once pthread_create has
\* failed and the roll-back has crashed or has left threads to a next benchmark.
MainExits == [](mpc \notin {"crashed", "goes on"}) => <>(mpc = "exit" \/ Stuck)
=============================================================================
