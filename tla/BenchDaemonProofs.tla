-------------------------- MODULE BenchDaemonProofs --------------------------
(***************************************************************************)
(* Proofs about BenchDaemon, for any number of threads, rounds and passes: *)
(* the threads of a daemon start together, clean up, and are over before   *)
(* what they use is used again.                                            *)
(***************************************************************************)
EXTENDS BenchDaemon, FiniteSetTheorems, TLAPS

Chans    == 0..(N_CHAN - 1)
MPlaces  == {"main", "start", "round", "create", "join", "returned", "exit", "crashed", "goes on"}
TPlaces  == {"none", "setup", "load", "queue", "wait", "copy", "unload", "unload after failure",
             "close", "close after failure", "tests", "end", "dead"}

\* Types; mibench has no loop over threads.
TypeInv ==
  /\ prog \in Programs /\ mpc \in MPlaces /\ j \in 0..N_CHAN /\ round \in Nat /\ ret \in {-1, 0, 1}
  /\ count_queue \in Nat
  /\ tpc \in [Chans -> TPlaces] /\ state_thread \in [Chans -> {"INIT", "OK", "FAIL"}]
  /\ prog = "mibench" => j = 0 /\ mpc \in {"main", "start", "join", "returned", "exit"}

\* From the creation of the first thread of a round to that of the last, and when
\* the creation fails, the threads from j on are those of an earlier round.
Creating == mpc \in {"main", "start", "round", "create"} \/ (mpc = "returned" /\ ret # -1)
Cancelling == ret = -1 /\ mpc \in {"returned", "exit"}

\* Which threads are over, by the place of the main thread; only a benchmark that
\* fails cancels threads, and it is the last.
GoneInv ==
  /\ mpc \in {"main", "start", "round"} \/ (mpc = "returned" /\ ret = 0) => \A t \in Threads : Gone(t)
  /\ Creating => \A t \in Threads : t >= j => Gone(t)
  /\ mpc = "join" => \A t \in Threads : t < j => Gone(t)
  /\ (\E t \in Chans : tpc[t] = "dead") \/ cancelled # {} => Cancelling

\* A device is open, and pages are pinned, only where a thread still needs them.
HasDevice == {"load", "queue", "wait", "copy", "unload", "unload after failure",
              "close", "close after failure", "dead"}
HasPages  == {"queue", "wait", "copy", "unload", "unload after failure", "dead"}
CleanInv ==
  /\ opened \subseteq {t \in Chans : tpc[t] \in HasDevice}
  /\ pinned \subseteq {t \in Chans : tpc[t] \in HasPages}
  /\ prog # "band" => pinned = {}

\* Those in the queue have arrived, and nobody is past it before
\* all have but by a wait that returned spuriously.
Queued == {t \in Threads : Arrived(t) /\ (Creating => t < j)}
QueueInv ==
  prog # "mibench" =>
    /\ woken \subseteq {t \in Chans : tpc[t] \in {"wait", "dead"}}
    /\ count_queue <= Cardinality(Queued)
    /\ woken # {} \/ (\E t \in Threads \ spurious : Copying(t)) => count_queue = N_CHAN

\* The threads that were joined are those that were right.
JoinInv ==
  prog # "mibench" =>
    /\ (mpc = "round" /\ round > 0) \/ (mpc = "returned" /\ ret = 0) => \A t \in Threads : state_thread[t] = "OK"
    /\ mpc = "join" => \A t \in Threads : t < j => state_thread[t] = "OK"

-----------------------------------------------------------------------------
(* The steps.                                                              *)

\* The threads of a program.
LEMMA ThreadsFacts ==
  /\ N_CHAN \in Nat \ {0} /\ Chans \subseteq Nat /\ 0 \in Chans /\ Threads \subseteq Chans
  /\ prog # "mibench" => Threads = Chans
  /\ prog = "mibench" => Threads = {0}
  /\ IsFiniteSet(Chans) /\ Cardinality(Chans) = N_CHAN
  <1>1. N_CHAN \in Nat \ {0} /\ Chans \subseteq Nat /\ 0 \in Chans
    BY DaemonAssumption DEF Chans
  <1>2. /\ Threads \subseteq Chans
        /\ prog # "mibench" => Threads = Chans
        /\ prog = "mibench" => Threads = {0}
    BY <1>1 DEF Threads, Chans
  <1>3. IsFiniteSet(0..(N_CHAN - 1)) /\ Cardinality(0..(N_CHAN - 1)) = N_CHAN
    BY <1>1, FS_Interval
  <1> QED BY <1>1, <1>2, <1>3 DEF Chans

\* What the main thread may do.
LEMMA MainSteps ==
  ASSUME Main
  PROVE  \/ band_main \/ cache_main \/ mibench_main
         \/ band_returned \/ cache_returned \/ mibench_returned \/ init_test
         \/ prog # "mibench" /\ \/ Prepare \/ begin_round \/ create \/ create_failed
                                \/ band_created \/ getchar \/ join \/ join_failed
                                \/ next_round \/ Finish
  BY DEF Main, band_prepare, band_create, band_join, band_finish, cache_prepare, cache_create,
         cache_join, Create, Join

\* What a thread of a daemon may do, and what the thread of mibench.
Copies(t) == \E n \in {1, 2} : copy(t, n) \/ copy_failed(t, n) \/ copied(t, n)
TakesStep(t) == Thread(t) \/ spurious_wake(t)
LEMMA ThreadCases ==
  ASSUME NEW t, TakesStep(t)
  PROVE  \/ open(t) \/ open_failed(t) \/ (prog = "band" /\ load(t)) \/ load_failed(t)
         \/ prog # "mibench" /\ (broadcast(t) \/ cond_wait(t) \/ wake(t))
         \/ spurious_wake(t)
         \/ Copies(t) \/ unload(t) \/ close(t) \/ pthread_cancel(t)
         \/ start_measure_th(t) \/ start_measure(t)
  <1>1. CASE prog = "band" /\ \E n \in {1, 2} : BandThread(t, n)
    BY <1>1 DEF BandThread, Meet, Loop, Copies
  <1>2. CASE prog = "cache" /\ \E n \in {1, 2} : CacheThread(t, n)
    BY <1>2 DEF CacheThread, Meet, Loop, Copies
  <1>3. CASE start_measure_th(t) \/ start_measure(t) \/ pthread_cancel(t) \/ spurious_wake(t)
    BY <1>3
  <1> QED BY <1>1, <1>2, <1>3
          DEF TakesStep, Thread, Runs, band_start_thread_from, band_start_thread_to, band_start_thread_from_to,
              cache_start_thread_from, cache_start_thread_to, cache_start_thread_from_to

\* A step of one thread.
LEMMA ThreadSteps ==
  ASSUME TypeInv, NEW t \in Threads, TakesStep(t)
  PROVE  /\ UNCHANGED <<prog, main>> /\ Alive /\ ~Gone(t) /\ count_queue' \in Nat
         /\ tpc' \in [Chans -> TPlaces] /\ state_thread' \in [Chans -> {"INIT", "OK", "FAIL"}]
         /\ \A u \in Chans : u # t => tpc'[u] = tpc[u] /\ state_thread'[u] = state_thread[u]
         /\ cancelled' \subseteq cancelled /\ (tpc'[t] = "dead" => t \in cancelled)
  <1>1. t \in Chans /\ tpc[t] \in TPlaces
    BY ThreadsFacts DEF TypeInv
  <1>2. ASSUME NEW s \in TPlaces, Go(t, s), s # "dead" \/ t \in cancelled,
               UNCHANGED <<prog, main>>, Alive, ~Gone(t), count_queue' \in {count_queue, count_queue + 1},
               cancelled' \subseteq cancelled,
               state_thread' = state_thread \/ \E v \in {"OK", "FAIL"} : state_thread' = [state_thread EXCEPT ![t] = v]
        PROVE  /\ UNCHANGED <<prog, main>> /\ Alive /\ ~Gone(t) /\ count_queue' \in Nat
               /\ tpc' \in [Chans -> TPlaces] /\ state_thread' \in [Chans -> {"INIT", "OK", "FAIL"}]
               /\ \A u \in Chans : u # t => tpc'[u] = tpc[u] /\ state_thread'[u] = state_thread[u]
               /\ cancelled' \subseteq cancelled /\ (tpc'[t] = "dead" => t \in cancelled)
    <2>1. tpc' \in [Chans -> TPlaces] /\ tpc'[t] = s /\ \A u \in Chans : u # t => tpc'[u] = tpc[u]
      BY <1>1, <1>2 DEF Go, TypeInv
    <2>2. /\ state_thread' \in [Chans -> {"INIT", "OK", "FAIL"}]
          /\ \A u \in Chans : u # t => state_thread'[u] = state_thread[u]
      BY <1>1, <1>2 DEF TypeInv
    <2> QED BY <1>2, <2>1, <2>2 DEF TypeInv
  <1>3. CASE \/ open(t) \/ open_failed(t) \/ load(t) \/ load_failed(t)
    <2>1. /\ UNCHANGED <<prog, main, count_queue, cancelled>> /\ Alive /\ ~Gone(t)
          /\ \E s \in {"load", "queue", "end"} : Go(t, s)
          /\ state_thread' = state_thread \/ \E v \in {"OK", "FAIL"} : state_thread' = [state_thread EXCEPT ![t] = v]
      BY <1>3 DEF open, open_failed, load, load_failed, At, End, Gone, shared
    <2> QED BY <1>2, <2>1 DEF TPlaces
  <1>4. CASE broadcast(t) \/ cond_wait(t) \/ wake(t) \/ spurious_wake(t)
    <2>1. /\ UNCHANGED <<prog, main, state_thread, cancelled>> /\ Alive /\ ~Gone(t)
          /\ \E s \in {"wait", "copy"} : Go(t, s)
          /\ count_queue' \in {count_queue, count_queue + 1}
      BY <1>4 DEF broadcast, cond_wait, wake, spurious_wake, At, Gone, shared
    <2> QED BY <1>2, <2>1 DEF TPlaces
  <1>5. CASE Copies(t)
    <2>1. PICK n \in {1, 2} : copy(t, n) \/ copy_failed(t, n) \/ copied(t, n)
      BY <1>5 DEF Copies
    <2>2. CASE copy(t, n)
      <3>1. UNCHANGED <<prog, main, count_queue, tpc, state_thread, cancelled>> /\ Alive /\ tpc[t] = "copy"
        BY <2>2 DEF copy, At, shared
      <3> QED BY <1>1, <3>1 DEF TypeInv, Gone
    <2>3. CASE copy_failed(t, n) \/ copied(t, n)
      <3>1. /\ UNCHANGED <<prog, main, count_queue, state_thread, cancelled>> /\ Alive /\ ~Gone(t)
            /\ \E s \in {"unload after failure", "close after failure", "unload", "close"} : Go(t, s)
        BY <2>3 DEF copy_failed, copied, At, Gone, shared
      <3> QED BY <1>2, <3>1 DEF TPlaces
    <2> QED BY <2>1, <2>2, <2>3
  <1>6. CASE unload(t) \/ close(t)
    <2>1. /\ UNCHANGED <<prog, main, count_queue, cancelled>> /\ Alive /\ ~Gone(t)
          /\ \E s \in {"close after failure", "close", "end"} : Go(t, s)
          /\ state_thread' = state_thread \/ \E v \in {"OK", "FAIL"} : state_thread' = [state_thread EXCEPT ![t] = v]
      BY <1>6 DEF unload, close, End, Gone, shared
    <2> QED BY <1>2, <2>1 DEF TPlaces
  <1>7. CASE pthread_cancel(t)
    <2>1. /\ UNCHANGED <<prog, main, count_queue, state_thread>> /\ Alive /\ ~Gone(t) /\ Go(t, "dead")
          /\ t \in cancelled /\ cancelled' \subseteq cancelled
      BY <1>7 DEF pthread_cancel, Gone
    <2> QED BY <1>2, <2>1 DEF TPlaces
  <1>8. CASE start_measure_th(t) \/ start_measure(t)
    <2>1. /\ UNCHANGED <<prog, main, count_queue, cancelled>> /\ Alive /\ tpc[t] \in {"setup", "tests"}
          /\ \/ UNCHANGED <<tpc, state_thread>>
             \/ /\ \E s \in {"tests", "end"} : Go(t, s)
                /\ state_thread' = state_thread \/ \E v \in {"OK", "FAIL"} : state_thread' = [state_thread EXCEPT ![t] = v]
      BY <1>8 DEF start_measure_th, start_measure, start_test_susan, start_test_qsort_s, start_test_qsort_l,
                  tests_done, Test, Mibench, At, End, shared
    <2>2. ~Gone(t)
      BY <2>1 DEF Gone
    <2>3. CASE UNCHANGED <<tpc, state_thread>>
      BY <1>1, <2>1, <2>2, <2>3 DEF TypeInv
    <2> QED BY <1>2, <2>1, <2>2, <2>3 DEF TPlaces
  <1> QED BY <1>3, <1>4, <1>5, <1>6, <1>7, <1>8, ThreadCases

\* A thread that is over stays so.
LEMMA GoneStays ==
  ASSUME TypeInv, NEW t \in Threads, TakesStep(t)
  PROVE  \A u \in Threads : Gone(u) => Gone(u)' /\ state_thread'[u] = state_thread[u]
  BY ThreadSteps, ThreadsFacts DEF Gone

-----------------------------------------------------------------------------
(* Types, and which threads are over.                                      *)

\* Every step keeps the types.
LEMMA TypeStep ==
  ASSUME TypeInv, [Next]_vars
  PROVE  TypeInv'
  <1> USE ThreadsFacts
  <1>1. ASSUME NEW t \in Threads, TakesStep(t) PROVE TypeInv'
    BY <1>1, ThreadSteps DEF TypeInv, main
  <1>2. ASSUME UNCHANGED <<prog, count_queue, tpc, state_thread>>, mpc' \in MPlaces, j' \in 0..N_CHAN,
               round' \in Nat, ret' \in {-1, 0, 1},
               prog = "mibench" => j' = 0 /\ mpc' \in {"main", "start", "join", "returned", "exit"}
        PROVE  TypeInv'
    BY <1>2 DEF TypeInv
  <1>3. CASE band_main \/ cache_main \/ mibench_main
    <2>1. UNCHANGED <<prog, j, round, ret, count_queue, tpc, state_thread>> /\ mpc' \in {"start", "exit"}
      BY <1>3 DEF band_main, cache_main, mibench_main, shared, threads
    <2> QED BY <1>2, <2>1 DEF TypeInv, MPlaces
  <1>4. CASE band_returned \/ cache_returned \/ mibench_returned
    <2>1. /\ UNCHANGED <<prog, j, round, ret, count_queue, tpc, state_thread>>
          /\ mpc' \in {"start", "exit", "goes on"} /\ (prog = "mibench" => mpc' = "exit")
      BY <1>4 DEF band_returned, cache_returned, mibench_returned, shared, threads
    <2> QED BY <1>2, <2>1 DEF TypeInv, MPlaces
  <1>5. CASE init_test
    <2>1. /\ UNCHANGED <<prog, j, round, count_queue, state_thread>> /\ prog = "mibench"
          /\ mpc' \in {"join", "returned"} /\ ret' \in {ret, 0, 1}
          /\ tpc' = tpc \/ tpc' = [tpc EXCEPT ![0] = "setup"]
      BY <1>5 DEF init_test, shared
    <2>2. tpc' \in [Chans -> TPlaces]
      BY <2>1 DEF TypeInv, TPlaces
    <2> QED BY <2>1, <2>2 DEF TypeInv, MPlaces
  <1>6. CASE prog # "mibench" /\ (Prepare \/ create_failed \/ join_failed \/ next_round \/ Finish)
    <2>1. /\ UNCHANGED <<prog, j, count_queue, tpc, state_thread>> /\ round' \in {0, round}
          /\ mpc' \in {"round", "returned", "crashed"} /\ ret' \in {ret, -1, 0, 1}
      BY <1>6 DEF Prepare, create_failed, join_failed, next_round, Finish, shared, threads
    <2> QED BY <1>2, <1>6, <2>1 DEF TypeInv, MPlaces
  <1>7. CASE prog # "mibench" /\ (band_created \/ getchar \/ join)
    <2>1. /\ UNCHANGED <<prog, round, ret, count_queue, tpc, state_thread>> /\ mpc' = "join"
          /\ j' = 0 \/ (j' = j + 1 /\ j \in Threads)
      BY <1>7 DEF band_created, getchar, join, Joined, shared, threads
    <2>2. j' \in 0..N_CHAN
      BY <1>7, <2>1 DEF Chans
    <2> QED BY <1>2, <1>7, <2>1, <2>2 DEF TypeInv, MPlaces
  <1>8. CASE prog # "mibench" /\ begin_round
    BY <1>8 DEF begin_round, TypeInv, MPlaces
  <1>9. CASE prog # "mibench" /\ create
    <2>1. /\ j \in Threads /\ tpc' = [tpc EXCEPT ![j] = "setup"]
          /\ state_thread' = [state_thread EXCEPT ![j] = "INIT"] /\ j' = j + 1
          /\ UNCHANGED <<prog, mpc, round, ret, count_queue>>
      BY <1>9 DEF create, shared
    <2>2. j' \in 0..N_CHAN
      BY <1>9, <2>1 DEF Chans
    <2>3. tpc' \in [Chans -> TPlaces] /\ state_thread' \in [Chans -> {"INIT", "OK", "FAIL"}]
      BY <2>1 DEF TypeInv, TPlaces
    <2> QED BY <1>9, <2>1, <2>2, <2>3 DEF TypeInv
  <1>10. CASE UNCHANGED vars
    BY <1>10 DEF vars, main, shared, threads, TypeInv
  <1> QED BY <1>1, <1>3, <1>4, <1>5, <1>6, <1>7, <1>8, <1>9, <1>10, MainSteps DEF Next, TakesStep

\* Every step keeps what is known of the threads that are over.
LEMMA GoneStep ==
  ASSUME TypeInv, GoneInv, [Next]_vars
  PROVE  GoneInv'
  <1> USE ThreadsFacts
  <1>1. ASSUME NEW t \in Threads, TakesStep(t) PROVE GoneInv'
    <2>1. UNCHANGED <<prog, mpc, j, ret>> /\ \A u \in Threads : Gone(u) => Gone(u)'
      BY <1>1, ThreadSteps, GoneStays DEF main
    <2>2. Threads' = Threads /\ (Creating' <=> Creating) /\ (Cancelling' <=> Cancelling)
      BY <2>1 DEF Threads, Creating, Cancelling
    <2>3. (\E u \in Chans : tpc'[u] = "dead") \/ cancelled' # {}
            => (\E u \in Chans : tpc[u] = "dead") \/ cancelled # {}
      BY <1>1, ThreadSteps
    <2> QED BY <2>1, <2>2, <2>3 DEF GoneInv
  <1>2. ASSUME UNCHANGED <<prog, tpc>>, cancelled' = cancelled, Cancelling => Cancelling'
        PROVE  /\ Threads' = Threads /\ \A t : Gone(t)' <=> Gone(t)
               /\ (\E t \in Chans : tpc[t] = "dead")' \/ cancelled' # {} => Cancelling'
    BY <1>2 DEF GoneInv, Threads, Gone
  <1>3. CASE \/ band_main \/ cache_main \/ mibench_main \/ cache_returned \/ mibench_returned
             \/ band_returned
    <2>1. UNCHANGED <<prog, j, ret, tpc, cancelled>> /\ mpc \in {"main", "returned"}
      BY <1>3 DEF band_main, cache_main, mibench_main, cache_returned, mibench_returned, band_returned, threads
    <2>2. \/ mpc' \in {"exit", "goes on"}
          \/ mpc' = "start" /\ mpc = "main"
          \/ mpc' = "start" /\ \A t \in Threads : Gone(t)
      BY <1>3 DEF band_main, cache_main, mibench_main, cache_returned, mibench_returned, band_returned
    <2>3. mpc' # "exit" => ret >= 0 \/ mpc = "main"
      BY <1>3 DEF band_main, cache_main, mibench_main, cache_returned, mibench_returned, band_returned
    <2>4. Cancelling => Cancelling'
      <3>1. Cancelling => ~(ret >= 0) /\ mpc # "main"
        BY DEF Cancelling
      <3> QED BY <2>1, <2>3, <3>1 DEF Cancelling
    <2>5. mpc' = "start" => \A t \in Threads : Gone(t)
      BY <2>1, <2>2 DEF GoneInv
    <2> QED BY <1>2, <2>1, <2>2, <2>4, <2>5 DEF GoneInv, Creating
  <1>4. CASE init_test
    <2>1. prog = "mibench" /\ UNCHANGED <<prog, j, cancelled>> /\ j = 0 /\ Threads = {0}
      BY <1>4 DEF init_test, TypeInv
    <2>2. CASE mpc = "start" /\ mpc' = "join" /\ tpc' = [tpc EXCEPT ![0] = "setup"]
      <3>1. ~Cancelling /\ \A t \in Chans : tpc'[t] # "dead"
        BY <2>2 DEF GoneInv, Cancelling, TypeInv
      <3> QED BY <2>1, <2>2, <3>1 DEF GoneInv, Creating, Threads
    <2>3. CASE mpc \in {"start", "join"} /\ mpc' = "returned" /\ tpc' = tpc /\ Gone(0)
      <3>1. ~Cancelling
        BY <2>3 DEF Cancelling
      <3> QED BY <1>2, <2>1, <2>3, <3>1 DEF GoneInv
    <2>4. mpc = "start" => Gone(0)
      BY <2>1 DEF GoneInv
    <2> QED BY <1>4, <2>1, <2>2, <2>3, <2>4 DEF init_test, Joined
  <1>5. CASE prog # "mibench" /\ (Prepare \/ create_failed \/ begin_round)
    <2>1. UNCHANGED <<prog, tpc, cancelled>> /\ mpc \in {"start", "create", "round"}
      BY <1>5 DEF Prepare, create_failed, begin_round, threads
    <2>2. ~Cancelling
      BY <2>1 DEF Cancelling
    <2>3. CASE Prepare
      BY <1>2, <2>1, <2>2, <2>3 DEF GoneInv, Prepare
    <2>4. CASE create_failed
      <3>1. j' = j /\ mpc = "create" /\ mpc' \in {"crashed", "returned"} /\ (mpc' = "returned" => ret' = 1)
        BY <2>4 DEF create_failed
      <3>2. Creating /\ ~(mpc' = "returned" /\ ret' = 0)
        BY <3>1 DEF Creating
      <3> QED BY <1>2, <2>1, <2>2, <3>1, <3>2 DEF GoneInv
    <2>5. CASE begin_round
      BY <1>2, <2>1, <2>2, <2>5 DEF GoneInv, begin_round
    <2> QED BY <1>5, <2>3, <2>4, <2>5
  <1>6. CASE prog # "mibench" /\ create
    <2>1. /\ j \in Threads /\ tpc' = [tpc EXCEPT ![j] = "setup"] /\ j' = j + 1
          /\ UNCHANGED <<prog, mpc, cancelled>> /\ mpc = "create"
      BY <1>6 DEF create
    <2>2. /\ ~Cancelling /\ \A t \in Chans : tpc'[t] # "dead"
          /\ \A t \in Threads : t # j => (Gone(t)' <=> Gone(t))
      BY <2>1 DEF GoneInv, Cancelling, TypeInv, Gone
    <2>3. Threads' = Threads /\ cancelled = {}
      BY <2>1, <2>2 DEF Threads, GoneInv
    <2>4. \A t \in Threads : t >= j' => t >= j /\ t # j
      BY <2>1
    <2> QED BY <2>1, <2>2, <2>3, <2>4 DEF GoneInv, Creating
  <1>7. CASE prog # "mibench" /\ (band_created \/ getchar \/ join)
    <2>1. /\ UNCHANGED <<prog, tpc, cancelled>> /\ mpc' = "join" /\ mpc \in {"create", "join"}
          /\ j' = 0 \/ (j' = j + 1 /\ j \in Threads /\ Gone(j) /\ mpc = "join")
      BY <1>7 DEF band_created, getchar, join, Joined, Created, threads
    <2>2. ~Cancelling
      BY <2>1 DEF Cancelling
    <2>3. \A t \in Threads : t < j' => t < j \/ t = j
      BY <2>1 DEF TypeInv
    <2>4. \A t \in Threads : t < j' => Gone(t)
      BY <2>1, <2>3 DEF GoneInv
    <2> QED BY <1>2, <2>1, <2>2, <2>4 DEF GoneInv, Creating
  <1>8. CASE prog # "mibench" /\ join_failed
    <2>1. UNCHANGED <<prog, tpc>> /\ mpc' = "returned" /\ ret' = -1
      BY <1>8 DEF join_failed
    <2> QED BY <2>1 DEF GoneInv, Creating, Cancelling
  <1>9. CASE prog # "mibench" /\ (next_round \/ Finish)
    <2>1. /\ UNCHANGED <<prog, tpc, cancelled, j>> /\ mpc = "join" /\ mpc' \in {"round", "returned"}
          /\ j \notin Threads
      BY <1>9 DEF next_round, Finish, AllJoined, threads
    <2>2. \A t \in Threads : t < j
      BY <1>9, <2>1 DEF Chans, TypeInv
    <2>3. \A t \in Threads : Gone(t)
      BY <2>1, <2>2 DEF GoneInv
    <2>4. ~Cancelling
      BY <2>1 DEF Cancelling
    <2> QED BY <1>2, <2>1, <2>3, <2>4 DEF GoneInv
  <1>10. CASE UNCHANGED vars
    <2>1. UNCHANGED <<prog, tpc, cancelled, j, mpc, ret>>
      BY <1>10 DEF vars, main, threads
    <2> QED BY <1>2, <2>1 DEF GoneInv, Creating, Cancelling
  <1> QED BY <1>1, <1>3, <1>4, <1>5, <1>6, <1>7, <1>8, <1>9, <1>10, MainSteps DEF Next, TakesStep

\* Every step keeps what is known of the threads that were joined.
LEMMA JoinStep ==
  ASSUME TypeInv, GoneInv, JoinInv, [Next]_vars
  PROVE  JoinInv'
  <1> USE ThreadsFacts
  <1>1. ASSUME NEW t \in Threads, TakesStep(t) PROVE JoinInv'
    <2>1. UNCHANGED <<prog, mpc, j, ret, round>> /\ \A u \in Threads : Gone(u) => state_thread'[u] = state_thread[u]
      BY <1>1, ThreadSteps, GoneStays DEF main
    <2>2. Threads' = Threads
      BY <2>1 DEF Threads
    <2> QED BY <2>1, <2>2 DEF GoneInv, JoinInv
  <1>2. CASE prog' = "mibench"
    BY <1>2 DEF JoinInv
  <1>3. ASSUME mpc' \notin {"round", "join", "returned"} PROVE JoinInv'
    BY <1>3 DEF JoinInv
  <1>4. CASE \/ band_main \/ cache_main \/ cache_returned \/ band_returned \/ begin_round \/ create
    BY <1>3, <1>4 DEF band_main, cache_main, cache_returned, band_returned, begin_round, create
  <1>5. CASE mibench_main \/ mibench_returned \/ init_test
    BY <1>2, <1>5 DEF mibench_main, mibench_returned, init_test
  <1>6. CASE Prepare \/ create_failed \/ join_failed
    <2>1. /\ mpc' \in {"round", "returned", "crashed"} /\ (mpc' = "round" => round' = 0)
          /\ mpc' = "returned" => ret' \in {-1, 1}
      BY <1>6 DEF Prepare, create_failed, join_failed
    <2> QED BY <2>1 DEF JoinInv
  <1>7. CASE prog # "mibench" /\ (band_created \/ getchar \/ join)
    <2>1. /\ UNCHANGED <<prog, state_thread>> /\ mpc' = "join"
          /\ \/ j' = 0
             \/ j' = j + 1 /\ j \in Threads /\ state_thread[j] = "OK" /\ mpc = "join"
      BY <1>7 DEF band_created, getchar, join, Joined, threads
    <2>2. \A t \in Threads : t < j' => t < j \/ t = j
      BY <2>1 DEF TypeInv
    <2>3. Threads' = Threads
      BY <2>1 DEF Threads
    <2>4. \A t \in Threads : t < j' => j' # 0
      OBVIOUS
    <2>5. \A t \in Threads : t < j' => state_thread[t] = "OK"
      BY <1>7, <2>1, <2>2, <2>4 DEF JoinInv
    <2> QED BY <1>7, <2>1, <2>3, <2>5 DEF JoinInv
  <1>8. CASE prog # "mibench" /\ (next_round \/ Finish)
    <2>1. /\ UNCHANGED <<prog, state_thread, j>> /\ mpc = "join" /\ mpc' \in {"round", "returned"}
          /\ j \notin Threads
      BY <1>8 DEF next_round, Finish, AllJoined, threads
    <2>2. \A t \in Threads : t < j
      BY <1>8, <2>1 DEF Chans, TypeInv
    <2>3. Threads' = Threads
      BY <2>1 DEF Threads
    <2> QED BY <1>8, <2>1, <2>2, <2>3 DEF JoinInv
  <1>9. CASE UNCHANGED vars
    <2>1. UNCHANGED <<prog, state_thread, j, mpc, ret, round>> /\ Threads' = Threads
      BY <1>9 DEF vars, main, threads, Threads
    <2> QED BY <2>1 DEF JoinInv
  <1> QED BY <1>1, <1>4, <1>5, <1>6, <1>7, <1>8, <1>9, MainSteps DEF Next, TakesStep

-----------------------------------------------------------------------------
(* Devices and pages.                                                      *)

\* Every step keeps devices open and pages pinned only where they are needed.
LEMMA CleanStep ==
  ASSUME TypeInv, GoneInv, CleanInv, [Next]_vars
  PROVE  CleanInv'
  <1> USE ThreadsFacts
  <1>1. ASSUME NEW t \in Chans, NEW s \in TPlaces, Go(t, s), prog' = prog,
               opened' \subseteq opened \union {t}, t \in opened' => s \in HasDevice,
               pinned' \subseteq pinned \union {t}, t \in pinned' => s \in HasPages,
               prog # "band" => pinned' = {}
        PROVE  CleanInv'
    <2>1. tpc'[t] = s /\ \A u \in Chans : u # t => tpc'[u] = tpc[u]
      BY <1>1 DEF Go, TypeInv
    <2> QED BY <1>1, <2>1 DEF CleanInv
  <1>2. ASSUME UNCHANGED <<prog, tpc, opened, pinned>> PROVE CleanInv'
    BY <1>2 DEF CleanInv
  <1>3. ASSUME NEW t \in Threads, TakesStep(t) PROVE CleanInv'
    <2> USE DEF HasDevice, HasPages
    <2>1. /\ t \in Chans /\ (t \in opened => tpc[t] \in HasDevice) /\ (t \in pinned => tpc[t] \in HasPages)
          /\ prog # "band" => pinned = {}
      BY DEF CleanInv
    <2>2. CASE open(t)
      <3>1. /\ opened' = opened \union {t} /\ UNCHANGED <<prog, pinned>> /\ tpc[t] = "setup"
            /\ \E s \in {"load", "queue"} : Go(t, s)
        BY <2>2 DEF open, At
      <3> QED BY <1>1, <2>1, <3>1 DEF TPlaces
    <2>3. CASE open_failed(t) \/ load_failed(t)
      <3>1. /\ Go(t, "end") /\ UNCHANGED <<prog, pinned>> /\ t \notin opened' /\ opened' \subseteq opened
            /\ tpc[t] \in {"setup", "load"}
        BY <2>1, <2>3 DEF open_failed, load_failed, At, End
      <3> QED BY <1>1, <2>1, <3>1 DEF TPlaces
    <2>4. CASE prog = "band" /\ load(t)
      <3>1. Go(t, "queue") /\ pinned' = pinned \union {t} /\ UNCHANGED <<prog, opened>> /\ tpc[t] = "load"
        BY <2>4 DEF load, At
      <3> QED BY <1>1, <2>1, <2>4, <3>1 DEF TPlaces
    <2>5. CASE broadcast(t) \/ cond_wait(t) \/ wake(t) \/ spurious_wake(t)
      <3>1. UNCHANGED <<prog, opened, pinned>> /\ \E s \in {"wait", "copy"} : Go(t, s)
        BY <2>5 DEF broadcast, cond_wait, wake, spurious_wake
      <3> QED BY <1>1, <2>1, <3>1 DEF TPlaces
    <2>6. CASE Copies(t)
      <3>1. PICK n \in {1, 2} : copy(t, n) \/ copy_failed(t, n) \/ copied(t, n)
        BY <2>6 DEF Copies
      <3>2. CASE copy(t, n)
        BY <1>2, <3>2 DEF copy
      <3>3. CASE copy_failed(t, n) \/ copied(t, n)
        <4>1. /\ UNCHANGED <<prog, opened, pinned>>
              /\ \/ \E s \in {"unload", "unload after failure"} : Go(t, s)
                 \/ prog # "band" /\ \E s \in {"close", "close after failure"} : Go(t, s)
          BY <3>3 DEF copy_failed, copied
        <4> QED BY <1>1, <2>1, <4>1 DEF TPlaces
      <3> QED BY <3>1, <3>2, <3>3
    <2>7. CASE unload(t)
      <3>1. /\ UNCHANGED <<prog, opened>> /\ pinned' = pinned \ {t}
            /\ \E s \in {"close", "close after failure"} : Go(t, s)
        BY <2>7 DEF unload
      <3> QED BY <1>1, <2>1, <3>1 DEF TPlaces
    <2>8. CASE close(t)
      <3>1. /\ UNCHANGED <<prog, pinned>> /\ opened' = opened \ {t} /\ Go(t, "end")
            /\ tpc[t] \in {"close", "close after failure"}
        BY <2>8 DEF close, End
      <3> QED BY <1>1, <2>1, <3>1 DEF TPlaces
    <2>9. CASE pthread_cancel(t)
      <3>1. UNCHANGED <<prog, opened, pinned>> /\ Go(t, "dead")
        BY <2>9 DEF pthread_cancel
      <3> QED BY <1>1, <2>1, <3>1 DEF TPlaces
    <2>10. CASE start_measure_th(t) \/ start_measure(t)
      <3>1. /\ UNCHANGED <<prog, opened, pinned>> /\ tpc[t] \in {"setup", "tests"}
            /\ tpc' = tpc \/ \E s \in {"tests", "end"} : Go(t, s)
        BY <2>10 DEF start_measure_th, start_measure, start_test_susan, start_test_qsort_s,
                     start_test_qsort_l, tests_done, Test, Mibench, At, End
      <3> QED BY <1>1, <1>2, <2>1, <3>1 DEF TPlaces
    <2> QED BY <1>3, <2>2, <2>3, <2>4, <2>5, <2>6, <2>7, <2>8, <2>9, <2>10, ThreadCases
  \* A thread is made where one is over that has cleaned up.
  <1>4. ASSUME NEW t \in Threads, Gone(t), tpc[t] # "dead", tpc' = [tpc EXCEPT ![t] = "setup"],
               UNCHANGED <<prog, opened, pinned>>
        PROVE  CleanInv'
    <2>1. t \notin opened /\ t \notin pinned /\ (prog # "band" => pinned = {})
      BY <1>4 DEF Gone, CleanInv, HasDevice, HasPages
    <2> QED BY <1>1, <1>4, <2>1 DEF Go, TPlaces
  <1>5. CASE create
    <2>1. j \in Threads /\ mpc = "create"
      BY <1>5 DEF create
    <2>2. Gone(j) /\ tpc[j] # "dead"
      BY <2>1 DEF GoneInv, Creating, Cancelling
    <2> QED BY <1>4, <1>5, <2>1, <2>2 DEF create
  <1>6. CASE init_test
    <2>1. prog = "mibench" /\ UNCHANGED <<prog, opened, pinned>> /\ Threads = {0}
      BY <1>6 DEF init_test
    <2>2. CASE mpc = "start" /\ tpc' = [tpc EXCEPT ![0] = "setup"]
      <3>1. Gone(0) /\ tpc[0] # "dead"
        BY <2>1, <2>2 DEF GoneInv, Cancelling
      <3> QED BY <1>4, <2>1, <2>2, <3>1
    <2>3. CASE tpc' = tpc
      BY <1>2, <2>1, <2>3
    <2> QED BY <1>6, <2>2, <2>3 DEF init_test
  <1>7. CASE \/ band_main \/ cache_main \/ mibench_main \/ band_returned \/ cache_returned
             \/ mibench_returned \/ Prepare \/ begin_round \/ create_failed \/ band_created \/ getchar
             \/ join \/ join_failed \/ next_round \/ Finish
    <2>1. UNCHANGED <<prog, tpc, opened, pinned>>
      BY <1>7 DEF band_main, cache_main, mibench_main, band_returned, cache_returned, mibench_returned,
                  Prepare, begin_round, create_failed, band_created, getchar, join, join_failed,
                  next_round, Finish, threads
    <2> QED BY <1>2, <2>1
  <1>8. CASE UNCHANGED vars
    BY <1>2, <1>8 DEF vars, threads
  <1> QED BY <1>3, <1>5, <1>6, <1>7, <1>8, MainSteps DEF Next, TakesStep

-----------------------------------------------------------------------------
(* The queue.                                                              *)

\* The queue has no more than the threads of the program, and with as many, all.
QueuedSound ==
  prog # "mibench" => /\ Queued \subseteq Chans /\ IsFiniteSet(Queued) /\ Cardinality(Queued) \in Nat
                      /\ Cardinality(Queued) <= N_CHAN
                      /\ Cardinality(Queued) = N_CHAN => Queued = Chans

\* That holds of any state of the threads, and so after a step too.
LEMMA QueuedFacts == QueuedSound
  <1> SUFFICES ASSUME prog # "mibench"
               PROVE  /\ Queued \subseteq Chans /\ IsFiniteSet(Queued) /\ Cardinality(Queued) \in Nat
                      /\ Cardinality(Queued) <= N_CHAN
                      /\ Cardinality(Queued) = N_CHAN => Queued = Chans
    BY DEF QueuedSound
  <1>1. Queued \subseteq Chans
    BY ThreadsFacts DEF Queued
  <1> QED BY <1>1, ThreadsFacts, FS_Subset, FS_CardinalityType

\* The main thread leaves the queue alone, but for a new round.
LEMMA QueueMain ==
  ASSUME TypeInv, QueueInv, UNCHANGED <<prog, tpc, count_queue, woken, spurious>>,
         Creating' => (Creating /\ j' = j) \/ \A t \in Threads : t < j'
  PROVE  QueueInv'
  <1> SUFFICES ASSUME prog # "mibench" PROVE QueueInv'
    BY DEF QueueInv
  <1>1. Threads' = Threads /\ (\A t : Arrived(t)' <=> Arrived(t)) /\ (\A t : Copying(t)' <=> Copying(t))
    BY DEF Threads, Arrived, Copying
  <1>2. Queued \subseteq Queued'
    BY <1>1 DEF Queued
  <1>3. (prog # "mibench")'
    OBVIOUS
  <1>4. IsFiniteSet(Queued') /\ Cardinality(Queued') \in Nat
    <2>1. QueuedSound'
      BY QueuedFacts, PTL
    <2> QED BY <1>3, <2>1 DEF QueuedSound
  <1>5. Cardinality(Queued) <= Cardinality(Queued')
    BY <1>2, <1>4, FS_Subset
  <1>6. count_queue' <= Cardinality(Queued')
    BY <1>4, <1>5, QueuedFacts DEF QueuedSound, QueueInv, TypeInv
  <1> QED BY <1>1, <1>6 DEF QueueInv

\* A thread enters the queue once, and leaves it when all have come.
LEMMA QueueThread ==
  ASSUME TypeInv, GoneInv, QueueInv, NEW t \in Threads, TakesStep(t), prog # "mibench"
  PROVE  QueueInv'
  <1>1. /\ UNCHANGED <<prog, mpc, j, ret>> /\ ~Gone(t) /\ t \in Chans /\ Threads = Chans
        /\ \A u \in Chans : u # t => tpc'[u] = tpc[u]
    BY ThreadSteps, ThreadsFacts DEF main
  <1>2. Threads' = Threads /\ (Creating' <=> Creating) /\ (Creating => t < j) /\ (prog # "mibench")'
    BY <1>1, ThreadsFacts DEF Threads, Creating, GoneInv, TypeInv
  <1>3. /\ Cardinality(Queued) \in Nat /\ Cardinality(Queued') \in Nat /\ IsFiniteSet(Queued')
        /\ Cardinality(Queued') <= N_CHAN /\ (Cardinality(Queued) = N_CHAN => Queued = Chans)
        /\ IsFiniteSet(Queued)
    <2>1. QueuedSound'
      BY QueuedFacts, PTL
    <2> QED BY <1>2, <2>1, QueuedFacts DEF QueuedSound
  <1>4. /\ woken \subseteq {u \in Chans : tpc[u] \in {"wait", "dead"}} /\ count_queue <= Cardinality(Queued)
        /\ woken # {} \/ (\E u \in Threads \ spurious : Copying(u)) => count_queue = N_CHAN
        /\ count_queue \in Nat /\ N_CHAN \in Nat
    BY ThreadsFacts DEF QueueInv, TypeInv
  \* A step that leaves the count, and moves a thread from an arrived place only to
  \* another.
  <1>5. ASSUME count_queue' = count_queue, Arrived(t) => Arrived(t)',
               woken' \subseteq woken, t \in woken' => tpc'[t] \in {"wait", "dead"},
               spurious \subseteq spurious',
               Copying(t)' => Copying(t) \/ woken # {} \/ t \in spurious'
        PROVE  QueueInv'
    <2>1. Queued \subseteq Queued'
      BY <1>1, <1>2, <1>5 DEF Queued, Arrived
    <2>2. Cardinality(Queued) <= Cardinality(Queued')
      BY <1>3, <2>1, FS_Subset
    <2>3. count_queue' <= Cardinality(Queued')
      BY <1>3, <1>4, <1>5, <2>2
    <2>4. woken' \subseteq {u \in Chans : tpc'[u] \in {"wait", "dead"}}
      BY <1>1, <1>4, <1>5
    <2>5. woken' # {} \/ (\E u \in Threads' \ spurious' : Copying(u)') => count_queue' = N_CHAN
      BY <1>1, <1>2, <1>4, <1>5 DEF Copying
    <2> QED BY <2>3, <2>4, <2>5 DEF QueueInv
  \* A thread that arrives is counted.
  <1>6. ASSUME tpc[t] = "queue", tpc'[t] \in {"wait", "copy"}
        PROVE  /\ t \notin Queued /\ t \in Queued' /\ Cardinality(Queued') >= Cardinality(Queued) + 1
    <2>1. t \notin Queued
      BY <1>6 DEF Queued, Arrived
    <2>2. Queued \union {t} \subseteq Queued'
      BY <1>1, <1>2, <1>6 DEF Queued, Arrived
    <2>3. Cardinality(Queued \union {t}) = Cardinality(Queued) + 1
      BY <1>3, <2>1, FS_AddElement
    <2>4. Cardinality(Queued \union {t}) <= Cardinality(Queued')
      BY <1>3, <2>2, FS_Subset
    <2> QED BY <1>3, <2>1, <2>2, <2>3, <2>4
  <1>7. ASSUME tpc[t] = "queue" PROVE woken = {} /\ \A u \in Threads \ spurious : ~Copying(u)
    <2>1. t \notin Queued
      BY <1>7 DEF Queued, Arrived
    <2>2. Cardinality(Queued) # N_CHAN /\ Cardinality(Queued) <= N_CHAN
      BY <1>1, <1>3, <2>1, QueuedFacts DEF QueuedSound
    <2>3. count_queue # N_CHAN
      BY <1>3, <1>4, <2>2
    <2> QED BY <1>4, <2>3
  <1>8. CASE broadcast(t)
    <2>1. /\ tpc[t] = "queue" /\ tpc' = [tpc EXCEPT ![t] = "copy"] /\ count_queue' = count_queue + 1
          /\ count_queue + 1 = N_CHAN /\ woken' = woken \union {u \in Threads : tpc[u] = "wait"}
      BY <1>8 DEF broadcast, At, Go, LastOne
    <2>2. tpc'[t] = "copy"
      BY <1>1, <2>1 DEF TypeInv
    <2>3. count_queue' <= Cardinality(Queued')
      BY <1>3, <1>4, <1>6, <2>1, <2>2
    <2>4. woken' \subseteq {u \in Chans : tpc'[u] \in {"wait", "dead"}}
      BY <1>1, <1>7, <2>1
    <2> QED BY <2>1, <2>3, <2>4 DEF QueueInv
  <1>9. CASE cond_wait(t)
    <2>1. /\ tpc[t] = "queue" /\ tpc' = [tpc EXCEPT ![t] = "wait"] /\ count_queue' = count_queue + 1
          /\ UNCHANGED <<woken, spurious>>
      BY <1>9 DEF cond_wait, At, Go
    <2>2. tpc'[t] = "wait"
      BY <1>1, <2>1 DEF TypeInv
    <2>3. count_queue' <= Cardinality(Queued')
      BY <1>3, <1>4, <1>6, <2>1, <2>2
    <2>4. woken' = {} /\ \A u \in Threads' \ spurious' : ~Copying(u)'
      BY <1>1, <1>2, <1>7, <2>1, <2>2 DEF Copying
    <2> QED BY <2>3, <2>4 DEF QueueInv
  <1>10. ASSUME NEW s, Go(t, s) PROVE tpc'[t] = s
    BY <1>1, <1>10 DEF Go, TypeInv
  <1>11. CASE wake(t)
    <2>1. /\ tpc'[t] = "copy" /\ count_queue' = count_queue /\ woken' = woken \ {t} /\ t \in woken
          /\ spurious' = spurious
      BY <1>10, <1>11 DEF wake, shared
    <2> QED BY <1>5, <2>1 DEF Arrived
  <1>12. CASE open(t) \/ open_failed(t) \/ load(t) \/ load_failed(t)
    <2>1. /\ tpc[t] \in {"setup", "load"} /\ tpc'[t] \in {"load", "queue", "end"}
          /\ UNCHANGED <<count_queue, woken, spurious>>
      BY <1>10, <1>12 DEF open, open_failed, load, load_failed, At, End, shared
    <2>2. t \notin woken
      BY <1>4, <2>1
    <2> QED BY <1>5, <2>1, <2>2 DEF Arrived, Copying
  <1>13. CASE Copies(t) \/ unload(t) \/ close(t)
    <2>1. /\ tpc[t] \in {"copy", "unload", "unload after failure", "close", "close after failure"}
          /\ tpc'[t] \in {"copy", "unload", "unload after failure", "close", "close after failure", "end"}
          /\ UNCHANGED <<count_queue, woken, spurious>>
      BY <1>10, <1>13 DEF Copies, copy, copy_failed, copied, unload, close, At, End, shared
    <2>2. t \notin woken
      BY <1>4, <2>1
    <2> QED BY <1>5, <2>1, <2>2 DEF Arrived, Copying
  <1>14. CASE pthread_cancel(t)
    <2>1. tpc'[t] = "dead" /\ UNCHANGED <<count_queue, woken, spurious>>
      BY <1>10, <1>14 DEF pthread_cancel
    <2> QED BY <1>5, <2>1 DEF Arrived, Copying
  <1>15. CASE start_measure_th(t) \/ start_measure(t)
    BY <1>15 DEF start_measure_th, start_measure, start_test_susan, start_test_qsort_s,
                 start_test_qsort_l, tests_done, Test, Mibench
  <1>16. CASE spurious_wake(t)
    <2>1. /\ tpc'[t] = "copy" /\ UNCHANGED <<count_queue, woken>> /\ t \notin woken
          /\ spurious' = spurious \union {t}
      BY <1>10, <1>16 DEF spurious_wake, shared
    <2> QED BY <1>5, <2>1 DEF Arrived
  <1> QED BY <1>8, <1>9, <1>11, <1>12, <1>13, <1>14, <1>15, <1>16, ThreadCases

\* Every step keeps the queue.
LEMMA QueueStep ==
  ASSUME TypeInv, GoneInv, QueueInv, [Next]_vars
  PROVE  QueueInv'
  <1>1. CASE prog' = "mibench"
    BY <1>1 DEF QueueInv
  <1>2. ASSUME NEW t \in Threads, TakesStep(t) PROVE QueueInv'
    <2>1. prog' = prog
      BY <1>2, ThreadSteps
    <2> QED BY <1>1, <1>2, <2>1, QueueThread
  <1>3. CASE \/ band_main \/ cache_main \/ band_returned \/ cache_returned \/ mibench_main
             \/ mibench_returned \/ Prepare \/ create_failed \/ join_failed
    <2>1. UNCHANGED <<prog, tpc, count_queue, woken, spurious, j>>
      BY <1>3 DEF band_main, cache_main, band_returned, cache_returned, mibench_main, mibench_returned,
                  Prepare, create_failed, join_failed, shared, threads
    <2>2. /\ mpc \in {"main", "start", "create"} \/ mpc' \in {"exit", "goes on"}
             \/ (mpc' = "returned" /\ ret' = -1) \/ (mpc = "returned" /\ ret >= 0)
      BY <1>3 DEF band_main, cache_main, band_returned, cache_returned, mibench_main, mibench_returned,
                  Prepare, create_failed, join_failed
    <2>3. mpc = "returned" /\ ret >= 0 => Creating
      BY DEF Creating, TypeInv
    <2>4. Creating' => Creating
      BY <2>2, <2>3 DEF Creating
    <2> QED BY <2>1, <2>4, QueueMain
  <1>4. CASE init_test
    BY <1>1, <1>4 DEF init_test
  <1>5. CASE prog # "mibench" /\ (band_created \/ getchar \/ join \/ next_round \/ Finish)
    <2>1. UNCHANGED <<prog, tpc, count_queue, woken, spurious>>
      BY <1>5 DEF band_created, getchar, join, next_round, Finish, shared, threads
    <2>2. mpc' = "join" \/ (j' = j /\ j \notin Threads)
      BY <1>5 DEF band_created, getchar, join, Joined, next_round, Finish, AllJoined
    <2>3. j \notin Threads => \A t \in Threads : t < j
      BY <1>5, ThreadsFacts DEF Chans, TypeInv
    <2>4. Creating' => mpc' # "join"
      BY DEF Creating
    <2> QED BY <2>1, <2>2, <2>3, <2>4, QueueMain
  <1>6. CASE prog # "mibench" /\ begin_round
    <2>1. mpc = "round" /\ UNCHANGED <<prog, tpc, woken>> /\ count_queue' = 0
      BY <1>6 DEF begin_round
    <2>2. \A t \in Threads : Gone(t) /\ tpc[t] # "dead"
      BY <2>1, ThreadsFacts DEF GoneInv, Cancelling
    <2>3. woken = {}
      BY <1>6, <2>2, ThreadsFacts DEF QueueInv, Gone
    <2>4. \A t \in Threads' : ~Copying(t)'
      BY <2>1, <2>2 DEF Copying, Gone, Threads
    <2>5. Cardinality(Queued') \in Nat
      <3>1. QueuedSound'
        BY QueuedFacts, PTL
      <3> QED BY <1>6, <2>1, <3>1 DEF QueuedSound
    <2> QED BY <2>1, <2>3, <2>4, <2>5 DEF QueueInv
  <1>7. CASE prog # "mibench" /\ create
    <2>1. /\ mpc = "create" /\ UNCHANGED <<prog, mpc, woken, spurious, count_queue>> /\ j \in Threads
          /\ tpc' = [tpc EXCEPT ![j] = "setup"] /\ j' = j + 1
      BY <1>7 DEF create, shared
    <2>2. Threads' = Threads /\ Threads = Chans /\ Creating /\ Creating'
      BY <1>7, <2>1, ThreadsFacts DEF Threads, Creating
    <2>3. tpc'[j] = "setup" /\ \A t \in Chans : t # j => tpc'[t] = tpc[t]
      BY <2>1, <2>2 DEF TypeInv
    <2>4. Gone(j) /\ tpc[j] # "dead"
      BY <2>1, <2>2, ThreadsFacts DEF GoneInv, Cancelling
    <2>5. \A t \in Threads : t < j' /\ t # j <=> t < j
      BY <2>1, ThreadsFacts
    <2>6. Queued' = Queued
      BY <2>2, <2>3, <2>5 DEF Queued, Arrived
    <2>7. j \notin woken
      BY <1>7, <2>4 DEF QueueInv, Gone
    <2>8. woken' \subseteq {t \in Chans : tpc'[t] \in {"wait", "dead"}}
      BY <1>7, <2>1, <2>3, <2>7 DEF QueueInv
    <2>9. \A t \in Threads' : Copying(t)' => Copying(t)
      BY <2>2, <2>3 DEF Copying
    <2> QED BY <1>7, <2>1, <2>2, <2>6, <2>8, <2>9 DEF QueueInv
  <1>8. CASE UNCHANGED vars
    <2>1. UNCHANGED <<prog, tpc, count_queue, woken, spurious, j, mpc, ret>>
      BY <1>8 DEF vars, main, shared, threads
    <2>2. Creating' => Creating
      BY <2>1 DEF Creating
    <2> QED BY <2>1, <2>2, QueueMain
  <1> QED BY <1>2, <1>3, <1>4, <1>5, <1>6, <1>7, <1>8, MainSteps DEF Next, TakesStep

-----------------------------------------------------------------------------
(* The theorems.                                                           *)

\* mibench frees its results last.
FreeInv == prog = "mibench" => ret # -1 /\ (region = "freed" => mpc = "exit" /\ Gone(0))

\* Every step keeps that.
LEMMA FreeStep ==
  ASSUME TypeInv, GoneInv, FreeInv, [Next]_vars
  PROVE  FreeInv'
  <1>1. ASSUME NEW t \in Threads, TakesStep(t) PROVE FreeInv'
    <2>1. UNCHANGED <<prog, mpc, ret, region>> /\ \A u \in Threads : Gone(u) => Gone(u)'
      BY <1>1, ThreadSteps, GoneStays DEF main
    <2> QED BY <2>1, ThreadsFacts DEF FreeInv
  <1>2. CASE prog' # "mibench"
    BY <1>2 DEF FreeInv
  <1>3. CASE \/ band_main \/ cache_main \/ band_returned \/ cache_returned
    BY <1>2, <1>3 DEF band_main, cache_main, band_returned, cache_returned
  <1>4. CASE mibench_main \/ init_test
    <2>1. /\ prog = "mibench" /\ prog' = prog /\ mpc # "exit"
          /\ region' \in {region, "alive"} /\ ret' \in {ret, 0, 1}
      BY <1>4 DEF mibench_main, init_test, Joined
    <2> QED BY <2>1 DEF FreeInv
  <1>5. CASE mibench_returned
    <2>1. prog = "mibench" /\ mpc = "returned" /\ mpc' = "exit" /\ UNCHANGED <<prog, ret, tpc>>
      BY <1>5 DEF mibench_returned, threads
    <2>2. Gone(0)
      BY <2>1, ThreadsFacts DEF FreeInv, GoneInv, Creating, TypeInv
    <2> QED BY <2>1, <2>2 DEF FreeInv, Gone
  <1>6. CASE prog # "mibench" /\ \/ Prepare \/ begin_round \/ create \/ create_failed \/ band_created
                                 \/ getchar \/ join \/ join_failed \/ next_round \/ Finish
    <2>1. prog' = prog
      BY <1>6 DEF Prepare, begin_round, create, create_failed, band_created, getchar, join, join_failed,
                  next_round, Finish
    <2> QED BY <1>2, <1>6, <2>1
  <1>7. CASE UNCHANGED vars
    BY <1>7 DEF vars, main, threads, FreeInv, Gone
  <1> QED BY <1>1, <1>3, <1>4, <1>5, <1>6, <1>7, MainSteps DEF Next, TakesStep

\* The invariants hold at first.
LEMMA InitHolds == Init => TypeInv /\ GoneInv /\ JoinInv /\ CleanInv /\ QueueInv /\ FreeInv
  <1> SUFFICES ASSUME Init PROVE TypeInv /\ GoneInv /\ JoinInv /\ CleanInv /\ QueueInv /\ FreeInv
    OBVIOUS
  <1> USE ThreadsFacts
  <1>1. /\ prog \in Programs /\ mpc = "main" /\ j = 0 /\ round = 0 /\ ret = 0 /\ region = "none" /\ count_queue = 0
        /\ tpc = [t \in Chans |-> "none"] /\ state_thread = [t \in Chans |-> "INIT"]
        /\ woken = {} /\ cancelled = {} /\ opened = {} /\ pinned = {} /\ spurious = {}
    BY DEF Init, Chans
  <1>2. TypeInv
    BY <1>1 DEF TypeInv, MPlaces, TPlaces
  <1>3. \A t \in Chans : Gone(t) /\ ~Copying(t) /\ tpc[t] # "dead"
    BY <1>1 DEF Gone, Copying
  <1>4. GoneInv /\ JoinInv /\ CleanInv /\ FreeInv
    BY <1>1, <1>3 DEF GoneInv, JoinInv, CleanInv, FreeInv
  <1>5. QueueInv
    BY <1>1, <1>3, QueuedFacts DEF QueueInv, QueuedSound
  <1> QED BY <1>2, <1>4, <1>5

\* For any program, and any number of threads, rounds and passes: types, and which
\* threads are over at each place of the main thread.
THEOREM Over == Spec => [](TypeInv /\ GoneInv)
  <1>1. TypeInv /\ GoneInv /\ [Next]_vars => TypeInv' /\ GoneInv'
    BY TypeStep, GoneStep
  <1> QED BY <1>1, InitHolds, PTL DEF Spec

\* For any number of threads, rounds and passes, on whatever path a thread comes to
\* its end: it has closed its device and unpinned its pages.
THEOREM CleansUp == Spec => []ThreadsCleanUp
  <1>1. TypeInv /\ GoneInv /\ CleanInv /\ [Next]_vars => CleanInv'
    BY CleanStep
  <1>2. CleanInv => ThreadsCleanUp
    BY DEF CleanInv, ThreadsCleanUp, HasDevice, HasPages
  <1> QED BY <1>1, <1>2, InitHolds, Over, PTL DEF Spec

\* For any number of threads, rounds and passes: the threads of a round are over,
\* and were right, before the next begins and before the benchmark returns 0, and
\* mibench frees its results after its thread.
THEOREM Completes == Spec => []RoundsComplete
  <1>1. TypeInv /\ GoneInv /\ JoinInv /\ FreeInv /\ [Next]_vars => JoinInv' /\ FreeInv'
    BY JoinStep, FreeStep
  <1>2. GoneInv /\ JoinInv /\ FreeInv => RoundsComplete
    BY DEF GoneInv, JoinInv, FreeInv, RoundsComplete
  <1> QED BY <1>1, <1>2, InitHolds, Over, PTL DEF Spec

\* For any number of threads, rounds and passes, whichever waits return spuriously:
\* no thread that a broadcast let go copies before the last of its round has come.
THEOREM Together == Spec => []StartTogether
  <1>1. TypeInv /\ GoneInv /\ QueueInv /\ [Next]_vars => QueueInv'
    BY QueueStep
  <1>2. TypeInv /\ QueueInv => StartTogether
    <2> SUFFICES ASSUME TypeInv, QueueInv, prog # "mibench", NEW t \in Threads \ spurious, Copying(t)
                 PROVE  count_queue = N_CHAN /\ \A u \in Threads : Arrived(u)
      BY DEF StartTogether
    <2>1. count_queue = N_CHAN /\ count_queue <= Cardinality(Queued)
      BY DEF QueueInv
    <2>2. Queued = Chans
      <3>1. /\ Cardinality(Queued) \in Nat /\ Cardinality(Queued) <= N_CHAN
            /\ Cardinality(Queued) = N_CHAN => Queued = Chans
        BY QueuedFacts DEF QueuedSound
      <3>2. Cardinality(Queued) = N_CHAN
        BY <2>1, <3>1, ThreadsFacts
      <3> QED BY <3>1, <3>2
    <2> QED BY <2>1, <2>2, ThreadsFacts DEF Queued
  <1> QED BY <1>1, <1>2, InitHolds, Over, PTL DEF Spec
=============================================================================
