----------------------------- MODULE IoatChannel -----------------------------
(***************************************************************************)
(* One channel of the ioat1 driver (source/drivers/dma/ioat/dma.c): the    *)
(* descriptor lists, the cookies, the completion writeback, the cleanup by *)
(* pollers and by the tasklet, the watchdog timer and the channel reset,   *)
(* together with the DMA engine itself, which is modelled from what the    *)
(* driver expects of it.                                                   *)
(*                                                                         *)
(* A section that holds desc_lock is one step, except in the timer, where  *)
(* the hardware may act between its steps; cleanup_lock is held over       *)
(* several steps.  A descriptor is its bus address; address 0 is no        *)
(* descriptor.  What a descriptor copies is identified by the cookie of    *)
(* its transaction and its position in it.                                 *)
(***************************************************************************)
EXTENDS Integers, Sequences, FiniteSets, FiniteSetsExt

CONSTANTS
  Clients,                \* cpus that copy through this channel
  MaxDesc,                \* bound on the descriptors memory has room for
  InitialDescs,           \* the number alloc_chan_resources gets
  MaxParts,               \* descriptors of a transaction (len / xfercap), at most
  PendingLevel,           \* ioat_pending_level
  MaxCookie,              \* bound on the transactions of a behaviour
  MaxAllocs,              \* bound on the times the channel is set up
  MaySuspend,             \* whether the priority policy suspends the channel
  MayHalt,                \* whether the engine may stop with an error
  Prompt,                 \* whether only a stopped channel outlasts the timer
  MayTimeOut              \* whether dma_sync_wait may give up

INT_MIN == -100           \* smaller than minus any number of descriptors here

ASSUME DescAssumption == MaxDesc \in Nat /\ InitialDescs \in 1..MaxDesc
ASSUME ClientsAssumption == IsFiniteSet(Clients) /\ "none" \notin Clients /\ "tasklet" \notin Clients
ASSUME BoundsAssumption == /\ MaxParts \in Nat \ {0} /\ PendingLevel \in Nat \ {0}
                           /\ MaxCookie \in Nat /\ MaxAllocs \in Nat
                           /\ {MaySuspend, MayHalt, Prompt, MayTimeOut} \subseteq BOOLEAN

VARIABLES
  free_desc, used_desc,   \* the lists of struct ioat_dma_chan
  desc,                   \* the descriptors: next, compl_write, tx_cnt, cookie
                          \* and, for the properties, what the copy is part of
  pending, active, desccount,
  last_completion, completion,   \* software's mark and the writeback area
  state, timer,           \* the bits of chan->state; whether the timer is armed
  cookie, completed_cookie,      \* of struct dma_chan
  cleanup_lock, phys_complete,   \* who cleans up, and the address it has read
  tpc, status,            \* where the timer handler is, and its status word
  tasklet,                \* whether cleanup_task is scheduled
  pc, wait, chain,        \* where each client is, its last cookie and what
                          \* prep_memcpy gave it
  hw_state, hw_cur, hw_next, hw_last, hw_append, suspended,  \* the DMA engine
  parts, executed,        \* history: descriptors of each transaction, and the
                          \* copies the engine has made
  allocs, fault           \* how often the channel was set up, and whether the
                          \* timer has touched a channel that was taken down

lists    == <<free_desc, used_desc, desc>>
counters == <<pending, active, desccount>>
cookies  == <<cookie, completed_cookie>>
marks    == <<last_completion, completion>>
watchdog == <<state, timer, tpc, status>>
cleaning == <<cleanup_lock, phys_complete>>
clients  == <<pc, wait, chain>>
hw       == <<hw_state, hw_cur, hw_next, hw_last, hw_append, suspended>>
history  == <<parts, executed, allocs, fault>>
vars     == <<lists, counters, cookies, marks, watchdog, cleaning, tasklet,
              clients, hw, history>>

Desc     == 1..MaxDesc
Last(s)  == s[Len(s)]
Elems(s) == {s[i] : i \in DOMAIN s}

Blank == [next |-> 0, compl_write |-> FALSE, tx_cnt |-> 0, cookie |-> 0,
          part |-> <<0, 0>>]

Init ==
  /\ free_desc = <<>> /\ used_desc = <<>>
  /\ desc = [d \in Desc |-> Blank]
  /\ pending = 0 /\ active = 0 /\ desccount = 0
  /\ last_completion = 0 /\ completion = 0
  /\ state = {} /\ timer = FALSE
  /\ cookie = 0 /\ completed_cookie = 0
  /\ cleanup_lock = "none" /\ phys_complete = 0
  /\ tpc = "idle" /\ status = 0
  /\ tasklet = FALSE
  /\ pc = [c \in Clients |-> "idle"]
  /\ wait = [c \in Clients |-> 0]
  /\ chain = [c \in Clients |-> <<>>]
  /\ hw_state = "reset" /\ hw_cur = 0 /\ hw_next = 0 /\ hw_last = 0
  /\ hw_append = FALSE /\ suspended = FALSE
  /\ parts = <<>> /\ executed = {} /\ allocs = 0 /\ fault = FALSE

\* The engine has stopped before the end of its work.
Stopped == hw_state \in {"halted", "reset"} \/ suspended

\* desc_lock is only held from one step to the next by the timer.
desc_lock_free == tpc = "idle"

-----------------------------------------------------------------------------
(* What the commands of the driver do to the engine.                       *)

\* IOAT_CHANCMD_START after the chain address: the descriptor at d, whose next
\* link is n, is fetched.
Start(d, n) == /\ hw_state' = "run" /\ hw_cur' = d /\ hw_next' = n
               /\ hw_append' = FALSE
               /\ UNCHANGED <<hw_last, suspended>>

\* IOAT_CHANCMD_RESET: a suspended channel is no longer suspended.
Reset == /\ hw_state' = "reset" /\ hw_cur' = 0 /\ hw_next' = 0 /\ hw_last' = 0
         /\ hw_append' = FALSE /\ suspended' = FALSE

\* IOAT_CHANCMD_APPEND: a channel that works looks at the chain again.
AppendCommand == /\ hw_append' = (hw_append \/ hw_state \in {"run", "idle"})
                 /\ UNCHANGED <<hw_state, hw_cur, hw_next, hw_last, suspended>>

-----------------------------------------------------------------------------
(* Setting the channel up and taking it down.                              *)

\* The number of descriptors alloc_chan_resources counts.
Desccount == InitialDescs

\* ioat1_dma_alloc_chan_resources, with ioat1_dma_start_null_desc: the first
\* descriptor becomes the null descriptor that all copies are chained after.
alloc_chan_resources ==
  /\ desccount = 0 /\ allocs < MaxAllocs
  /\ allocs' = allocs + 1
  /\ desccount' = Desccount
  /\ free_desc' = [i \in 1..(InitialDescs - 1) |-> i + 1] /\ used_desc' = <<1>>
  /\ desc' = [d \in Desc |-> [Blank EXCEPT !.compl_write = (d = 1)]]
  /\ completion' = 0
  /\ Start(1, 0)
  /\ UNCHANGED <<pending, active, cookies, last_completion, watchdog, cleaning,
                 tasklet, clients, parts, executed, fault>>

\* __cleanup walks the used list up to the descriptor at address phys, or to the
\* end when no descriptor is there.
Found(phys)   == phys \in Elems(used_desc)
Reached_NoBreak(phys) == Len(used_desc)
Reached(phys) == IF Found(phys) THEN CHOOSE i \in DOMAIN used_desc : used_desc[i] = phys
                 ELSE Len(used_desc)

\* The descriptors on the way that carry the cookie of a transaction.
Completes(phys) == {used_desc[i] : i \in {i \in 1..Reached(phys) :
                                           desc[used_desc[i]].cookie # 0}}

\* How many go back to the free list: all but the one at phys (every one is
\* acknowledged, since every caller passes DMA_CTRL_ACK).
Released_All(phys) == Reached(phys)
Released(phys) == IF Found(phys) THEN Reached(phys) - 1 ELSE Reached(phys)

\* Nothing else is pending.
Drained_Always(phys) == Found(phys)
Drained_Never(phys)  == FALSE
Drained(phys) == Found(phys) /\ Reached(phys) = Len(used_desc)

\* dma_cookie_complete leaves the cookie of the last of them.
Completed(phys) == IF Completes(phys) = {} THEN completed_cookie
                   ELSE Max({desc[d].cookie : d \in Completes(phys)})
TxCount(ds) == MapThenSumSet(LAMBDA d : desc[d].tx_cnt, ds)
StillActive(phys) == active - TxCount(Completes(phys))
StateAfter(phys)  == state \ ({"ACK"} \union (IF Drained(phys) THEN {"PENDING"} ELSE {}))

__cleanup(phys) ==
  /\ free_desc' = free_desc \o SubSeq(used_desc, 1, Released(phys))
  /\ used_desc' = SubSeq(used_desc, Released(phys) + 1, Len(used_desc))
  /\ desc' = [d \in Desc |-> IF d \in Completes(phys) THEN [desc[d] EXCEPT !.cookie = 0]
                             ELSE desc[d]]
  /\ completed_cookie' = Completed(phys)
  /\ active' = StillActive(phys)
  /\ state' = StateAfter(phys)
  /\ last_completion' = phys

\* ioat1_dma_free_chan_resources, once no client uses the channel: a last
\* cleanup, a reset, and every descriptor is given back, used or not.  The bits
\* of chan->state and the active count stay as they are.
free_chan_resources ==
  /\ desccount # 0
  /\ \A c \in Clients : pc[c] = "idle"
  /\ cleanup_lock = "none" /\ tpc = "idle"
  /\ IF completion # last_completion
     THEN /\ completed_cookie' = Completed(completion)
          /\ active' = StillActive(completion)
          /\ state' = StateAfter(completion)
          /\ timer' = TRUE           \* mod_timer after del_timer_sync
     ELSE UNCHANGED <<completed_cookie, active, state>> /\ timer' = FALSE
  /\ free_desc' = <<>> /\ used_desc' = <<>>
  /\ last_completion' = 0 /\ pending' = 0 /\ desccount' = 0
  /\ Reset
  /\ UNCHANGED <<desc, cookie, completion, tpc, status, cleaning, tasklet,
                 clients, history>>

-----------------------------------------------------------------------------
(* The clients: preparing, submitting and waiting for copies.              *)

Allocated == Elems(free_desc) \union Elems(used_desc)
             \union UNION {Elems(chain[c]) : c \in Clients}

\* The k lowest addresses that ioat_dma_alloc_descriptor may return.
NewDescs(k) ==
  LET room == Desc \ Allocated
  IN  [i \in 1..k |-> CHOOSE d \in room : Cardinality({e \in room : e < d}) = i - 1]

Room == Cardinality(Desc \ Allocated)

\* The free list once n descriptors have been taken from it.
FreeAfter_Kept(n) == free_desc
FreeAfter(n) == SubSeq(free_desc, n + 1, Len(free_desc))

\* ioat1_dma_prep_memcpy of a copy that needs n descriptors.
prep_memcpy(c, n) ==
  LET new == IF n > Len(free_desc) THEN n - Len(free_desc) ELSE 0
      ds  == SubSeq(free_desc, 1, n - new) \o NewDescs(new)
  IN  /\ pc[c] \in {"idle", "submitted"} /\ desccount # 0 /\ desc_lock_free
      /\ Cardinality({b \in Clients : pc[b] = "prepared"}) + cookie < MaxCookie
      /\ new <= Room
      /\ free_desc' = FreeAfter(n - new)
      /\ chain' = [chain EXCEPT ![c] = ds]
      /\ desc' = [d \in Desc |->
                    IF d \notin Elems(ds) THEN desc[d]
                    ELSE LET i == CHOOSE i \in 1..n : ds[i] = d
                         IN  [desc[d] EXCEPT !.next = IF i < n THEN ds[i + 1] ELSE 0,
                                             !.compl_write = (i = n),
                                             !.tx_cnt = IF i = n THEN n ELSE @]]
      /\ pc' = [pc EXCEPT ![c] = "prepared"]
      /\ UNCHANGED <<used_desc, counters, cookies, marks, watchdog, cleaning,
                     tasklet, wait, hw, history>>

\* prep_memcpy runs out of descriptors after k new ones: what it had goes back
\* to the free list (their fields are set again when they are used), and the
\* caller issues what is pending and tries again.
prep_memcpy_fails(c, n) ==
  /\ pc[c] \in {"idle", "submitted"} /\ desccount # 0 /\ desc_lock_free
  /\ n > Len(free_desc) /\ cookie < MaxCookie
  /\ \E k \in 0..(n - Len(free_desc) - 1) :
       k <= Room /\ free_desc' = free_desc \o NewDescs(k)
  /\ pc' = [pc EXCEPT ![c] = "retry"]
  /\ UNCHANGED <<used_desc, desc, counters, cookies, marks, watchdog, cleaning,
                 tasklet, wait, chain, hw, history>>

\* ioat1_tx_submit.
tx_submit(c) ==
  LET ds == chain[c]
      n  == Len(ds)
      ck == cookie + 1
      issue == pending + n >= PendingLevel
  IN  /\ pc[c] = "prepared" /\ desc_lock_free
      /\ cookie' = ck /\ parts' = Append(parts, n)
      /\ desc' = [d \in Desc |->
                    IF d = Last(used_desc) THEN [desc[d] EXCEPT !.next = ds[1]]
                    ELSE IF d \notin Elems(ds) THEN desc[d]
                    ELSE LET i == CHOOSE i \in 1..n : ds[i] = d
                         IN  [desc[d] EXCEPT !.part = <<ck, i>>,
                                             !.cookie = IF i = n THEN ck ELSE @]]
      /\ used_desc' = used_desc \o ds
      /\ timer' = (timer \/ "PENDING" \notin state)
      /\ state' = state \union {"PENDING"}
      /\ active' = active + n
      /\ pending' = IF issue THEN 0 ELSE pending + n
      /\ IF issue THEN AppendCommand ELSE UNCHANGED hw
      /\ chain' = [chain EXCEPT ![c] = <<>>]
      /\ wait' = [wait EXCEPT ![c] = ck]
      /\ pc' = [pc EXCEPT ![c] = "submitted"]
      /\ UNCHANGED <<free_desc, desccount, completed_cookie, marks, tpc, status,
                     cleaning, tasklet, executed, allocs, fault>>

\* ioat1_dma_memcpy_issue_pending reads the count without the lock ...
issue_pending(c) ==
  /\ pc[c] \in {"submitted", "retry"}
  /\ pc' = [pc EXCEPT ![c] =
              IF pending > 0 THEN (IF @ = "retry" THEN "issue_retry" ELSE "issue_wait")
              ELSE IF @ = "submitted" THEN "waiting"
              ELSE IF wait[c] = 0 THEN "idle" ELSE "submitted"]
  /\ UNCHANGED <<lists, counters, cookies, marks, watchdog, cleaning, tasklet,
                 wait, chain, hw, history>>

\* ... and takes it to clear the count and write the append command.
__issue_pending(c) ==
  /\ pc[c] \in {"issue_wait", "issue_retry"} /\ desc_lock_free
  /\ pending' = 0 /\ AppendCommand
  /\ pc' = [pc EXCEPT ![c] = IF @ = "issue_wait" THEN "waiting"
                             ELSE IF wait[c] = 0 THEN "idle" ELSE "submitted"]
  /\ UNCHANGED <<lists, active, desccount, cookies, marks, watchdog, cleaning,
                 tasklet, wait, chain, history>>

\* dma_sync_wait sees its cookie completed, and the client goes on.
wait_done(c) ==
  /\ pc[c] = "waiting" /\ cleanup_lock # c
  /\ wait[c] <= completed_cookie
  /\ pc' = [pc EXCEPT ![c] = "idle"] /\ wait' = [wait EXCEPT ![c] = 0]
  /\ UNCHANGED <<lists, counters, cookies, marks, watchdog, cleaning, tasklet,
                 chain, hw, history>>

\* dma_sync_wait gives up after 5 seconds.
wait_timeout(c) ==
  /\ MayTimeOut /\ pc[c] = "waiting" /\ cleanup_lock # c
  /\ wait[c] > completed_cookie /\ (Prompt => Stopped)
  /\ pc' = [pc EXCEPT ![c] = "idle"] /\ wait' = [wait EXCEPT ![c] = 0]
  /\ UNCHANGED <<lists, counters, cookies, marks, watchdog, cleaning, tasklet,
                 chain, hw, history>>

-----------------------------------------------------------------------------
(* Cleaning up: the clients that poll, and the tasklet.                    *)

\* Clients call ioat1_cleanup through ioat_dma_tx_status while they wait.
Cleaners == Clients \union {"tasklet"}

MayClean(p) == IF p = "tasklet" THEN tasklet /\ desccount # 0
               ELSE pc[p] = "waiting" /\ wait[p] > completed_cookie

\* ioat1_cleanup takes cleanup_lock and finds, in ioat_cleanup_preamble, that
\* the engine has made progress.
cleanup_preamble(p) ==
  /\ MayClean(p) /\ cleanup_lock = "none" /\ tpc = "idle"
  /\ completion # last_completion
  /\ cleanup_lock' = p /\ phys_complete' = completion
  /\ state' = state \ {"ACK"} /\ timer' = TRUE
  /\ UNCHANGED <<lists, counters, cookies, marks, tpc, status, tasklet, clients,
                 hw, history>>

Unlock(p) == /\ cleanup_lock' = "none" /\ phys_complete' = 0
             /\ tasklet' = (tasklet /\ p # "tasklet")

\* It then gets desc_lock ...
cleanup(p) ==
  /\ cleanup_lock = p
  /\ __cleanup(phys_complete)
  /\ Unlock(p)
  /\ UNCHANGED <<pending, desccount, cookie, completion, timer, tpc, status,
                 clients, hw, history>>

\* ... or gives up, because a client that prepares, submits or issues has it.
cleanup_contended(p) ==
  /\ cleanup_lock = p
  /\ \E c \in Clients \ {p} : pc[c] # "waiting"
  /\ Unlock(p)
  /\ UNCHANGED <<lists, counters, cookies, marks, watchdog, clients, hw, history>>

\* The tasklet finds cleanup_lock taken, or no progress.
tasklet_returns ==
  /\ MayClean("tasklet") /\ cleanup_lock # "tasklet"
  /\ cleanup_lock # "none" \/ tpc # "idle" \/ completion = last_completion
  /\ tasklet' = FALSE
  /\ UNCHANGED <<lists, counters, cookies, marks, watchdog, cleaning, clients,
                 hw, history>>

-----------------------------------------------------------------------------
(* The watchdog timer.  The handler holds both locks.                      *)

\* With Prompt, the engine and the clients are faster than the timeouts: the
\* timer only expires when the engine has stopped or has nothing to do, and no
\* client is about to take desc_lock for an append.
Expires ==
  /\ timer /\ cleanup_lock = "none" /\ tpc = "idle"
  /\ Prompt => /\ \/ Stopped
                  \/ /\ hw_state = "idle" /\ ~hw_append
                     /\ pending <= 0 \/ \A c \in Clients : pc[c] \in {"idle", "waiting"}
               /\ \A c \in Clients : pc[c] \notin {"issue_wait", "issue_retry"}

\* The handler runs when the channel has been taken down: with either bit set
\* it uses a completion area or a descriptor that was freed.
timer_after_free ==
  /\ Expires /\ desccount = 0
  /\ timer' = FALSE
  /\ fault' = (fault \/ state \intersect {"RESET", "PENDING"} # {})
  /\ UNCHANGED <<lists, counters, cookies, marks, state, tpc, status, cleaning,
                 tasklet, clients, hw, parts, executed, allocs>>

timer_nothing ==
  /\ Expires /\ desccount # 0 /\ state \intersect {"RESET", "PENDING"} = {}
  /\ timer' = FALSE
  /\ UNCHANGED <<lists, counters, cookies, marks, state, tpc, status, cleaning,
                 tasklet, clients, hw, history>>

timer_restart_NoStart ==
  /\ Expires /\ desccount # 0 /\ "RESET" \in state
  /\ pending' = 0
  /\ state' = (state \ {"RESET"}) \union {"PENDING"} /\ timer' = TRUE
  /\ UNCHANGED <<lists, active, desccount, cookies, marks, tpc, status, cleaning,
                 tasklet, clients, hw, history>>
\* The reset is over: the engine starts at used_desc.prev.
timer_restart ==
  /\ Expires /\ desccount # 0 /\ "RESET" \in state
  /\ Start(Last(used_desc), desc[Last(used_desc)].next)
  /\ pending' = 0
  /\ state' = (state \ {"RESET"}) \union {"PENDING"} /\ timer' = TRUE
  /\ UNCHANGED <<lists, active, desccount, cookies, marks, tpc, status, cleaning,
                 tasklet, clients, history>>

Overdue == Expires /\ desccount # 0 /\ "RESET" \notin state /\ "PENDING" \in state

timer_cleanup ==
  /\ Overdue /\ completion # last_completion
  /\ __cleanup(completion)
  /\ timer' = TRUE
  /\ UNCHANGED <<pending, desccount, cookie, completion, tpc, status, cleaning,
                 tasklet, clients, hw, history>>

\* No progress: the first time the status register is read ...
timer_check ==
  /\ Overdue /\ completion = last_completion
  /\ tpc' = IF "ACK" \in state THEN "reset" ELSE "update"
  /\ status' = IF "ACK" \in state THEN 0 ELSE hw_last
  /\ timer' = FALSE
  /\ UNCHANGED <<lists, counters, cookies, marks, state, cleaning, tasklet,
                 clients, hw, history>>

\* ... and written to the completion area ...
timer_update ==
  /\ tpc = "update"
  /\ completion' = IF status # 0 THEN status ELSE completion
  /\ state' = state \union {"ACK"} /\ timer' = TRUE
  /\ tpc' = "idle" /\ status' = 0
  /\ UNCHANGED <<lists, counters, cookies, last_completion, cleaning, tasklet,
                 clients, hw, history>>

\* ... and the second time ioat1_reset_channel resets the engine.
reset_channel ==
  /\ tpc = "reset"
  /\ pending' = INT_MIN
  /\ Reset
  /\ state' = state \union {"RESET"} /\ timer' = TRUE
  /\ tpc' = "idle"
  /\ UNCHANGED <<lists, active, desccount, cookies, marks, status, cleaning,
                 tasklet, clients, history>>

-----------------------------------------------------------------------------
(* The DMA engine.                                                         *)

\* The engine makes the copy, reports it when the descriptor says so, raises an
\* interrupt for the null descriptor (no caller asks for one), and goes on to
\* the descriptor whose address it had fetched.
hw_execute ==
  /\ hw_state = "run" /\ ~suspended
  /\ executed' = executed \union {desc[hw_cur].part}
  /\ hw_last' = hw_cur
  /\ completion' = IF desc[hw_cur].compl_write THEN hw_cur ELSE completion
  /\ tasklet' = (tasklet \/ desc[hw_cur].part = <<0, 0>>)
  /\ IF hw_next = 0
     THEN hw_state' = "idle" /\ UNCHANGED <<hw_cur, hw_next>>
     ELSE hw_cur' = hw_next /\ hw_next' = desc[hw_next].next /\ UNCHANGED hw_state
  /\ UNCHANGED <<lists, counters, cookies, last_completion, watchdog, cleaning,
                 clients, hw_append, suspended, parts, allocs, fault>>

\* At the end of its chain, and told to append, it reads the last link again.
hw_reads_append ==
  /\ hw_state = "idle" /\ hw_append /\ ~suspended
  /\ hw_append' = FALSE
  /\ LET n == desc[hw_cur].next
     IN  IF n = 0 THEN UNCHANGED <<hw_state, hw_cur, hw_next>>
         ELSE hw_state' = "run" /\ hw_cur' = n /\ hw_next' = desc[n].next
  /\ UNCHANGED <<lists, counters, cookies, marks, watchdog, cleaning, tasklet,
                 clients, hw_last, suspended, history>>

\* An error stops it; it reports the last descriptor it has finished.
hw_halt ==
  /\ MayHalt /\ hw_state = "run" /\ ~suspended
  /\ hw_state' = "halted" /\ tasklet' = TRUE
  /\ completion' = IF hw_last # 0 THEN hw_last ELSE completion
  /\ UNCHANGED <<lists, counters, cookies, last_completion, watchdog, cleaning,
                 clients, hw_cur, hw_next, hw_last, hw_append, suspended, history>>

\* ioat_suspend_chan and ioat_resume_chan, called by the priority policy.
suspend_chan ==
  /\ MaySuspend /\ hw_state \in {"run", "idle"} /\ suspended' = TRUE
  /\ UNCHANGED <<lists, counters, cookies, marks, watchdog, cleaning, tasklet,
                 clients, hw_state, hw_cur, hw_next, hw_last, hw_append, history>>

resume_chan ==
  /\ suspended /\ suspended' = FALSE
  /\ UNCHANGED <<lists, counters, cookies, marks, watchdog, cleaning, tasklet,
                 clients, hw_state, hw_cur, hw_next, hw_last, hw_append, history>>

-----------------------------------------------------------------------------
Client(c) == \/ \E n \in 1..MaxParts : prep_memcpy(c, n) \/ prep_memcpy_fails(c, n)
             \/ tx_submit(c) \/ issue_pending(c) \/ __issue_pending(c)
             \/ wait_done(c) \/ wait_timeout(c)
Cleanup(p) == cleanup_preamble(p) \/ cleanup(p) \/ cleanup_contended(p)
Timer == \/ timer_after_free \/ timer_nothing \/ timer_restart \/ timer_cleanup
         \/ timer_check \/ timer_update \/ reset_channel
Engine == hw_execute \/ hw_reads_append \/ hw_halt \/ suspend_chan \/ resume_chan

\* Every copy of a bounded behaviour has been made and the channel is at rest.
AtRest == /\ \A c \in Clients : pc[c] = "idle"
          /\ allocs = MaxAllocs /\ (cookie = MaxCookie \/ desccount = 0)
          /\ UNCHANGED vars

Next == \/ alloc_chan_resources \/ free_chan_resources
        \/ \E c \in Clients : Client(c)
        \/ \E p \in Cleaners : Cleanup(p)
        \/ tasklet_returns \/ Timer \/ Engine \/ AtRest

Spec == Init /\ [][Next]_vars

\* The engine works, and what is pending does not wait for ever: a client that
\* has a lock or a cpu goes on, pollers poll until they are done, and the timer
\* expires.  Suspended channels are resumed when the quantum of the high
\* priority ends, and the engine does not halt for ever.
Fairness ==
  /\ SF_vars(hw_execute) /\ SF_vars(hw_reads_append) /\ WF_vars(resume_chan)
  /\ WF_vars(Timer) /\ WF_vars(tasklet_returns)
  /\ \A c \in Clients : /\ WF_vars(tx_submit(c)) /\ WF_vars(issue_pending(c))
                         /\ WF_vars(__issue_pending(c)) /\ WF_vars(wait_done(c))
  /\ \A p \in Cleaners : WF_vars(cleanup_preamble(p)) /\ SF_vars(cleanup(p))

FairSpec == Spec /\ Fairness

-----------------------------------------------------------------------------
Part == {<<0, 0>>} \union (1..MaxCookie) \X (1..MaxParts)

\* Every variable has its type.
TypeOK ==
  /\ free_desc \in Seq(Desc) /\ used_desc \in Seq(Desc)
  /\ desc \in [Desc -> [next : 0..MaxDesc, compl_write : BOOLEAN,
                        tx_cnt : 0..MaxParts, cookie : 0..MaxCookie, part : Part]]
  /\ pending \in Int /\ active \in Int /\ desccount \in {0, InitialDescs}
  /\ {last_completion, completion, phys_complete, status} \subseteq 0..MaxDesc
  /\ state \subseteq {"PENDING", "ACK", "RESET"} /\ timer \in BOOLEAN
  /\ cookie \in 0..MaxCookie /\ completed_cookie \in 0..MaxCookie
  /\ cleanup_lock \in Cleaners \union {"none"}
  /\ tpc \in {"idle", "update", "reset"} /\ tasklet \in BOOLEAN
  /\ pc \in [Clients -> {"idle", "prepared", "submitted", "retry", "issue_wait",
                         "issue_retry", "waiting"}]
  /\ wait \in [Clients -> 0..MaxCookie] /\ chain \in [Clients -> Seq(Desc)]
  /\ hw_state \in {"reset", "run", "idle", "halted"}
  /\ {hw_cur, hw_next, hw_last} \subseteq 0..MaxDesc
  /\ hw_append \in BOOLEAN /\ suspended \in BOOLEAN
  /\ parts \in Seq(1..MaxParts) /\ executed \subseteq Part
  /\ allocs \in 0..MaxAllocs /\ fault \in BOOLEAN

\* A descriptor is on one list at a time: free, in use, or in the chain of the
\* one client that prepares it.
OnOneList ==
      /\ \A l \in {free_desc, used_desc} \union {chain[c] : c \in Clients} :
           \A i, j \in DOMAIN l : l[i] = l[j] => i = j
      /\ Elems(free_desc) \intersect Elems(used_desc) = {}
      /\ \A c \in Clients :
           /\ Elems(chain[c]) \intersect (Elems(free_desc) \union Elems(used_desc)) = {}
           /\ \A b \in Clients \ {c} : Elems(chain[c]) \intersect Elems(chain[b]) = {}

\* The links that the engine follows are the order of the used list, which
\* always keeps one descriptor to append to.
LinksFollowList ==
  desccount # 0 =>
    /\ used_desc # <<>>
    /\ \A i \in DOMAIN used_desc :
         desc[used_desc[i]].next = IF i = Len(used_desc) THEN 0 ELSE used_desc[i + 1]

\* Neither the engine nor the driver keeps the address of a descriptor that has
\* been recycled: what it works on, what it fetched, what it reported, and the
\* addresses a cleanup has read are all in use.
AddressesInUse ==
  desccount # 0 =>
    {hw_cur, hw_next, hw_last, completion, last_completion, phys_complete, status}
      \subseteq Elems(used_desc) \union {0}

\* The transactions of the used list are the ones submitted and not completed,
\* in the order of their cookies: the cleanup neither skips nor repeats one.
CookiesInOrder ==
  desccount # 0 =>
    /\ completed_cookie <= cookie
    /\ {desc[used_desc[i]].cookie : i \in DOMAIN used_desc} \ {0} = (completed_cookie + 1)..cookie
    /\ \A i, j \in DOMAIN used_desc :
         i < j /\ desc[used_desc[j]].cookie # 0
           => desc[used_desc[i]].cookie < desc[used_desc[j]].cookie

\* The lists the cpus and the engine share stay sound: descriptors, links,
\* addresses and cookies agree whatever is cleaned up, reset and restarted.
ListsSound == TypeOK /\ OnOneList /\ LinksFollowList /\ AddressesInUse /\ CookiesInOrder

\* A transaction is completed only when all its parts have been copied.
CompletedMeansCopied ==
  \A k \in 1..completed_cookie : \A i \in 1..parts[k] : <<k, i>> \in executed

\* The engine never starts on a copy that is already completed, whose pages
\* may have been released.
NoCopyAfterCompletion ==
  hw_state = "run" => LET p == desc[hw_cur].part IN p[1] = 0 \/ p[1] > completed_cookie

\* While a transaction is outstanding the watchdog is armed (or running): no
\* completion that goes unnoticed is waited for for ever.
WatchdogArmed ==
  (\E i \in DOMAIN used_desc : desc[used_desc[i]].cookie # 0)
    => timer \/ tpc # "idle"

\* The timer never runs on a channel that has been taken down.
TimerQuietAfterFree == ~fault

\* Every wait for a copy ends.
WaitsEnd == \A c \in Clients : pc[c] = "waiting" ~> pc[c] = "idle"
=============================================================================
