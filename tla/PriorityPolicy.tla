--------------------------- MODULE PriorityPolicy ---------------------------
(***************************************************************************)
(* The priority policy of source/drivers/dma/dma_policy_prio.c.  A module  *)
(* starts it with two quanta: DMA_MAX_CHAN_PRIO channels are requested and *)
(* given the priorities 0, 1, 2, ..., and an hrtimer suspends every        *)
(* channel but the first for the high quantum and resumes them for the low *)
(* one, for ever.  Copies name the priority they want and go to its        *)
(* channel; they are made as in DmaCopy, one piece per page, and here a    *)
(* piece is only the copy it belongs to.                                   *)
(*                                                                         *)
(* The timer's callback runs in interrupt context, atomically for the      *)
(* others, and hrtimer_cancel waits for one that runs.  The loops of start *)
(* and stop are cut at each channel, so that the timer and other users of  *)
(* the allocator act in between.  A module stops the policy after its last *)
(* copy: its device holds the module while a file is open.                 *)
(***************************************************************************)
EXTENDS Integers, Sequences, FiniteSets

CONSTANTS
  NumChans,               \* channels of the device
  DMA_MAX_CHAN_PRIO,
  Clients,                \* processes that copy
  MaxStarts, MaxCopies,   \* how often the policy is started, copies of each client
  MaxPages, Slots         \* pages of a copy, descriptors of a channel

ASSUME PolicyAssumption ==
  /\ NumChans \in Nat /\ DMA_MAX_CHAN_PRIO \in Nat \ {0}
  /\ MaxStarts \in Nat /\ MaxCopies \in Nat /\ MaxPages \in Nat /\ Slots \in Nat \ {0}

DMA_HIGH_PRIO == 0
DMA_LOW_PRIO  == 128
MAX_QUANTUM   == 2
Chans         == 1..NumChans
Index         == 1..DMA_MAX_CHAN_PRIO

VARIABLES
  pol, starts,            \* where the module is in start and stop; starts so far
  i,                      \* the loop index of release_dma_chan_prio
  size, chan_prio, priority,     \* list_chan_prio; channel 0 is NULL
  armed, tick, list_chan, \* prio_timer; list_chan says whether it is not NULL
  forward,                \* the quantum the timer was last forwarded by
  free, others,           \* channels nobody has requested, and those other users have
  suspended,              \* suspended channels
  cpc, req,               \* the clients and their requests
  queue, issued           \* what each channel has to do, and how much is issued

list   == <<size, chan_prio, priority>>
timer  == <<armed, tick, list_chan, forward>>
policy == <<pol, starts, i, list, timer>>
allocator == <<free, others>>
copy   == <<cpc, req>>
hw     == <<queue, issued>>
vars   == <<policy, allocator, suspended, copy, hw>>

Init ==
  /\ pol = "off" /\ starts = 0 /\ i = 1
  /\ size = 0 /\ chan_prio = [k \in Index |-> 0] /\ priority = [k \in Index |-> 0]
  /\ armed = FALSE /\ tick = 0 /\ list_chan = FALSE /\ forward = 0
  /\ free = Chans /\ others = {} /\ suspended = {}
  /\ cpc = [p \in Clients |-> "idle"]
  /\ req = [p \in Clients |-> [prio |-> 0, chan |-> 0, left |-> 0, no |-> 0, status |-> "none"]]
  /\ queue = [c \in Chans |-> <<>>] /\ issued = [c \in Chans |-> 0]

-----------------------------------------------------------------------------
(* Start: init_dma_chan_prio, then complete_dma_chan_prio.                 *)

start_policy_prio2 ==
  /\ pol = "off" /\ starts < MaxStarts
  /\ starts' = starts + 1
  /\ size' = 0 /\ chan_prio' = [k \in Index |-> 0] /\ priority' = [k \in Index |-> DMA_LOW_PRIO]
  /\ pol' = "complete"
  /\ UNCHANGED <<i, timer, allocator, suspended, copy, hw>>

\* dma_request_channel gives one of the channels nobody has ...
complete_dma_chan_prio(c) ==
  /\ pol = "complete" /\ size < DMA_MAX_CHAN_PRIO /\ c \in free
  /\ chan_prio' = [chan_prio EXCEPT ![size + 1] = c] /\ size' = size + 1
  /\ free' = free \ {c}
  /\ UNCHANGED <<pol, starts, i, priority, timer, others, suspended, copy, hw>>

\* ... or none, and start gives back what it has.
no_prio_channel ==
  /\ pol = "complete" /\ size < DMA_MAX_CHAN_PRIO
  /\ pol' = "release" /\ i' = 1
  /\ UNCHANGED <<starts, list, timer, allocator, suspended, copy, hw>>

\* With every channel there the priorities are set and the timer started; the
\* first period changes nothing.
start_timer_Resumes ==
  /\ pol = "complete" /\ size = DMA_MAX_CHAN_PRIO
  /\ priority' = [k \in Index |-> DMA_HIGH_PRIO + k - 1]
  /\ armed' = TRUE /\ tick' = 1 /\ list_chan' = TRUE /\ forward' = 0
  /\ pol' = "on"
  /\ UNCHANGED <<starts, i, size, chan_prio, allocator, suspended, copy, hw>>
start_timer ==
  /\ pol = "complete" /\ size = DMA_MAX_CHAN_PRIO
  /\ priority' = [k \in Index |-> DMA_HIGH_PRIO + k - 1]
  /\ armed' = TRUE /\ tick' = MAX_QUANTUM /\ list_chan' = TRUE /\ forward' = 0
  /\ pol' = "on"
  /\ UNCHANGED <<starts, i, size, chan_prio, allocator, suspended, copy, hw>>

-----------------------------------------------------------------------------
(* The timer.                                                              *)

\* The channels supend_chan_prio and resume_chan_prio act on.
Below(prio) == {chan_prio[k] : k \in {j \in 1..size : priority[j] > prio}}

resume_chan_prio == suspended' = suspended \ Below(DMA_HIGH_PRIO)
supend_chan_prio == suspended' = suspended \union Below(DMA_HIGH_PRIO)

prio_hrtimer_callback_NoForward ==
  /\ armed
  /\ LET t == tick % MAX_QUANTUM
     IN  /\ IF t = 0 THEN supend_chan_prio ELSE resume_chan_prio
         /\ forward' = t
         /\ tick' = t
  /\ UNCHANGED <<pol, starts, i, list, armed, list_chan, allocator, copy, hw>>
prio_hrtimer_callback ==
  /\ armed
  /\ LET t == tick % MAX_QUANTUM
     IN  /\ IF t = 0 THEN supend_chan_prio ELSE resume_chan_prio
         /\ forward' = t
         /\ tick' = t + 1
  /\ UNCHANGED <<pol, starts, i, list, armed, list_chan, allocator, copy, hw>>

-----------------------------------------------------------------------------
(* Stop: cancel the timer, resume the channels, give them back.            *)

Stopping == pol = "on" /\ \A p \in Clients : cpc[p] = "idle"

cancel_timer_Late ==
  /\ Stopping
  /\ pol' = "resume"
  /\ UNCHANGED <<starts, i, list, timer, allocator, suspended, copy, hw>>
cancel_timer ==
  /\ Stopping
  /\ armed' = FALSE /\ pol' = "resume"
  /\ UNCHANGED <<starts, i, list, tick, list_chan, forward, allocator, suspended, copy, hw>>

stop_policy_prio_NoResume ==
  /\ pol = "resume"
  /\ list_chan' = FALSE /\ tick' = 0
  /\ pol' = "release" /\ i' = 1
  /\ UNCHANGED <<starts, list, armed, forward, allocator, suspended, copy, hw>>
stop_policy_prio ==
  /\ pol = "resume"
  /\ resume_chan_prio
  /\ list_chan' = FALSE /\ tick' = 0
  /\ pol' = "release" /\ i' = 1
  /\ UNCHANGED <<starts, list, armed, forward, allocator, copy, hw>>

\* dma_release_channel takes the channel down, with what it still had to do.
release_dma_chan_prio ==
  /\ pol = "release"
  /\ IF i <= size
     THEN /\ free' = free \union {chan_prio[i]}
          /\ queue' = [queue EXCEPT ![chan_prio[i]] = <<>>]
          /\ issued' = [issued EXCEPT ![chan_prio[i]] = 0]
          /\ chan_prio' = [chan_prio EXCEPT ![i] = 0] /\ i' = i + 1
          /\ UNCHANGED <<size, pol>>
     ELSE size' = 0 /\ pol' = "off" /\ UNCHANGED <<i, chan_prio, free, hw>>
  /\ UNCHANGED <<starts, priority, timer, others, suspended, copy>>

\* Other users of the allocator request channels and give them back.
other_request(c) ==
  /\ c \in free /\ free' = free \ {c} /\ others' = others \union {c}
  /\ UNCHANGED <<policy, suspended, copy, hw>>
other_release(c) ==
  /\ c \in others /\ free' = free \union {c} /\ others' = others \ {c}
  /\ UNCHANGED <<policy, suspended, copy, hw>>

-----------------------------------------------------------------------------
(* Copies.                                                                 *)

\* copy_dma_get_channel_prio: the first channel of the list with the priority,
\* or NULL.
copy_dma_get_channel_prio(prio) ==
  LET hits == {k \in 1..size : priority[k] = prio}
  IN  IF hits = {} THEN 0 ELSE chan_prio[CHOOSE k \in hits : \A j \in hits : k <= j]

\* dma_pin_user_pages_prio: n pages are pinned, or a failure releases those it
\* got.
dma_pin_user_pages_prio(p, prio, n) ==
  /\ cpc[p] = "idle" /\ pol = "on" /\ req[p].no < MaxCopies
  /\ \/ /\ req' = [req EXCEPT ![p] = [prio |-> prio, chan |-> 0, left |-> n,
                                      no |-> @.no + 1, status |-> "none"]]
        /\ cpc' = [cpc EXCEPT ![p] = IF n > 0 THEN "channel" ELSE "unpin"]
     \/ /\ req' = [req EXCEPT ![p].no = @ + 1, ![p].status = "PIN_FAILED"]
        /\ UNCHANGED cpc
  /\ UNCHANGED <<policy, allocator, suspended, hw>>

get_channel(p) ==
  /\ cpc[p] = "channel"
  /\ LET c == copy_dma_get_channel_prio(req[p].prio)
     IN  /\ req' = [req EXCEPT ![p].chan = c, ![p].status = IF c = 0 THEN "EBUSY" ELSE @]
         /\ cpc' = [cpc EXCEPT ![p] = IF c = 0 THEN "unpin" ELSE "submit"]
  /\ UNCHANGED <<policy, allocator, suspended, hw>>

\* One turn of the loop over the pages; tx_submit may issue the piece.
submit(p) ==
  /\ cpc[p] = "submit"
  /\ LET c == req[p].chan
     IN  /\ Len(queue[c]) < Slots
         /\ queue' = [queue EXCEPT ![c] = Append(@, <<p, req[p].no>>)]
         /\ issued' \in {issued, [issued EXCEPT ![c] = Len(queue[c]) + 1]}
  /\ req' = [req EXCEPT ![p].left = @ - 1]
  /\ cpc' = [cpc EXCEPT ![p] = IF req[p].left = 1 THEN "wait" ELSE "submit"]
  /\ UNCHANGED <<policy, allocator, suspended>>

no_descriptor(p) ==
  /\ cpc[p] = "submit" /\ Len(queue[req[p].chan]) = Slots
  /\ issued' = [issued EXCEPT ![req[p].chan] = Slots]
  /\ UNCHANGED <<policy, allocator, suspended, copy, queue>>

sync_wait(p) ==
  /\ cpc[p] = "wait"
  /\ issued' = [issued EXCEPT ![req[p].chan] = Len(queue[req[p].chan])]
  /\ cpc' = [cpc EXCEPT ![p] = "poll"]
  /\ UNCHANGED <<policy, allocator, suspended, req, queue>>

Waited(p, s) ==
  /\ cpc[p] = "poll"
  /\ req' = [req EXCEPT ![p].status = s] /\ cpc' = [cpc EXCEPT ![p] = "unpin"]
  /\ UNCHANGED <<policy, allocator, suspended, hw>>
Pending(p)      == \E k \in DOMAIN queue[req[p].chan] : queue[req[p].chan][k] = <<p, req[p].no>>
wait_done(p)    == Waited(p, "SUCCESS") /\ ~Pending(p)
wait_timeout(p) == Waited(p, "ERROR") /\ Pending(p)

dma_unpin_user_pages_prio(p) ==
  /\ cpc[p] = "unpin" /\ cpc' = [cpc EXCEPT ![p] = "idle"]
  /\ UNCHANGED <<policy, allocator, suspended, req, hw>>

\* The engine makes the next piece of a channel that is not suspended.
hw_execute(c) ==
  /\ issued[c] > 0 /\ c \notin suspended
  /\ queue' = [queue EXCEPT ![c] = Tail(@)] /\ issued' = [issued EXCEPT ![c] = @ - 1]
  /\ UNCHANGED <<policy, allocator, suspended, copy>>

-----------------------------------------------------------------------------
Policy ==
  \/ start_policy_prio2 \/ (\E c \in Chans : complete_dma_chan_prio(c)) \/ no_prio_channel
  \/ start_timer \/ cancel_timer \/ stop_policy_prio \/ release_dma_chan_prio

Copying(p) ==
  \/ get_channel(p) \/ submit(p) \/ no_descriptor(p) \/ sync_wait(p) \/ wait_done(p)
  \/ dma_unpin_user_pages_prio(p)

Next ==
  \/ Policy \/ prio_hrtimer_callback
  \/ \E c \in Chans : other_request(c) \/ other_release(c) \/ hw_execute(c)
  \/ \E p \in Clients :
       \/ \E prio \in 0..DMA_MAX_CHAN_PRIO, n \in 0..MaxPages : dma_pin_user_pages_prio(p, prio, n)
       \/ Copying(p) \/ wait_timeout(p)

Spec == Init /\ [][Next]_vars

\* Processes run, the timer expires, and a quantum is long enough for a channel
\* that is resumed again and again to make a piece and for a client that polls
\* to find a descriptor.
Fairness ==
  /\ WF_vars(prio_hrtimer_callback)
  /\ \A c \in Chans : SF_vars(hw_execute(c))
  /\ \A p \in Clients : WF_vars(Copying(p)) /\ SF_vars(submit(p))

FairSpec == Spec /\ Fairness

-----------------------------------------------------------------------------
Listed == {chan_prio[k] : k \in 1..size} \ {0}

\* A start that runs out of channels half way and a stop give back every channel
\* they took, once, while other users take and give back theirs.
NoneLost ==
  /\ Chans = free \union others \union Listed
  /\ free \intersect others = {} /\ Listed \intersect (free \union others) = {}
  /\ pol = "off" => Listed = {}

\* The timer's callback, which takes no lock, only ever meets a whole list: while
\* it is armed every entry is a channel the policy has, each once, and the first
\* is the only one of high priority.
TimerSeesList ==
  armed =>
    /\ list_chan /\ size = DMA_MAX_CHAN_PRIO
    /\ \A k \in 1..size : chan_prio[k] \in Chans /\ (priority[k] = DMA_HIGH_PRIO <=> k = 1)
    /\ \A k, l \in 1..size : chan_prio[k] = chan_prio[l] => k = l

\* No channel is suspended that the policy does not have: a start that fails, a
\* stop and a timer that expires during the stop never give a suspended channel
\* back to the allocator.
NoneLeftSuspended == suspended \subseteq Listed

\* What the policy takes it gives back, all of it, and running.
GivenBack == NoneLost /\ NoneLeftSuspended

\* In the high quantum, once the timer has suspended the others, only the channel
\* of high priority uses the bus.
HighAlone ==
  [][\A c \in Chans :
       /\ armed /\ tick = 1 /\ forward = 0
       /\ Len(queue[c]) > 0 /\ queue'[c] = Tail(queue[c])
       => c = chan_prio[1]]_vars

\* Every copy comes to an end, whatever its priority and however often its
\* channel is suspended, without relying on the five seconds of dma_sync_wait.
CopyEnds == \A p \in Clients : cpc[p] # "idle" ~> cpc[p] = "idle"
=============================================================================
