------------------------ MODULE PriorityPolicyProofs ------------------------
(***************************************************************************)
(* Proofs about PriorityPolicy, for any number of channels, priorities and *)
(* clients: what the policy takes it gives back running, its timer only    *)
(* meets a whole list, and the high quantum belongs to one channel.        *)
(***************************************************************************)
EXTENDS PriorityPolicy, TLAPS

\* The types of the variables, part by part.
PolicyType ==
  /\ pol \in {"off", "complete", "on", "resume", "release"} /\ starts \in Nat
  /\ i \in 1..(DMA_MAX_CHAN_PRIO + 1)
  /\ size \in 0..DMA_MAX_CHAN_PRIO
  /\ chan_prio \in [Index -> Chans \union {0}] /\ priority \in [Index -> Nat]
  /\ tick \in Nat /\ forward \in Nat
SwitchType == armed \in BOOLEAN /\ list_chan \in BOOLEAN
ChanType == free \subseteq Chans /\ others \subseteq Chans /\ suspended \subseteq Chans
CopyType ==
  /\ cpc \in [Clients -> {"idle", "channel", "submit", "wait", "poll", "unpin"}]
  /\ req \in [Clients -> [prio : Nat, chan : Chans \union {0}, left : Int, no : Nat,
                          status : {"none", "PIN_FAILED", "EBUSY", "SUCCESS", "ERROR"}]]
HwType == queue \in [Chans -> Seq(Clients \X Nat)] /\ issued \in [Chans -> Nat]

TypeInv == PolicyType /\ SwitchType /\ ChanType /\ CopyType /\ HwType

\* The list: its entries are channels, each once, but for those that the release
\* has cleared; the timer runs only over a whole one.
SlotsInv ==
  /\ \A k \in 1..size : chan_prio[k] = 0 <=> (pol = "release" /\ k < i)
  /\ \A k, l \in 1..size : chan_prio[k] # 0 /\ chan_prio[k] = chan_prio[l] => k = l
  /\ pol = "off" => size = 0
  /\ pol \in {"on", "resume"} =>
       size = DMA_MAX_CHAN_PRIO /\ \A k \in Index : priority[k] = k - 1
  /\ armed <=> pol = "on"
  /\ armed => list_chan

\* The channels of the list, of nobody and of other users are all channels.
OwnInv ==
  /\ \A c \in Chans : c \in free \/ c \in others \/ c \in Listed
  /\ \A c \in free : c \notin others /\ c \notin Listed
  /\ \A c \in others : c \notin Listed

\* The entries of the list that a suspension is about.
Lower == {chan_prio[k] : k \in 2..size}

\* Only what the policy may suspend is suspended, and in the high quantum all of
\* it is.
SuspendInv ==
  /\ pol \notin {"on", "resume"} => suspended = {}
  /\ suspended \subseteq Lower
  /\ armed /\ tick = 1 /\ forward = 0 => Lower \subseteq suspended

\* Copies run while the policy is on, on its channels, and only its channels have
\* anything to do.
CopyInv ==
  /\ \A p \in Clients : cpc[p] # "idle" => pol = "on"
  /\ \A p \in Clients : cpc[p] \in {"submit", "wait", "poll"} => req[p].chan \in Listed
  /\ \A c \in Chans : issued[c] <= Len(queue[c]) /\ (queue[c] # <<>> => c \in Listed)

IInv == TypeInv /\ SlotsInv /\ OwnInv /\ SuspendInv /\ CopyInv

-----------------------------------------------------------------------------
\* The invariant holds when nothing has been started.
LEMMA InitHolds == Init => IInv
<1> SUFFICES ASSUME Init PROVE IInv
  OBVIOUS
<1> USE PolicyAssumption DEF Init, Chans, Index
<1>1. PolicyType /\ ChanType
  BY DEF PolicyType, ChanType
<1>2. SwitchType
  BY DEF SwitchType
<1>3. CopyType
  BY DEF CopyType
<1>4. HwType
  BY DEF HwType
<1>5. Listed = {}
  BY DEF Listed
<1>6. SlotsInv /\ OwnInv /\ SuspendInv
  BY <1>5 DEF SlotsInv, OwnInv, SuspendInv, Lower
<1>7. CopyInv
  BY <1>5 DEF CopyInv
<1> QED
  BY <1>1, <1>2, <1>3, <1>4, <1>6, <1>7 DEF IInv, TypeInv

-----------------------------------------------------------------------------
(* What each kind of step leaves alone.                                    *)

\* Only starting, stopping and the timer change the policy.
LEMMA PolicyFrame ==
  ASSUME [Next]_vars
  PROVE  Policy \/ prio_hrtimer_callback \/ UNCHANGED policy
  BY DEF Next, Copying, vars, other_request, other_release, hw_execute, dma_pin_user_pages_prio,
         get_channel, submit, no_descriptor, sync_wait, wait_done, wait_timeout, Waited,
         dma_unpin_user_pages_prio

\* Only these change who has a channel.
LEMMA ChanFrame ==
  ASSUME [Next]_vars
  PROVE  \/ \E c \in Chans : complete_dma_chan_prio(c) \/ other_request(c) \/ other_release(c)
         \/ release_dma_chan_prio
         \/ UNCHANGED allocator
  BY DEF Next, Policy, Copying, vars, hw_execute, dma_pin_user_pages_prio, get_channel, submit,
         no_descriptor, sync_wait, wait_done, wait_timeout, Waited, dma_unpin_user_pages_prio,
         start_policy_prio2, no_prio_channel, start_timer, cancel_timer, stop_policy_prio,
         prio_hrtimer_callback

\* Only the timer and the stop suspend and resume.
LEMMA SuspendFrame ==
  ASSUME [Next]_vars
  PROVE  stop_policy_prio \/ prio_hrtimer_callback \/ UNCHANGED suspended
  BY DEF Next, Policy, Copying, vars, hw_execute, dma_pin_user_pages_prio, get_channel, submit,
         no_descriptor, sync_wait, wait_done, wait_timeout, Waited, dma_unpin_user_pages_prio,
         start_policy_prio2, no_prio_channel, start_timer, cancel_timer, complete_dma_chan_prio,
         release_dma_chan_prio, other_request, other_release

\* Only a client changes the clients.
LEMMA CopyFrame ==
  ASSUME [Next]_vars
  PROVE  \/ \E p \in Clients :
              \/ \E prio \in 0..DMA_MAX_CHAN_PRIO, n \in 0..MaxPages :
                   dma_pin_user_pages_prio(p, prio, n)
              \/ get_channel(p) \/ submit(p) \/ sync_wait(p)
              \/ wait_done(p) \/ wait_timeout(p) \/ dma_unpin_user_pages_prio(p)
         \/ UNCHANGED copy
  BY DEF Next, Policy, Copying, vars, hw_execute, no_descriptor, start_policy_prio2,
         no_prio_channel, start_timer, cancel_timer, complete_dma_chan_prio, stop_policy_prio,
         release_dma_chan_prio, other_request, other_release, prio_hrtimer_callback

\* Only these change what a channel has to do.
LEMMA HwFrame ==
  ASSUME [Next]_vars
  PROVE  \/ release_dma_chan_prio
         \/ \E c \in Chans : hw_execute(c)
         \/ \E p \in Clients : submit(p) \/ no_descriptor(p) \/ sync_wait(p)
         \/ UNCHANGED hw
  BY DEF Next, Policy, Copying, vars, dma_pin_user_pages_prio, get_channel, wait_done,
         wait_timeout, Waited, dma_unpin_user_pages_prio, start_policy_prio2, no_prio_channel,
         start_timer, cancel_timer, complete_dma_chan_prio, stop_policy_prio, other_request,
         other_release, prio_hrtimer_callback

-----------------------------------------------------------------------------
(* The list.                                                               *)

\* The entries of the list have an index of the array.
LEMMA Indexed ==
  ASSUME PolicyType
  PROVE  size \in Nat /\ 1..size \subseteq Index /\ \A k \in Index : chan_prio[k] \in Chans \union {0}
  BY PolicyAssumption DEF PolicyType, Index

\* A channel of the list is a channel of the device.
LEMMA ListedChans == PolicyType => Listed \subseteq Chans
  BY Indexed DEF Listed

\* While the policy is on or being stopped, the channels below the highest
\* priority are the later entries of the list.
LEMMA OnList ==
  ASSUME PolicyType, SlotsInv, pol \in {"on", "resume"}
  PROVE  Below(DMA_HIGH_PRIO) = Lower /\ Listed = {chan_prio[k] : k \in 1..size}
<1>1. size \in Nat /\ 1..size \subseteq Index /\ \A k \in 1..size : priority[k] = k - 1
  BY Indexed DEF SlotsInv
<1>2. {k \in 1..size : priority[k] > 0} = 2..size
  BY <1>1
<1>3. Below(DMA_HIGH_PRIO) = Lower
  BY <1>2 DEF Below, Lower, DMA_HIGH_PRIO
<1>4. \A k \in 1..size : chan_prio[k] # 0
  BY DEF SlotsInv
<1> QED
  BY <1>3, <1>4 DEF Listed

\* A lookup returns a channel of the list, or NULL.
LEMMA Looked ==
  ASSUME TypeInv, SlotsInv, CopyInv, NEW p \in Clients, cpc[p] = "channel"
  PROVE  copy_dma_get_channel_prio(req[p].prio) \in Listed \union {0}
<1> DEFINE hits == {k \in 1..size : priority[k] = req[p].prio}
<1>1. pol = "on"
  BY DEF CopyInv
<1>2. \A k \in hits : k \in Int /\ priority[k] = k - 1
  BY <1>1, Indexed DEF SlotsInv, TypeInv
<1>3. req[p].prio \in Nat
  BY DEF TypeInv, CopyType
<1>4. \A k \in hits : k = req[p].prio + 1
  BY <1>2, <1>3
<1>5. CASE hits = {}
  BY <1>5 DEF copy_dma_get_channel_prio
<1>6. CASE hits # {}
  <2> DEFINE least == CHOOSE k \in hits : \A j \in hits : k <= j
  <2>1. \E k \in hits : \A j \in hits : k <= j
    <3> HIDE DEF hits
    <3> QED BY <1>2, <1>4, <1>6
  <2>2. least \in hits
    <3> HIDE DEF hits
    <3> QED BY <2>1
  <2>3. copy_dma_get_channel_prio(req[p].prio) = chan_prio[least]
    BY <1>6 DEF copy_dma_get_channel_prio
  <2>4. least \in 1..size
    BY <2>2
  <2>5. chan_prio[least] \in Listed
    <3> HIDE DEF least
    <3> QED BY <1>1, <2>4, OnList DEF TypeInv
  <2> QED
    BY <2>3, <2>5
<1> QED
  BY <1>5, <1>6

-----------------------------------------------------------------------------
(* Every step keeps the types.                                             *)

\* Starting, stopping and the timer keep their types.
LEMMA PolicyTypeStep ==
  ASSUME PolicyType, SlotsInv, [Next]_vars
  PROVE  PolicyType'
<1> USE PolicyAssumption DEF list, timer
<1>1. CASE start_policy_prio2
  BY <1>1 DEF start_policy_prio2, PolicyType, DMA_LOW_PRIO
<1>2. CASE \E c \in Chans : complete_dma_chan_prio(c)
  <2> PICK c \in Chans : complete_dma_chan_prio(c)
    BY <1>2
  <2>1. size' \in 0..DMA_MAX_CHAN_PRIO
    BY DEF complete_dma_chan_prio, PolicyType
  <2>2. chan_prio' \in [Index -> Chans \union {0}]
    BY DEF complete_dma_chan_prio, PolicyType
  <2> QED
    BY <2>1, <2>2 DEF complete_dma_chan_prio, PolicyType
<1>3. CASE no_prio_channel
  BY <1>3 DEF no_prio_channel, PolicyType
<1>4. CASE start_timer
  <2>1. \A k \in Index : DMA_HIGH_PRIO + k - 1 \in Nat
    BY DEF Index, DMA_HIGH_PRIO
  <2>2. priority' \in [Index -> Nat] /\ tick' \in Nat /\ forward' \in Nat
    BY <1>4, <2>1 DEF start_timer, MAX_QUANTUM
  <2> QED
    BY <1>4, <2>2 DEF start_timer, PolicyType
<1>5. CASE cancel_timer
  BY <1>5 DEF cancel_timer, PolicyType
<1>6. CASE stop_policy_prio
  BY <1>6 DEF stop_policy_prio, PolicyType
<1>7. CASE release_dma_chan_prio
  <2>1. CASE i <= size
    <3>1. i' \in 1..(DMA_MAX_CHAN_PRIO + 1)
      BY <1>7, <2>1, PolicyAssumption DEF release_dma_chan_prio, PolicyType
    <3>2. chan_prio' \in [Index -> Chans \union {0}]
      BY <1>7, <2>1 DEF release_dma_chan_prio, PolicyType
    <3> QED
      BY <1>7, <2>1, <3>1, <3>2 DEF release_dma_chan_prio, PolicyType, timer
  <2>2. CASE ~(i <= size)
    BY <1>7, <2>2, PolicyAssumption DEF release_dma_chan_prio, PolicyType, timer
  <2> QED
    BY <2>1, <2>2
<1>8. CASE prio_hrtimer_callback
  <2>1. tick' \in Nat /\ forward' \in Nat
    BY <1>8 DEF prio_hrtimer_callback, PolicyType, MAX_QUANTUM
  <2> QED
    BY <1>8, <2>1 DEF prio_hrtimer_callback, PolicyType
<1>9. CASE UNCHANGED policy
  BY <1>9 DEF policy, PolicyType
<1> QED
  BY <1>1, <1>2, <1>3, <1>4, <1>5, <1>6, <1>7, <1>8, <1>9, PolicyFrame DEF Policy

\* The timer is on or off.
LEMMA SwitchTypeStep ==
  ASSUME SwitchType, [Next]_vars
  PROVE  SwitchType'
<1> USE DEF SwitchType, list, timer
<1>1. CASE Policy
  BY <1>1 DEF Policy, start_policy_prio2, complete_dma_chan_prio, no_prio_channel, start_timer,
     cancel_timer, stop_policy_prio, release_dma_chan_prio
<1>2. CASE prio_hrtimer_callback \/ UNCHANGED policy
  BY <1>2 DEF prio_hrtimer_callback, policy
<1> QED
  BY <1>1, <1>2, PolicyFrame

\* Only channels of the device are handed round and suspended.
LEMMA ChanTypeStep ==
  ASSUME PolicyType, ChanType, SlotsInv, [Next]_vars
  PROVE  ChanType'
<1>1. free' \subseteq Chans /\ others' \subseteq Chans
  <2>1. CASE \E c \in Chans : complete_dma_chan_prio(c) \/ other_request(c) \/ other_release(c)
    BY <2>1 DEF complete_dma_chan_prio, other_request, other_release, ChanType
  <2>2. CASE release_dma_chan_prio
    <3>1. i <= size => chan_prio[i] \in Chans
      BY <2>2, Indexed DEF release_dma_chan_prio, PolicyType, SlotsInv
    <3> QED
      BY <2>2, <3>1 DEF release_dma_chan_prio, ChanType
  <2>3. CASE UNCHANGED allocator
    BY <2>3 DEF allocator, ChanType
  <2> QED
    BY <2>1, <2>2, <2>3, ChanFrame
<1>2. suspended' \subseteq Chans
  <2>1. CASE stop_policy_prio
    BY <2>1 DEF stop_policy_prio, resume_chan_prio, ChanType
  <2>2. CASE prio_hrtimer_callback
    <3>1. pol = "on"
      BY <2>2 DEF prio_hrtimer_callback, SlotsInv
    <3>2. Lower \subseteq Listed
      BY <3>1, OnList, Indexed DEF Lower
    <3>3. Below(DMA_HIGH_PRIO) \subseteq Chans
      BY <3>1, <3>2, OnList, ListedChans
    <3> QED
      BY <2>2, <3>3 DEF prio_hrtimer_callback, supend_chan_prio, resume_chan_prio, ChanType
  <2>3. CASE UNCHANGED suspended
    BY <2>3 DEF ChanType
  <2> QED
    BY <2>1, <2>2, <2>3, SuspendFrame
<1> QED
  BY <1>1, <1>2 DEF ChanType

\* The requests of the clients keep their types.
LEMMA CopyTypeStep ==
  ASSUME TypeInv, SlotsInv, CopyInv, [Next]_vars
  PROVE  CopyType'
<1>1. ASSUME NEW p \in Clients, NEW prio \in 0..DMA_MAX_CHAN_PRIO, NEW n \in 0..MaxPages,
             dma_pin_user_pages_prio(p, prio, n)
      PROVE  CopyType'
  <2>1. prio \in Nat /\ n \in Int
    BY PolicyAssumption
  <2> QED
    BY <1>1, <2>1 DEF dma_pin_user_pages_prio, TypeInv, CopyType
<1>2. ASSUME NEW p \in Clients, get_channel(p) PROVE CopyType'
  <2> DEFINE c == copy_dma_get_channel_prio(req[p].prio)
  <2>1. c \in Chans \union {0}
    BY <1>2, Looked, ListedChans DEF get_channel, TypeInv
  <2> DEFINE R == [prio : Nat, chan : Chans \union {0}, left : Int, no : Nat,
                   status : {"none", "PIN_FAILED", "EBUSY", "SUCCESS", "ERROR"}]
             new == [req[p] EXCEPT !.chan = c, !.status = IF c = 0 THEN "EBUSY" ELSE @]
  <2>2. /\ req' = [req EXCEPT ![p] = new]
        /\ cpc' = [cpc EXCEPT ![p] = IF c = 0 THEN "unpin" ELSE "submit"]
    BY <1>2 DEF get_channel
  <2> HIDE DEF c
  <2>3. req \in [Clients -> R] /\ req[p] \in R
    BY DEF TypeInv, CopyType
  <2>4. new \in R
    BY <2>1, <2>3
  <2> HIDE DEF new, R
  <2>5. req' \in [Clients -> R]
    BY <2>2, <2>3, <2>4
  <2>6. cpc' \in [Clients -> {"idle", "channel", "submit", "wait", "poll", "unpin"}]
    BY <2>2 DEF TypeInv, CopyType
  <2> QED
    BY <2>5, <2>6 DEF CopyType, R
<1>3. ASSUME NEW p \in Clients, submit(p) PROVE CopyType'
  <2>1. req' \in [Clients -> [prio : Nat, chan : Chans \union {0}, left : Int, no : Nat,
                           status : {"none", "PIN_FAILED", "EBUSY", "SUCCESS", "ERROR"}]]
    <3>1. req' = [req EXCEPT ![p].left = @ - 1]
      BY <1>3 DEF submit
    <3> QED
      BY <3>1 DEF TypeInv, CopyType
  <2>2. cpc' = [cpc EXCEPT ![p] = IF req[p].left = 1 THEN "wait" ELSE "submit"]
    BY <1>3 DEF submit
  <2> QED
    BY <2>1, <2>2 DEF TypeInv, CopyType
<1>4. ASSUME NEW p \in Clients, sync_wait(p) PROVE CopyType'
  BY <1>4 DEF sync_wait, TypeInv, CopyType
<1>5. ASSUME NEW p \in Clients, wait_done(p) \/ wait_timeout(p) PROVE CopyType'
  <2>1. PICK s \in {"SUCCESS", "ERROR"} : Waited(p, s)
    BY <1>5 DEF wait_done, wait_timeout
  <2> QED
    BY <2>1 DEF Waited, TypeInv, CopyType
<1>6. ASSUME NEW p \in Clients, dma_unpin_user_pages_prio(p) PROVE CopyType'
  BY <1>6 DEF dma_unpin_user_pages_prio, TypeInv, CopyType
<1>7. CASE UNCHANGED copy
  BY <1>7 DEF copy, TypeInv, CopyType
<1> QED
  BY <1>1, <1>2, <1>3, <1>4, <1>5, <1>6, <1>7, CopyFrame

\* What a client is submitting to is a channel of the device.
LEMMA ChanInUse ==
  ASSUME TypeInv, CopyInv, NEW p \in Clients, cpc[p] \in {"submit", "wait", "poll"}
  PROVE  req[p].chan \in Listed /\ req[p].chan \in Chans
  BY ListedChans DEF TypeInv, CopyInv

\* The queues of the channels keep their types.
LEMMA HwTypeStep ==
  ASSUME TypeInv, SlotsInv, CopyInv, [Next]_vars
  PROVE  HwType'
<1> USE DEF HwType, TypeInv
<1>1. CASE release_dma_chan_prio
  <2>1. <<>> \in Seq(Clients \X Nat)
    OBVIOUS
  <2>2. CASE i <= size
    <3>1. queue' = [queue EXCEPT ![chan_prio[i]] = <<>>] /\ issued' = [issued EXCEPT ![chan_prio[i]] = 0]
      BY <1>1, <2>2 DEF release_dma_chan_prio
    <3> QED
      BY <2>1, <3>1
  <2>3. CASE ~(i <= size)
    BY <1>1, <2>3 DEF release_dma_chan_prio, hw
  <2> QED
    BY <2>2, <2>3
<1>2. ASSUME NEW c \in Chans, hw_execute(c) PROVE HwType'
  <2>1. queue[c] \in Seq(Clients \X Nat) /\ queue[c] # <<>> /\ issued[c] - 1 \in Nat
    BY <1>2 DEF hw_execute, CopyInv
  <2>2. Tail(queue[c]) \in Seq(Clients \X Nat)
    BY <2>1
  <2>3. queue' = [queue EXCEPT ![c] = Tail(queue[c])] /\ issued' = [issued EXCEPT ![c] = issued[c] - 1]
    BY <1>2 DEF hw_execute
  <2> QED
    BY <2>1, <2>2, <2>3
<1>3. ASSUME NEW p \in Clients, submit(p) PROVE HwType'
  <2> DEFINE c == req[p].chan
             x == <<p, req[p].no>>
  <2>1. c \in Chans /\ x \in Clients \X Nat
    BY <1>3, ChanInUse DEF submit, CopyType
  <2>2. queue' = [queue EXCEPT ![c] = Append(@, x)] /\ issued' \in {issued, [issued EXCEPT ![c] = Len(queue[c]) + 1]}
    BY <1>3 DEF submit
  <2> HIDE DEF c, x
  <2>3. queue[c] \in Seq(Clients \X Nat)
    BY <2>1
  <2>4. Append(queue[c], x) \in Seq(Clients \X Nat) /\ Len(queue[c]) + 1 \in Nat
    BY <2>1, <2>3
  <2> QED
    BY <2>1, <2>2, <2>4
<1>4. ASSUME NEW p \in Clients, no_descriptor(p) PROVE HwType'
  BY <1>4, PolicyAssumption DEF no_descriptor
<1>5. ASSUME NEW p \in Clients, sync_wait(p) PROVE HwType'
  <2>1. req[p].chan \in Chans
    BY <1>5, ChanInUse DEF sync_wait
  <2>2. Len(queue[req[p].chan]) \in Nat
    BY <2>1
  <2> QED
    BY <1>5, <2>2 DEF sync_wait
<1>6. CASE UNCHANGED hw
  BY <1>6 DEF hw
<1> QED
  BY <1>1, <1>2, <1>3, <1>4, <1>5, <1>6, HwFrame

-----------------------------------------------------------------------------
(* Every step keeps the list, its channels and their suspension in order.  *)

\* What a step does to the set of channels of the list.
LEMMA ListedStep ==
  ASSUME TypeInv, SlotsInv, OwnInv, [Next]_vars
  PROVE  /\ start_policy_prio2 => Listed = {} /\ Listed' = {}
         /\ \A c \in Chans : complete_dma_chan_prio(c) => Listed' = Listed \union {c}
         /\ release_dma_chan_prio /\ i <= size => Listed' = Listed \ {chan_prio[i]}
         /\ release_dma_chan_prio /\ ~(i <= size) => Listed = {} /\ Listed' = {}
<1> USE Indexed DEF TypeInv
<1>1. ASSUME start_policy_prio2 PROVE Listed = {} /\ Listed' = {}
  BY <1>1 DEF start_policy_prio2, Listed, SlotsInv
<1>2. ASSUME NEW c \in Chans, complete_dma_chan_prio(c) PROVE Listed' = Listed \union {c}
  <2>1. size + 1 \in Index /\ size' = size + 1 /\ c # 0
    BY <1>2, PolicyAssumption DEF complete_dma_chan_prio, PolicyType, Index, Chans
  <2>2. chan_prio' = [chan_prio EXCEPT ![size + 1] = c] /\ chan_prio \in [Index -> Chans \union {0}]
    BY <1>2 DEF complete_dma_chan_prio, PolicyType
  <2>3. chan_prio'[size + 1] = c /\ \A k \in 1..size : chan_prio'[k] = chan_prio[k]
    BY <2>1, <2>2
  <2>4. 1..size' = (1..size) \union {size + 1}
    BY <2>1
  <2> QED
    BY <2>1, <2>3, <2>4 DEF Listed
<1>3. ASSUME release_dma_chan_prio, i <= size PROVE Listed' = Listed \ {chan_prio[i]}
  <2>1. i \in 1..size /\ chan_prio[i] # 0
    BY <1>3 DEF release_dma_chan_prio, PolicyType, SlotsInv
  <2>2. chan_prio' = [chan_prio EXCEPT ![i] = 0] /\ size' = size /\ chan_prio \in [Index -> Chans \union {0}]
    BY <1>3 DEF release_dma_chan_prio, PolicyType
  <2>3. chan_prio'[i] = 0 /\ \A k \in 1..size : k # i => chan_prio'[k] = chan_prio[k]
    BY <2>1, <2>2
  <2>4. \A k \in 1..size : k # i => chan_prio[k] # chan_prio[i]
    BY <2>1 DEF SlotsInv
  <2> QED
    BY <2>1, <2>2, <2>3, <2>4 DEF Listed
<1>4. ASSUME release_dma_chan_prio, ~(i <= size) PROVE Listed = {} /\ Listed' = {}
  <2>1. \A k \in 1..size : chan_prio[k] = 0
    BY <1>4 DEF release_dma_chan_prio, PolicyType, SlotsInv
  <2> QED
    BY <1>4, <2>1 DEF release_dma_chan_prio, Listed
<1> QED
  BY <1>1, <1>2, <1>3, <1>4

\* The list is filled from one end, cleared from the same end, and whole while the
\* timer runs.
LEMMA SlotsStep ==
  ASSUME TypeInv, SlotsInv, OwnInv, [Next]_vars
  PROVE  SlotsInv'
<1> USE PolicyAssumption DEF TypeInv, list, timer
<1>1. CASE start_policy_prio2
  BY <1>1 DEF start_policy_prio2, SlotsInv
<1>2. ASSUME NEW c \in Chans, complete_dma_chan_prio(c) PROVE SlotsInv'
  <2>1. size + 1 \in Index /\ size' = size + 1 /\ c # 0 /\ size \in Nat
    BY <1>2 DEF complete_dma_chan_prio, PolicyType, Index, Chans
  <2>2. chan_prio' = [chan_prio EXCEPT ![size + 1] = c] /\ chan_prio \in [Index -> Chans \union {0}]
    BY <1>2 DEF complete_dma_chan_prio, PolicyType
  <2>3. chan_prio'[size + 1] = c /\ \A k \in 1..size : chan_prio'[k] = chan_prio[k]
    BY <2>1, <2>2, Indexed
  <2>4. \A k \in 1..size : chan_prio[k] # 0 /\ chan_prio[k] # c
    BY <1>2 DEF complete_dma_chan_prio, SlotsInv, OwnInv, Listed
  <2>5. 1..size' = (1..size) \union {size + 1}
    BY <2>1
  <2>6. \A k, l \in 1..size' : chan_prio'[k] # 0 /\ (chan_prio'[k] = chan_prio'[l] => k = l)
    BY <2>1, <2>3, <2>4, <2>5 DEF SlotsInv
  <2> QED
    BY <1>2, <2>6 DEF complete_dma_chan_prio, SlotsInv
<1>3. CASE no_prio_channel
  BY <1>3 DEF no_prio_channel, SlotsInv
<1>4. CASE start_timer
  <2>1. \A k \in Index : priority'[k] = k - 1
    BY <1>4 DEF start_timer, DMA_HIGH_PRIO, Index
  <2> QED
    BY <1>4, <2>1 DEF start_timer, SlotsInv
<1>5. CASE cancel_timer
  BY <1>5 DEF cancel_timer, Stopping, SlotsInv
<1>6. CASE stop_policy_prio
  BY <1>6 DEF stop_policy_prio, SlotsInv, PolicyType
<1>7. CASE release_dma_chan_prio
  <2>1. CASE i <= size
    <3>1. i \in 1..size /\ size' = size /\ i' = i + 1 /\ pol' = "release" /\ pol = "release"
      BY <1>7, <2>1 DEF release_dma_chan_prio, PolicyType
    <3>2. chan_prio' = [chan_prio EXCEPT ![i] = 0] /\ chan_prio \in [Index -> Chans \union {0}]
      BY <1>7, <2>1 DEF release_dma_chan_prio, PolicyType
    <3>3. chan_prio'[i] = 0 /\ \A k \in 1..size : k # i => chan_prio'[k] = chan_prio[k]
      BY <3>1, <3>2, Indexed
    <3>4. \A k \in 1..size : chan_prio'[k] = 0 <=> k < i + 1
      BY <3>1, <3>3 DEF SlotsInv, PolicyType
    <3>5. \A k, l \in 1..size : chan_prio'[k] # 0 /\ chan_prio'[k] = chan_prio'[l] => k = l
      BY <3>1, <3>3 DEF SlotsInv
    <3>6. UNCHANGED <<armed, list_chan, priority>> /\ ~armed
      BY <1>7 DEF release_dma_chan_prio, SlotsInv
    <3> QED
      BY <3>1, <3>4, <3>5, <3>6 DEF SlotsInv
  <2>2. CASE ~(i <= size)
    BY <1>7, <2>2 DEF release_dma_chan_prio, SlotsInv
  <2> QED
    BY <2>1, <2>2
<1>8. CASE prio_hrtimer_callback
  BY <1>8 DEF prio_hrtimer_callback, SlotsInv
<1>9. CASE UNCHANGED policy
  BY <1>9 DEF policy, SlotsInv
<1> QED
  BY <1>1, <1>2, <1>3, <1>4, <1>5, <1>6, <1>7, <1>8, <1>9, PolicyFrame DEF Policy

\* A channel moves between the list, nobody and other users, and has one place.
LEMMA OwnStep ==
  ASSUME TypeInv, SlotsInv, OwnInv, [Next]_vars
  PROVE  OwnInv'
<1> USE DEF OwnInv
<1>1. CASE start_policy_prio2
  BY <1>1, ListedStep DEF start_policy_prio2, allocator
<1>2. ASSUME NEW c \in Chans, complete_dma_chan_prio(c) PROVE OwnInv'
  <2>1. Listed' = Listed \union {c}
    BY <1>2, ListedStep
  <2> QED
    BY <1>2, <2>1 DEF complete_dma_chan_prio
<1>3. CASE release_dma_chan_prio
  <2>1. CASE i <= size
    <3>1. Listed' = Listed \ {chan_prio[i]}
      BY <1>3, <2>1, ListedStep
    <3>2. i \in 1..size /\ chan_prio[i] # 0
      BY <1>3, <2>1 DEF release_dma_chan_prio, SlotsInv, TypeInv, PolicyType
    <3>3. chan_prio[i] \in Listed
      BY <3>2 DEF Listed
    <3> QED
      BY <1>3, <2>1, <3>1, <3>3 DEF release_dma_chan_prio
  <2>2. CASE ~(i <= size)
    BY <1>3, <2>2, ListedStep DEF release_dma_chan_prio
  <2> QED
    BY <2>1, <2>2
<1>4. CASE no_prio_channel \/ start_timer \/ cancel_timer \/ stop_policy_prio \/ prio_hrtimer_callback
  <2>1. UNCHANGED <<size, chan_prio, free, others>>
    BY <1>4 DEF no_prio_channel, start_timer, cancel_timer, stop_policy_prio, prio_hrtimer_callback,
                allocator, list
  <2> QED
    BY <2>1 DEF Listed
<1>5. CASE UNCHANGED policy
  <2>1. Listed' = Listed
    BY <1>5 DEF policy, list, Listed
  <2>2. CASE UNCHANGED allocator
    BY <2>1, <2>2 DEF allocator
  <2>3. ASSUME NEW c \in Chans, other_request(c) \/ other_release(c) PROVE OwnInv'
    BY <2>1, <2>3 DEF other_request, other_release
  <2> QED
    BY <1>2, <1>3, <2>2, <2>3, ChanFrame
<1> QED
  BY <1>1, <1>2, <1>3, <1>4, <1>5, PolicyFrame DEF Policy

\* The timer suspends what a stop resumes.
LEMMA SuspendStep ==
  ASSUME TypeInv, SlotsInv, SuspendInv, [Next]_vars
  PROVE  SuspendInv'
<1> USE DEF list, timer
<1>1. CASE \/ start_policy_prio2 \/ (\E c \in Chans : complete_dma_chan_prio(c)) \/ no_prio_channel
           \/ start_timer \/ release_dma_chan_prio
  <2>1. suspended = {} /\ suspended' = {}
    BY <1>1 DEF start_policy_prio2, complete_dma_chan_prio, no_prio_channel, start_timer,
                release_dma_chan_prio, SuspendInv
  <2>2. ~armed' \/ tick' # 1
    BY <1>1 DEF start_policy_prio2, complete_dma_chan_prio, no_prio_channel, start_timer,
                release_dma_chan_prio, SlotsInv, MAX_QUANTUM
  <2> QED
    BY <2>1, <2>2 DEF SuspendInv
<1>2. CASE cancel_timer
  BY <1>2 DEF cancel_timer, Stopping, SuspendInv, Lower
<1>3. CASE stop_policy_prio
  <2>1. suspended' = {} /\ ~armed'
    BY <1>3, OnList DEF stop_policy_prio, resume_chan_prio, SuspendInv, SlotsInv, TypeInv
  <2> QED
    BY <2>1 DEF SuspendInv
<1>4. CASE prio_hrtimer_callback
  <2>1. pol = "on" /\ pol' = "on" /\ Lower' = Lower /\ Below(DMA_HIGH_PRIO) = Lower
    BY <1>4, OnList DEF prio_hrtimer_callback, SlotsInv, TypeInv, Lower
  <2>2. tick % MAX_QUANTUM \in {0, 1}
    BY DEF TypeInv, PolicyType, MAX_QUANTUM
  <2>3. CASE tick % MAX_QUANTUM = 0
    <3>1. suspended' = suspended \union Lower
      BY <1>4, <2>1, <2>3 DEF prio_hrtimer_callback, supend_chan_prio
    <3> QED
      BY <2>1, <3>1 DEF SuspendInv
  <2>4. CASE tick % MAX_QUANTUM = 1
    <3>1. suspended' = suspended \ Lower /\ tick' = 2
      BY <1>4, <2>1, <2>4 DEF prio_hrtimer_callback, resume_chan_prio
    <3> QED
      BY <2>1, <3>1 DEF SuspendInv
  <2> QED
    BY <2>2, <2>3, <2>4
<1>5. CASE UNCHANGED <<policy, suspended>>
  BY <1>5 DEF policy, SuspendInv, Lower
<1>6. UNCHANGED policy => UNCHANGED suspended \/ stop_policy_prio \/ prio_hrtimer_callback
  BY SuspendFrame
<1> QED
  BY <1>1, <1>2, <1>3, <1>4, <1>5, <1>6, PolicyFrame DEF Policy

-----------------------------------------------------------------------------
(* Every step keeps the copies on the channels of the list.                *)

\* Copies begin while the policy is on, and it goes off after the last of them.
LEMMA CopyStep ==
  ASSUME TypeInv, SlotsInv, OwnInv, CopyInv, [Next]_vars
  PROVE  CopyInv'
<1>1. CASE Policy
  <2>1. UNCHANGED copy
    BY <1>1 DEF Policy, start_policy_prio2, complete_dma_chan_prio, no_prio_channel, start_timer,
                cancel_timer, stop_policy_prio, release_dma_chan_prio
  <2>2. \A p \in Clients : cpc[p] = "idle"
    BY <1>1 DEF Policy, start_policy_prio2, complete_dma_chan_prio, no_prio_channel, start_timer,
                cancel_timer, Stopping, stop_policy_prio, release_dma_chan_prio, CopyInv
  <2>3. \A p \in Clients : cpc'[p] = "idle"
    BY <2>1, <2>2 DEF copy
  <2>4. \A c \in Chans : issued'[c] <= Len(queue'[c]) /\ (queue'[c] # <<>> => c \in Listed')
    <3>1. CASE start_policy_prio2
      BY <3>1, ListedStep DEF start_policy_prio2, hw, CopyInv
    <3>2. ASSUME NEW d \in Chans, complete_dma_chan_prio(d)
          PROVE  \A c \in Chans : issued'[c] <= Len(queue'[c]) /\ (queue'[c] # <<>> => c \in Listed')
      <4>1. Listed' = Listed \union {d}
        BY <3>2, ListedStep
      <4> QED
        BY <3>2, <4>1 DEF complete_dma_chan_prio, hw, CopyInv
    <3>3. CASE no_prio_channel \/ start_timer \/ cancel_timer \/ stop_policy_prio
      <4>1. UNCHANGED <<size, chan_prio, hw>>
        BY <3>3 DEF no_prio_channel, start_timer, cancel_timer, stop_policy_prio, list
      <4> QED
        BY <4>1 DEF hw, Listed, CopyInv
    <3>4. CASE release_dma_chan_prio
      <4>1. CASE i <= size
        <5>1. Listed' = Listed \ {chan_prio[i]}
          BY <3>4, <4>1, ListedStep
        <5>2. /\ queue' = [queue EXCEPT ![chan_prio[i]] = <<>>]
              /\ issued' = [issued EXCEPT ![chan_prio[i]] = 0]
              /\ queue \in [Chans -> Seq(Clients \X Nat)] /\ issued \in [Chans -> Nat]
          BY <3>4, <4>1 DEF release_dma_chan_prio, TypeInv, HwType
        <5>3. ASSUME NEW c \in Chans
              PROVE  issued'[c] <= Len(queue'[c]) /\ (queue'[c] # <<>> => c \in Listed')
          <6>1. CASE c = chan_prio[i]
            <7>1. queue'[c] = <<>> /\ issued'[c] = 0
              BY <5>2, <6>1
            <7> QED
              BY <7>1
          <6>2. CASE c # chan_prio[i]
            <7>1. queue'[c] = queue[c] /\ issued'[c] = issued[c]
              BY <5>2, <6>2
            <7> QED
              BY <5>1, <6>2, <7>1 DEF CopyInv
          <6> QED
            BY <6>1, <6>2
        <5> QED
          BY <5>3
      <4>2. CASE ~(i <= size)
        BY <3>4, <4>2, ListedStep DEF release_dma_chan_prio, hw, CopyInv
      <4> QED
        BY <4>1, <4>2
    <3> QED
      BY <1>1, <3>1, <3>2, <3>3, <3>4 DEF Policy
  <2> QED
    BY <2>3, <2>4 DEF CopyInv
<1>2. CASE ~Policy /\ (prio_hrtimer_callback \/ UNCHANGED policy)
  <2>1. UNCHANGED <<pol, size, chan_prio>>
    BY <1>2 DEF prio_hrtimer_callback, policy, list
  <2>2. Listed' = Listed
    BY <2>1 DEF Listed
  <2>3. \A p \in Clients : cpc'[p] # "idle" => pol' = "on"
    <3>1. ASSUME NEW p \in Clients, NEW prio \in 0..DMA_MAX_CHAN_PRIO, NEW n \in 0..MaxPages,
                 dma_pin_user_pages_prio(p, prio, n)
          PROVE  \A q \in Clients : cpc'[q] # "idle" => pol' = "on"
      BY <2>1, <3>1 DEF dma_pin_user_pages_prio
    <3>2. ASSUME NEW p \in Clients,
                 \/ get_channel(p) \/ submit(p) \/ sync_wait(p)
                 \/ wait_done(p) \/ wait_timeout(p) \/ dma_unpin_user_pages_prio(p)
          PROVE  \A q \in Clients : cpc'[q] # "idle" => pol' = "on"
      <4>1. pol = "on"
        BY <3>2 DEF get_channel, submit, sync_wait, wait_done, wait_timeout, Waited,
                    dma_unpin_user_pages_prio, CopyInv
      <4> QED
        BY <2>1, <4>1
    <3>3. CASE UNCHANGED copy
      BY <2>1, <3>3 DEF copy, CopyInv
    <3> QED
      BY <3>1, <3>2, <3>3, CopyFrame
  <2>4. \A q \in Clients : cpc'[q] \in {"submit", "wait", "poll"} => req'[q].chan \in Listed'
    <3>1. ASSUME NEW p \in Clients, NEW prio \in 0..DMA_MAX_CHAN_PRIO, NEW n \in 0..MaxPages,
                 dma_pin_user_pages_prio(p, prio, n), NEW q \in Clients,
                 cpc'[q] \in {"submit", "wait", "poll"}
          PROVE  req'[q].chan \in Listed'
      BY <2>2, <3>1 DEF dma_pin_user_pages_prio, CopyInv, TypeInv, CopyType
    <3>2. ASSUME NEW p \in Clients, get_channel(p), NEW q \in Clients,
                 cpc'[q] \in {"submit", "wait", "poll"}
          PROVE  req'[q].chan \in Listed'
      <4> DEFINE c == copy_dma_get_channel_prio(req[p].prio)
      <4>1. c \in Listed \union {0} /\ 0 \notin Listed
        BY <3>2, Looked DEF get_channel, Listed
      <4>2. /\ req' = [req EXCEPT ![p].chan = c, ![p].status = IF c = 0 THEN "EBUSY" ELSE @]
            /\ cpc' = [cpc EXCEPT ![p] = IF c = 0 THEN "unpin" ELSE "submit"]
        BY <3>2 DEF get_channel
      <4> HIDE DEF c
      <4> QED
        BY <2>2, <3>2, <4>1, <4>2 DEF CopyInv, TypeInv, CopyType
    <3>3. ASSUME NEW p \in Clients, submit(p), NEW q \in Clients,
                 cpc'[q] \in {"submit", "wait", "poll"}
          PROVE  req'[q].chan \in Listed'
      <4>1. req' = [req EXCEPT ![p].left = @ - 1] /\ cpc[p] = "submit"
        BY <3>3 DEF submit
      <4>2. req'[q].chan = req[q].chan
        BY <4>1 DEF TypeInv, CopyType
      <4>3. cpc[q] \in {"submit", "wait", "poll"}
        BY <3>3, <4>1 DEF submit, TypeInv, CopyType
      <4> QED
        BY <2>2, <4>2, <4>3 DEF CopyInv
    <3>4. ASSUME NEW p \in Clients, sync_wait(p), NEW q \in Clients,
                 cpc'[q] \in {"submit", "wait", "poll"}
          PROVE  req'[q].chan \in Listed'
      BY <2>2, <3>4 DEF sync_wait, CopyInv, TypeInv, CopyType
    <3>5. ASSUME NEW p \in Clients, wait_done(p) \/ wait_timeout(p), NEW q \in Clients,
                 cpc'[q] \in {"submit", "wait", "poll"}
          PROVE  req'[q].chan \in Listed'
      <4>1. PICK s \in {"SUCCESS", "ERROR"} : Waited(p, s)
        BY <3>5 DEF wait_done, wait_timeout
      <4> QED
        BY <2>2, <3>5, <4>1 DEF Waited, CopyInv, TypeInv, CopyType
    <3>6. ASSUME NEW p \in Clients, dma_unpin_user_pages_prio(p), NEW q \in Clients,
                 cpc'[q] \in {"submit", "wait", "poll"}
          PROVE  req'[q].chan \in Listed'
      BY <2>2, <3>6 DEF dma_unpin_user_pages_prio, CopyInv, TypeInv, CopyType
    <3>7. CASE UNCHANGED copy
      BY <2>2, <3>7 DEF copy, CopyInv
    <3> QED
      BY <3>1, <3>2, <3>3, <3>4, <3>5, <3>6, <3>7, CopyFrame
  <2>5. \A c \in Chans : issued'[c] <= Len(queue'[c]) /\ (queue'[c] # <<>> => c \in Listed')
    <3> USE <2>2 DEF CopyInv, TypeInv, HwType
    <3>1. ASSUME NEW d \in Chans, hw_execute(d), NEW c \in Chans
          PROVE  issued'[c] <= Len(queue'[c]) /\ (queue'[c] # <<>> => c \in Listed')
      <4>1. queue[d] \in Seq(Clients \X Nat) /\ queue[d] # <<>> /\ issued[d] \in Nat
        BY <3>1 DEF hw_execute
      <4>2. Len(Tail(queue[d])) = Len(queue[d]) - 1
        BY <4>1
      <4>3. /\ queue' = [queue EXCEPT ![d] = Tail(queue[d])]
            /\ issued' = [issued EXCEPT ![d] = issued[d] - 1]
        BY <3>1 DEF hw_execute
      <4>4. CASE c = d
        <5>1. queue'[c] = Tail(queue[d]) /\ issued'[c] = issued[d] - 1 /\ issued[d] <= Len(queue[d])
          BY <4>3, <4>4
        <5> QED
          BY <4>1, <4>2, <4>4, <5>1
      <4>5. CASE c # d
        BY <4>3, <4>5
      <4> QED
        BY <4>4, <4>5
    <3>2. ASSUME NEW p \in Clients, submit(p), NEW c \in Chans
          PROVE  issued'[c] <= Len(queue'[c]) /\ (queue'[c] # <<>> => c \in Listed')
      <4> DEFINE d == req[p].chan
                 x == <<p, req[p].no>>
      <4>1. d \in Chans /\ d \in Listed /\ x \in Clients \X Nat
        BY <3>2, ChanInUse DEF submit, CopyType
      <4>2. /\ queue' = [queue EXCEPT ![d] = Append(@, x)]
            /\ issued' \in {issued, [issued EXCEPT ![d] = Len(queue[d]) + 1]}
        BY <3>2 DEF submit
      <4> HIDE DEF d, x
      <4>3. queue[d] \in Seq(Clients \X Nat) /\ issued[d] \in Nat /\ issued[d] <= Len(queue[d])
        BY <4>1
      <4>4. Len(Append(queue[d], x)) = Len(queue[d]) + 1
        BY <4>1, <4>3
      <4>5. CASE c = d
        <5>1. queue'[c] = Append(queue[d], x) /\ issued'[c] \in {issued[d], Len(queue[d]) + 1}
          BY <4>1, <4>2, <4>5
        <5> QED
          BY <4>1, <4>3, <4>4, <4>5, <5>1
      <4>6. CASE c # d
        <5>1. queue'[c] = queue[c] /\ issued'[c] = issued[c]
          BY <4>2, <4>6
        <5> QED
          BY <5>1
      <4> QED
        BY <4>5, <4>6
    <3>3. ASSUME NEW p \in Clients, no_descriptor(p) \/ sync_wait(p), NEW c \in Chans
          PROVE  issued'[c] <= Len(queue'[c]) /\ (queue'[c] # <<>> => c \in Listed')
      <4> DEFINE d == req[p].chan
      <4>1. d \in Chans
        BY <3>3, ChanInUse DEF no_descriptor, sync_wait
      <4>2. queue' = queue /\ issued' = [issued EXCEPT ![d] = Len(queue[d])]
        BY <3>3 DEF no_descriptor, sync_wait
      <4> HIDE DEF d
      <4>3. Len(queue[d]) \in Nat
        BY <4>1
      <4> QED
        BY <4>1, <4>2, <4>3
    <3>4. CASE UNCHANGED hw
      BY <3>4 DEF hw
    <3>5. ~release_dma_chan_prio
      BY <1>2 DEF Policy
    <3> QED
      BY <3>1, <3>2, <3>3, <3>4, <3>5, HwFrame
  <2> QED
    BY <2>3, <2>4, <2>5 DEF CopyInv
<1> QED
  BY <1>1, <1>2, PolicyFrame

-----------------------------------------------------------------------------
\* Every step keeps the invariant.
LEMMA NextHolds ==
  ASSUME IInv, [Next]_vars
  PROVE  IInv'
<1>1. TypeInv'
  BY PolicyTypeStep, SwitchTypeStep, ChanTypeStep, CopyTypeStep, HwTypeStep DEF IInv, TypeInv
<1> QED
  BY <1>1, SlotsStep, OwnStep, SuspendStep, CopyStep DEF IInv

\* The invariant of the policy, its timer, its channels and its copies.
THEOREM Invariant == Spec => []IInv
  BY InitHolds, NextHolds, PTL DEF Spec

\* Channels are neither lost nor given back suspended: a start that finds too few
\* returns those it had, a stop resumes and returns all of them, whatever the
\* timer and other users of the allocator do in between.
THEOREM Returned == Spec => []GivenBack
<1>1. IInv => GivenBack
  <2> SUFFICES ASSUME IInv PROVE GivenBack
    OBVIOUS
  <2> USE DEF IInv
  <2>1. Listed \subseteq Chans
    BY ListedChans DEF TypeInv
  <2>2. pol = "off" => Listed = {}
    BY DEF SlotsInv, Listed
  <2>3. NoneLost
    BY <2>1, <2>2 DEF NoneLost, OwnInv, TypeInv, ChanType
  <2>4. suspended \subseteq Listed
    <3>1. CASE pol \in {"on", "resume"}
      <4>1. Lower \subseteq Listed
        BY <3>1, OnList, Indexed DEF Lower, TypeInv
      <4> QED
        BY <4>1 DEF SuspendInv
    <3>2. CASE pol \notin {"on", "resume"}
      BY <3>2 DEF SuspendInv
    <3> QED
      BY <3>1, <3>2
  <2> QED
    BY <2>3, <2>4 DEF GivenBack, NoneLeftSuspended
<1> QED
  BY <1>1, Invariant, PTL

\* The callback, which takes no lock, never meets a list that is being filled or
\* released.
THEOREM WholeList == Spec => []TimerSeesList
<1>1. IInv => TimerSeesList
  <2> SUFFICES ASSUME IInv, armed PROVE TimerSeesList
    BY DEF TimerSeesList
  <2> USE DEF IInv, TypeInv
  <2>1. pol = "on" /\ list_chan /\ size = DMA_MAX_CHAN_PRIO
    BY DEF SlotsInv
  <2>2. \A k \in 1..size : chan_prio[k] # 0 /\ chan_prio[k] \in Chans /\ k \in Int /\ priority[k] = k - 1
    BY <2>1, Indexed DEF SlotsInv
  <2>3. \A k \in 1..size : priority[k] = DMA_HIGH_PRIO <=> k = 1
    BY <2>2 DEF DMA_HIGH_PRIO
  <2>4. \A k, l \in 1..size : chan_prio[k] = chan_prio[l] => k = l
    BY <2>2 DEF SlotsInv
  <2> QED
    BY <2>1, <2>2, <2>3, <2>4 DEF TimerSeesList
<1> QED
  BY <1>1, Invariant, PTL

\* The rest of a queue is neither the queue nor a longer one.
LEMMA TailShorter ==
  ASSUME NEW S, NEW q \in Seq(S), q # <<>>
  PROVE  Tail(q) # q /\ \A x \in S : Tail(q) # Append(q, x)
<1> DEFINE t == Tail(q)
<1>1. Len(q) \in Nat /\ Len(t) = Len(q) - 1
  OBVIOUS
<1>2. ASSUME NEW x \in S PROVE t # Append(q, x)
  <2> DEFINE a == Append(q, x)
  <2>1. Len(a) = Len(q) + 1
    OBVIOUS
  <2> HIDE DEF t, a
  <2>2. t # a
    BY <1>1, <2>1
  <2> QED
    BY <2>2 DEF a
<1>3. t # q
  <2> HIDE DEF t
  <2> QED
    BY <1>1
<1> QED
  BY <1>2, <1>3

\* From the tick that suspends the others to the one that resumes them, only the
\* channel of the highest priority makes progress.
THEOREM BusToHigh == Spec => HighAlone
<1> DEFINE Alone == \A c \in Chans :
                      /\ armed /\ tick = 1 /\ forward = 0
                      /\ Len(queue[c]) > 0 /\ queue'[c] = Tail(queue[c])
                      => c = chan_prio[1]
<1>1. ASSUME IInv, [Next]_vars PROVE [Alone]_vars
  <2>1. SUFFICES ASSUME NEW c \in Chans, armed, tick = 1, forward = 0,
                        Len(queue[c]) > 0, queue'[c] = Tail(queue[c])
                 PROVE  c = chan_prio[1]
    OBVIOUS
  <2> USE <1>1 DEF IInv, TypeInv
  <2>2. queue[c] \in Seq(Clients \X Nat) /\ queue[c] # <<>>
    BY <2>1 DEF HwType
  <2>3. queue'[c] # queue[c] /\ \A x \in Clients \X Nat : queue'[c] # Append(queue[c], x)
    BY <2>1, <2>2, TailShorter
  <2>4. pol = "on" /\ Lower \subseteq suspended /\ c \in Listed
    BY <2>1, <2>2 DEF SlotsInv, SuspendInv, CopyInv
  <2>5. PICK k \in 1..size : c = chan_prio[k]
    BY <2>4 DEF Listed
  <2>6. c \notin suspended
    <3>1. ~release_dma_chan_prio
      BY <2>4 DEF release_dma_chan_prio
    <3>2. ASSUME NEW d \in Chans, hw_execute(d) PROVE c \notin suspended
      <4>1. CASE c = d
        BY <3>2, <4>1 DEF hw_execute
      <4>2. CASE c # d
        BY <2>3, <3>2, <4>2 DEF hw_execute, HwType
      <4> QED
        BY <4>1, <4>2
    <3>3. ASSUME NEW p \in Clients, submit(p) PROVE FALSE
      <4> DEFINE d == req[p].chan
                 x == <<p, req[p].no>>
      <4>1. d \in Chans /\ queue' = [queue EXCEPT ![d] = Append(@, x)] /\ x \in Clients \X Nat
        BY <3>3, ChanInUse DEF submit, CopyType
      <4> HIDE DEF d, x
      <4>2. queue'[c] = queue[c] \/ queue'[c] = Append(queue[c], x)
        BY <4>1 DEF HwType
      <4> QED
        BY <2>3, <4>1, <4>2
    <3>4. queue' # queue
      BY <2>3
    <3>5. ASSUME NEW p \in Clients, no_descriptor(p) \/ sync_wait(p) PROVE UNCHANGED queue
      BY <3>5 DEF no_descriptor, sync_wait
    <3>6. UNCHANGED hw => UNCHANGED queue
      BY DEF hw
    <3> QED
      BY <3>1, <3>2, <3>3, <3>4, <3>5, <3>6, HwFrame
  <2>7. k = 1
    BY <2>4, <2>5, <2>6, Indexed DEF Lower
  <2> QED
    BY <2>5, <2>7
<1>2. [][Alone]_vars <=> HighAlone
  BY PTL DEF HighAlone
<1> QED
  BY <1>1, <1>2, Invariant, PTL DEF Spec
=============================================================================
