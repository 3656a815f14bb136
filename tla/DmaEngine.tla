------------------------------ MODULE DmaEngine ------------------------------
(***************************************************************************)
(* The channel allocator of source/drivers/dma/dmaengine.c and the two     *)
(* channel policies of source/drivers/dma/dma_policy_ex_sh.c that hand its *)
(* channels to copies: the shared policy, which takes public references    *)
(* and looks channels up in channel_table, and the exclusive policy, which *)
(* requests one private channel for each cpu.                              *)
(*                                                                         *)
(* There is one DMA device, the I/OAT device of the chipset; its channels  *)
(* are numbered in the order of device->channels, and 0 is NULL.  A        *)
(* section that holds dma_list_mutex is one step.  The users of a policy   *)
(* are modules that start it when they are loaded and stop it when they    *)
(* are removed, after their last copy; the driver of the device is a       *)
(* module too, and can be removed when its reference count is zero.        *)
(***************************************************************************)
EXTENDS Integers, Sequences, FiniteSets, FiniteSetsExt

CONSTANTS
  NumChans,               \* channels of the device
  NumCpus,                \* present cpus
  ShUsers, ExUsers,       \* modules that use the shared, the exclusive policy
  AllocMayFail,           \* whether device_alloc_chan_resources may fail
  MayUnload               \* whether the driver may be removed

ASSUME SizesAssumption == NumChans \in Nat \ {0} /\ NumCpus \in Nat \ {0}
ASSUME UsersAssumption == IsFiniteSet(ShUsers) /\ ShUsers \intersect ExUsers = {}
ASSUME ChoicesAssumption == {AllocMayFail, MayUnload} \subseteq BOOLEAN

Chans == 1..NumChans
Cpus  == 1..NumCpus
Users == ShUsers \union ExUsers

VARIABLES
  client_count,           \* of each channel
  private, privatecnt,    \* DMA_PRIVATE in device->cap_mask, and its count
  listed,                 \* whether the device is in dma_device_list
  driver, modref,         \* state of the driver's module, and the references to it,
                          \* by the channel they were taken for
  ref_count, copy_ref_count,     \* dmaengine_ref_count and the one for copies
  table,                  \* channel_table[DMA_MEMCPY], for each cpu
  percpu_chan,            \* percpu_chan_copy: the exclusive channel of each cpu
  pc, next_cpu,           \* where each user is, and the cpu it comes to next
  using                   \* the channel of the copy each user makes, or 0

device == <<client_count, private, privatecnt, listed>>
module == <<driver, modref>>
refs   == <<ref_count, copy_ref_count>>
users  == <<pc, next_cpu, using>>
vars   == <<device, module, refs, table, percpu_chan, users>>

Init ==
  /\ client_count = [c \in Chans |-> 0]
  /\ private = FALSE /\ privatecnt = 0
  /\ listed = TRUE /\ driver = "live" /\ modref = [c \in Chans |-> 0]
  /\ ref_count = 0 /\ copy_ref_count = 0
  /\ table = [i \in Cpus |-> 0]
  /\ percpu_chan = [i \in Cpus |-> 0]
  /\ pc = [u \in Users |-> "off"] /\ next_cpu = [u \in Users |-> 1]
  /\ using = [u \in Users |-> 0]

-----------------------------------------------------------------------------
(* The allocator.                                                          *)

\* The sets of channels whose resources cannot be allocated.
Failures == IF AllocMayFail THEN SUBSET Chans ELSE {{}}

\* dma_chan_get on a public channel: the first reference allocates the channel
\* and balance_ref_count catches up with the references taken so far, total.
Got_Unbalanced(c, total, fails) ==
  IF client_count[c] > 0 THEN client_count[c] + 1
  ELSE IF driver # "live" \/ c \in fails THEN 0 ELSE 1
Got(c, total, fails) ==
  IF client_count[c] > 0 THEN client_count[c] + 1
  ELSE IF driver # "live" \/ c \in fails THEN 0 ELSE total

\* dma_chan_put; a channel that has no reference is left alone.
Put(c) == IF client_count[c] = 0 THEN 0 ELSE client_count[c] - 1

nth_chan_Unused(count, n) ==
  LET nth == {c \in Chans : c - 1 = n % NumChans}
  IN  IF nth = {} THEN 0 ELSE CHOOSE c \in nth : TRUE
\* nth_chan: the channels that have clients in turn; as rebalancing starts from
\* a table_count of zero, the one with the lowest count, which is taken when
\* there is no nth, is again the next one in turn.
nth_chan(count, n) ==
  LET busy == {c \in Chans : count[c] > 0}
      nth  == {c \in busy :
                 Cardinality({b \in busy : b < c}) = n % Cardinality(busy)}
  IN  IF nth = {} THEN 0 ELSE CHOOSE c \in nth : TRUE

\* dma_channel_rebalance.
Rebalanced(on_list, priv, count, total) ==
  [i \in Cpus |-> IF ~on_list \/ priv \/ total = 0 THEN 0 ELSE nth_chan(count, i - 1)]

\* dmaengine_get.  A module that is going is dropped from the list.
dmaengine_get ==
  \E fails \in Failures :
    /\ ref_count' = ref_count + 1
    /\ client_count' = IF listed /\ ~private
                       THEN [c \in Chans |-> Got(c, ref_count + 1, fails)]
                       ELSE client_count
    /\ modref' = [c \in Chans |-> modref[c] + client_count'[c] - client_count[c]]
    /\ listed' = (listed /\ (private \/ driver = "live"))
    /\ table' = IF ref_count + 1 = 1
                THEN Rebalanced(listed', private, client_count', ref_count + 1)
                ELSE table
    /\ UNCHANGED <<private, privatecnt, driver>>

\* dmaengine_put.
dmaengine_put ==
  /\ ref_count' = ref_count - 1
  /\ client_count' = IF listed /\ ~private THEN [c \in Chans |-> Put(c)]
                     ELSE client_count
  /\ modref' = [c \in Chans |-> modref[c] + client_count'[c] - client_count[c]]
  /\ UNCHANGED <<private, privatecnt, listed, driver, table>>

\* private_candidate: the device must not be used publicly, and the first
\* channel without a client is the candidate.
Candidate_Busy == LET unused == {c \in Chans : client_count[c] = 0}
                  IN  IF ~listed \/ unused = {} THEN 0 ELSE Min(unused)
Candidate ==
  LET unused == {c \in Chans : client_count[c] = 0}
  IN  IF \/ ~listed \/ unused = {}
         \/ NumChans > 1 /\ ~private /\ unused # Chans
      THEN 0 ELSE Min(unused)

\* __dma_request_channel when the candidate c can be had.
Acquire(c) ==
  /\ client_count' = [client_count EXCEPT ![c] = 1]
  /\ modref' = [modref EXCEPT ![c] = @ + 1]
  /\ private' = TRUE /\ privatecnt' = privatecnt + 1
  /\ UNCHANGED listed

\* __dma_request_channel when there is none, or when dma_chan_get fails: on a
\* module that is going, which is dropped from the list, or for resources.
Refuse(c) ==
  /\ listed' = (listed /\ (c = 0 \/ driver = "live"))
  /\ private' = IF c # 0 /\ privatecnt = 0 THEN FALSE ELSE private
  /\ UNCHANGED <<client_count, modref, privatecnt>>

Release_NoModulePut(c) ==
  /\ client_count' = [client_count EXCEPT ![c] = Put(c)]
  /\ privatecnt' = privatecnt - 1
  /\ private' = IF privatecnt - 1 = 0 THEN FALSE ELSE private
  /\ UNCHANGED <<listed, modref>>
\* dma_release_channel.
Release(c) ==
  /\ client_count' = [client_count EXCEPT ![c] = Put(c)]
  /\ modref' = [modref EXCEPT ![c] = IF client_count[c] = 0 THEN @ ELSE @ - 1]
  /\ privatecnt' = privatecnt - 1
  /\ private' = IF privatecnt - 1 = 0 THEN FALSE ELSE private
  /\ UNCHANGED listed

-----------------------------------------------------------------------------
(* The shared policy.                                                      *)

Goto(u, l) == pc' = [pc EXCEPT ![u] = l]

\* start_policy_sh is copy_dmaengine_get: dmaengine_get first ...
start_policy_sh(u) ==
  /\ pc[u] = "off" /\ Goto(u, "counting")
  /\ dmaengine_get
  /\ UNCHANGED <<copy_ref_count, percpu_chan, next_cpu, using>>

\* ... and then the count of the copies, under the mutex once more.
copy_dmaengine_get(u) ==
  /\ pc[u] = "counting" /\ Goto(u, "on")
  /\ copy_ref_count' = copy_ref_count + 1
  /\ UNCHANGED <<device, module, ref_count, table, percpu_chan, next_cpu, using>>

\* stop_policy_sh is copy_dmaengine_put, in the same order.
stop_policy_sh(u) ==
  /\ pc[u] = "on" /\ using[u] = 0 /\ Goto(u, "uncounting")
  /\ dmaengine_put
  /\ UNCHANGED <<copy_ref_count, percpu_chan, next_cpu, using>>

copy_dmaengine_put(u) ==
  /\ pc[u] = "uncounting" /\ Goto(u, "off")
  /\ copy_ref_count' = copy_ref_count - 1
  /\ UNCHANGED <<device, module, ref_count, table, percpu_chan, next_cpu, using>>

\* A copy on cpu i gets its channel from copy_dma_get_channel_sh.
copy_sh(u, i) ==
  /\ pc[u] = "on" /\ using[u] = 0
  /\ copy_ref_count > 0 /\ table[i] # 0
  /\ using' = [using EXCEPT ![u] = table[i]]
  /\ UNCHANGED <<device, module, refs, table, percpu_chan, pc, next_cpu>>

-----------------------------------------------------------------------------
(* The exclusive policy.                                                   *)

\* start_policy_excl clears the exclusive channels, in init_dma_chan_excl ...
start_policy_excl(u) ==
  /\ pc[u] = "off"
  /\ percpu_chan' = [i \in Cpus |-> 0]
  /\ Goto(u, "requesting") /\ next_cpu' = [next_cpu EXCEPT ![u] = 1]
  /\ UNCHANGED <<device, module, refs, table, using>>

Advance(u, last) ==
  IF next_cpu[u] = NumCpus THEN Goto(u, last) /\ next_cpu' = [next_cpu EXCEPT ![u] = 1]
  ELSE next_cpu' = [next_cpu EXCEPT ![u] = @ + 1] /\ UNCHANGED pc

\* ... and requests one for each cpu, in complete_dma_chan_excl.
request_channel(u) ==
  /\ pc[u] = "requesting" /\ Candidate # 0 /\ driver = "live"
  /\ Acquire(Candidate)
  /\ percpu_chan' = [percpu_chan EXCEPT ![next_cpu[u]] = Candidate]
  /\ Advance(u, "on")
  /\ UNCHANGED <<driver, refs, table, using>>

request_fails_NoRelease(u) ==
  /\ pc[u] = "requesting"
  /\ Candidate = 0 \/ driver # "live" \/ AllocMayFail
  /\ Refuse(Candidate)
  /\ Goto(u, "off") /\ UNCHANGED next_cpu
  /\ UNCHANGED <<driver, refs, table, percpu_chan, using>>
\* When a request fails, release_dma_chan_excl gives back what there is.
request_fails(u) ==
  /\ pc[u] = "requesting"
  /\ Candidate = 0 \/ driver # "live" \/ AllocMayFail
  /\ Refuse(Candidate)
  /\ Goto(u, "releasing") /\ next_cpu' = [next_cpu EXCEPT ![u] = 1]
  /\ UNCHANGED <<driver, refs, table, percpu_chan, using>>

\* stop_policy_excl.
stop_policy_excl(u) ==
  /\ pc[u] = "on" /\ using[u] = 0
  /\ Goto(u, "releasing") /\ next_cpu' = [next_cpu EXCEPT ![u] = 1]
  /\ UNCHANGED <<device, module, refs, table, percpu_chan, using>>

\* One round of the loop of release_dma_chan_excl.
release_chan_excl(u) ==
  LET i == next_cpu[u]
  IN  /\ pc[u] = "releasing"
      /\ IF percpu_chan[i] # 0
         THEN Release(percpu_chan[i]) /\ percpu_chan' = [percpu_chan EXCEPT ![i] = 0]
         ELSE UNCHANGED <<device, modref, percpu_chan>>
      /\ Advance(u, "off")
      /\ UNCHANGED <<driver, refs, table, using>>

\* A copy on cpu i gets its channel from copy_dma_get_channel_excl.
copy_excl(u, i) ==
  /\ pc[u] = "on" /\ using[u] = 0 /\ percpu_chan[i] # 0
  /\ using' = [using EXCEPT ![u] = percpu_chan[i]]
  /\ UNCHANGED <<device, module, refs, table, percpu_chan, pc, next_cpu>>

copy_done(u) ==
  /\ using[u] # 0
  /\ using' = [using EXCEPT ![u] = 0]
  /\ UNCHANGED <<device, module, refs, table, percpu_chan, pc, next_cpu>>

-----------------------------------------------------------------------------
(* The driver's module.                                                    *)

\* A module without references may be removed; try_module_get then fails.
delete_module ==
  /\ MayUnload /\ driver = "live" /\ \A c \in Chans : modref[c] = 0
  /\ driver' = "going"
  /\ UNCHANGED <<device, modref, refs, table, percpu_chan, users>>

\* dma_async_device_unregister, called by the driver's exit routine.
device_unregister ==
  /\ driver = "going"
  /\ driver' = "absent" /\ listed' = FALSE
  /\ table' = [i \in Cpus |-> 0]
  /\ UNCHANGED <<client_count, private, privatecnt, modref, refs, percpu_chan, users>>

\* dma_async_device_register: a new device takes references for the clients
\* that wait for channels.
device_register ==
  \E fails \in Failures :
    LET count == [c \in Chans |-> IF ref_count = 0 \/ c \in fails THEN 0 ELSE ref_count]
    IN  /\ driver = "absent"
        /\ driver' = "live" /\ listed' = TRUE
        /\ private' = FALSE /\ privatecnt' = 0
        /\ client_count' = count /\ modref' = count
        /\ table' = Rebalanced(TRUE, FALSE, count, ref_count)
        /\ UNCHANGED <<refs, percpu_chan, users>>

Next ==
  \/ \E u \in ShUsers : \/ start_policy_sh(u) \/ copy_dmaengine_get(u)
                        \/ stop_policy_sh(u) \/ copy_dmaengine_put(u)
                        \/ \E i \in Cpus : copy_sh(u, i)
  \/ \E u \in ExUsers : \/ start_policy_excl(u) \/ request_channel(u)
                        \/ request_fails(u) \/ stop_policy_excl(u)
                        \/ release_chan_excl(u) \/ \E i \in Cpus : copy_excl(u, i)
  \/ \E u \in Users : copy_done(u)
  \/ delete_module \/ device_unregister \/ device_register

Spec == Init /\ [][Next]_vars

-----------------------------------------------------------------------------
\* Every variable has its type.
TypeOK ==
  /\ client_count \in [Chans -> Nat]
  /\ private \in BOOLEAN /\ privatecnt \in Int /\ listed \in BOOLEAN
  /\ driver \in {"live", "going", "absent"} /\ modref \in [Chans -> Int]
  /\ ref_count \in Int /\ copy_ref_count \in Int
  /\ table \in [Cpus -> 0..NumChans] /\ percpu_chan \in [Cpus -> 0..NumChans]
  /\ pc \in [Users -> {"off", "counting", "on", "uncounting", "requesting", "releasing"}]
  /\ next_cpu \in [Users -> Cpus] /\ using \in [Users -> 0..NumChans]

\* dmaengine_ref_count is the number of shared users that hold a reference, and
\* BUG_ON(dmaengine_ref_count < 0) in dmaengine_put never fires.
Holders == {u \in ShUsers : pc[u] \in {"counting", "on"}}
RefsCounted == ref_count = Cardinality(Holders)

\* The channels of a public device have one client for each reference, or none
\* when they missed the references taken while the device was private or could
\* not be allocated; the channels of a private device have one client or none.
\* So dmaengine_put, which drops one reference from each, leaves no channel
\* with too many or too few, whatever the policies did in between.
CountsBalanced ==
  \A c \in Chans : client_count[c] \in IF private THEN {0, 1} ELSE {0, ref_count}

\* References are balanced, those of the subsystem and those of every channel.
RefsBalanced == RefsCounted /\ CountsBalanced

\* The driver's module has one reference for each client of a channel, and is
\* only removed when no channel has a client.
DriverHeld ==
  /\ modref = client_count
  /\ driver # "live" => \A c \in Chans : client_count[c] = 0

\* The channel a copy uses has its resources until the copy ends, although the
\* lookup takes no lock and no reference and other users start and stop their
\* policies meanwhile.
ChannelUsable == \A u \in Users : using[u] # 0 => client_count[using[u]] > 0

\* An exclusive channel has no other user: it is not given to two cpus, it is
\* private, and no copy of a shared user runs on it.
ExclusiveHeld ==
  \A i \in Cpus : percpu_chan[i] # 0 =>
    /\ private /\ client_count[percpu_chan[i]] = 1
    /\ \A j \in Cpus \ {i} : percpu_chan[j] # percpu_chan[i]
    /\ \A u \in ShUsers : using[u] # percpu_chan[i]

\* Every private channel is known to percpu_chan_copy, so that stopping the
\* policy gives it back and the device can become public again.
NoneLeaked ==
  /\ privatecnt = Cardinality({i \in Cpus : percpu_chan[i] # 0})
  /\ private <=> privatecnt > 0
=============================================================================
