# Dmacftu in TLA+

Dmacftu is an extension of Linux 3.9.2 that lets an Intel I/OAT DMA engine make
the copies between user and kernel memory (`copy_to_user`, `copy_from_user`),
under policies that share the engine's channels out among cpus and priorities,
and a set of tools that trace and measure those copies. This directory holds
TLA+ models of its core, the TLC configurations that check them, and TLAPS
proofs about them. File and line references below are relative to `src/`; the
line ranges that each definition models are in `PROJECT.json` under `map`.

## 1. The system

| Component | State | Operations | Correct when |
|---|---|---|---|
| Trace ring (`source/kernel/circular_buffer.c`, one per cpu and kind of copy) | `start`, `end`, `count_event`, slots | `cbWrite` by the copy functions, `cbRead_list` by readers of the device; no locks | no slot is written while it is read; measures come out whole, once and in order; a full ring drops only the newest |
| ioat channel (`source/drivers/dma/ioat/dma.c`) | free and used descriptor lists, cookies, completion area, watchdog timer, state bits | set up, take down, prepare, submit, issue, clean up (pollers and tasklet), watchdog, reset, suspend, resume | a descriptor has one owner; nothing recycled is still referred to; what is reported complete has been copied; every wait ends |
| Channel allocator (`source/drivers/dma/dmaengine.c`) | `client_count` per channel, `DMA_PRIVATE`, reference counts, `channel_table` | get, put, request, release, find, register, unregister | references balance; a driver with clients is not removed; a channel in use keeps its resources |
| Exclusive and shared policies (`source/drivers/dma/dma_policy_ex_sh.c`) | `percpu_chan_copy`, `copy_dmaengine_ref_count`, a request per copy | start, stop, pin, copy, wait, unpin | an exclusive channel has one user and is given back; every byte is sent once and to its place; pins balance |
| Kernel copy functions (`source/arch/x86/include/asm/uaccess_64.h`) | a request on the stack | copy by DMA, by the cpu when that fails, write a measure | what is reported copied is in place |
| Priority policy (`source/drivers/dma/dma_policy_prio.c`) | a list of channels with priorities, a timer with two quanta, suspended channels | start with its roll-back, stop, the timer callback, copies | in the high quantum only the high priority channel uses the bus; every channel is given back, and running; every copy ends |
| Trace driver (`trace/driver/`) | one region buffer per device | load, unload, open, read, lseek, close | what was had is given back once; a read returns its own data |
| Benchmark drivers (`micro-benchmark_*/driver/`) | device data, numbers, class, cdevs, devices, the policy in use, pinned requests | load, unload, open, ioctl, read, write, close, writes of the parameter | what was had is given back once; the policy that was started is stopped; copies by DMA have their pages and stay in their share of the memory |
| Trace daemon (`trace/daemon/`), Msg daemon (`micro-benchmark_Msg/daemon/`) | a mapped page of a sparse file; output files | empty the rings, read, record, copy to the regular file; measure, write | what is recorded is whole, in order and new; nothing stays open |
| Band and Cache daemons, mibench (`micro-benchmark_Band/daemon/`, `micro-benchmark_Cache_2CPU/`) | threads, a condition variable and its counter, results | create, meet, copy, join, cancel | the threads of a round start together and clean up; rounds do not overlap; the main thread exits |

**Interaction.** A call of `copy_to_user` looks up a channel of its cpu in the
allocator's table (or in `percpu_chan_copy`), pins the user pages, gives the
channel one descriptor chain per page, polls for the cookie of the last one,
unpins, and lets the cpu copy if any of this failed; then it writes a measure
into the ring of its cpu. Modules do the same in separate calls. The allocator
hands channels to policies and takes the references that keep the driver's
module loaded. The priority policy's timer suspends and resumes channels behind
the back of the copies. The trace daemon reads the rings through the driver. A
benchmark driver starts a policy when it is loaded and stops it when it is
removed; its daemon opens one device per thread and copies through it.

**What is hard.** The ring has no locks. The channel's cleanup only *tries* its
locks and relies on pollers, the tasklet and the watchdog together; the engine
acts between any two of the driver's steps; the watchdog resets and restarts an
engine with work outstanding. The allocator's lookup takes neither lock nor
reference. References are skipped while the device is private and must still
balance. The pin, copy and wait steps fail one at a time, and a wait that times
out leaves its descriptors with the engine. The timer of the priority policy
takes no lock on the list it walks. The drivers can be opened before their init
is over, and look at a writable parameter more than once. The threads of the
daemons wait on a condition without a loop. The list, with lines, is under
`hazards` in `PROJECT.json`.

## 2. Modules

| Module | Models | Composition |
|---|---|---|
| `MeasureLog` | what a ring promises: a bounded FIFO log | abstract |
| `CircularBuffer` | the ring with one writer and any readers | implements `MeasureLog` |
| `IoatChannel` | one channel of the driver and the engine behind it | |
| `DmaEngine` | the allocator, both policies, modules being loaded and removed | |
| `DmaCopy` | one copy after another, from pinning to the cpu's fallback | its channel is what `IoatChannel` promises of an engine that does not fail |
| `PriorityPolicy` | the priority policy with its timer, its users and the allocator's other users | its copies are those of `DmaCopy`, reduced to pieces on a queue |
| `BenchDriver` | load, unload and files of the four character drivers | the policies and the copies are counted, not repeated |
| `BenchDaemon` | the threads of the Band and Cache daemons and of mibench | |
| `Recorder` | the trace daemon with the driver's read, and the Msg daemon | its rings are what `MeasureLog` promises |
| `CircularBufferProofs`, `IoatChannelProofs`, `DmaEngineProofs`, `DmaCopyProofs`, `PriorityPolicyProofs`, `BenchDriverProofs`, `BenchDaemonProofs`, `RecorderProofs` | proofs | extend the module they are about |
| `MC*` | instances for TLC | extend the module they are about |

A definition named `X_Something` just before a definition `X` is a mutated form
of `X`, a plausible slip in the code that one of the properties must notice; no
specification uses it.

### CircularBuffer
A measure is the number `get_counter` gave it. Every access to `start`, `end`
and the slots is an action, because writer and reader share no lock: `cbWrite`
tests for room, copies (the slot is `Torn` in the meantime) and moves `end`;
`cbRead_list` reads `end`, computes its two segments from `start`, copies each
and moves `start`. The writer runs between `get_cpu` and `put_cpu`, so there is
one per ring. `delivered` and `dropped` are history variables. `cbRead` has no
caller in the repository; `SingleReads` switches it on.

### IoatChannel
The lists are sequences of descriptors; a descriptor is its bus address and 0 is
no address. A section under `desc_lock` is one step; `cleanup_lock`, taken with
`trylock`, is held across the read of the completion area and the walk of the
list, so that both contention and stale addresses happen. The timer handler is
cut where the hardware may act. The engine (marked external) fetches and
executes descriptors in the order of their links, writes its progress, reads
append commands, halts and is suspended. `part` and `executed` record which copy
a descriptor was for and which have been made.
`Prompt` says that the watchdog only expires on work the engine does not get on
with; with `Prompt = FALSE` it may expire at any time.

### DmaEngine
One device with `NumChans` channels. A section under `dma_list_mutex` is one
step; the exclusive policy requests and releases its channels one at a time, so
other users run in between. Users are modules: they start a policy, copy, and
stop it after their last copy. `modref` keeps the driver's module references by
the channel they were taken for; the loader (external) removes the driver when
there are none, and can load it again. The lookups of `copy_sh` and `copy_excl`
remember a channel in `using` without a lock until `copy_done`.

### DmaCopy
User memory is pages of `PAGE_SIZE` bytes; a descriptor records the bytes of the
request it copies (`at`, `len`) and the page and offset. The steps of a request
are in the order of the code: the copy functions of `uaccess_64.h` look for a
channel, pin, copy, wait, unpin and fall back on the cpu; the Msg, Band and Cache
drivers (`via`) pin first and have no fallback. `SetDirty` is the flag that each
of them unpins with. `kernel_ds` is the case of a kernel address
(`PIN_NO_USER`), one unpinned piece. The failures are those of the code: no
channel, no memory for the array, `access_ok`, fewer pages than asked for, no
descriptor, a mapping that fails (only `dma_async_memcpy_pg_to_buf` checks it),
the five seconds of `dma_sync_wait`. The array of pages comes from `kmalloc` and
holds what was in that memory: `Stale` is the pages its entries may name, 0 being
NULL. `stray` is a history variable that counts the releases made by such
entries.

### PriorityPolicy
`start_policy_prio2` requests its channels one at a time (`complete_dma_chan_prio`),
rolls back when there are too few (`no_prio_channel`) and starts the timer;
`cancel_timer`, `stop_policy_prio` and `release_dma_chan_prio` are the stages of
the stop. `prio_hrtimer_callback` is one step, as it runs in interrupt context:
it suspends all channels but the first, or resumes them. `other_request` and
`other_release` are the allocator's other users. A copy is `no`, the number of
the client's request; `hw_execute` (external) makes the next issued piece of a
channel that is not suspended. A module stops the policy after its last copy.

### BenchDriver
The variable `drv` says which of the four drivers is loaded. Init and exit are
cut at every call that can fail and at every turn of their loops (`ipc`, `i`), so
that clients open devices in between. Resources are counted, so that giving one
back twice, or keeping one, shows. `policy` counts the starts of each policy
that were not stopped; `left` is what loads that failed after the start left on.
A module freed with a file open is `"dangling"`, and what its clients would do
is not followed. `pages` is the fate of the array of pages of a request;
`mem_index` and `counter_op` are the arithmetic of the Cache driver. Clients call
in any order that the handlers accept: a client that calls the Band driver
otherwise than its daemon does (load, copy, unload, close) is in the history
variable `disorder` from then on. A copy has the length its call was checked for
(`arg`) and the one that is copied (`len`): Band's `read` and `write` check their
own argument and copy what `MB_LOAD` has set (`user_size`).

### BenchDaemon
A section under `queue_lock` is one step. `pthread_cond_wait` puts a thread to
sleep until `woken` has it; a cancelled thread dies at its next cancellation
point, with the lock if it slept on the condition, as there is no clean-up
handler. The main thread creates, joins, cancels and frees; the rounds of the
Band daemon reuse the counter. The set-up, the copies and the creation of any
thread may fail. `spurious_wake` is a return of `pthread_cond_wait` that nobody
caused; the history variable `spurious` has the threads of the round that went on
that way.

### Recorder
`clean_kernel_buffer`, the reads and the copy of the text are the steps of
`record_measures`, each with its failing calls. A ring is a bounded log that the
kernel goes on filling, and a read takes at most `N_UNIT` measures of a cpu
(`region_read_cpu`). A character of a file is known by its measure and its place
in the line, so that a lost, repeated or overwritten character shows; the sparse
file is written through a window of a page, remapped as `offset_map` moves on.
`MAX_SIZE_SP` is computed modulo `INT_RANGE`. `fault` records the failures after
which the code returns 0 all the same.

## 3. Runs

| Run | Instance | Shows |
|---|---|---|
| `ring` | 4 slots, 9 events, read sizes 0, 2, 3, 5 | `AccessesApart`, `DeliveredInOrder`, `EventsAccounted`, and `RefinesLog`: the ring implements `MeasureLog` |
| `ioat` | 2 clients, 4 descriptors, 3 transactions of up to 2 parts, set up twice | lists, links, cookies and addresses stay consistent (`ListsSound`); completed means copied; no copy after completion; the watchdog is armed while there is work and quiet after the channel is taken down |
| `ioat_faults` | halts, suspensions, early timers, abandoned waits | `ListsSound` and `WatchdogArmed` through resets and restarts |
| `ioat_live` | 2 clients, halts, fairness | `WaitsEnd` |
| `ioat_restart` | halts | violation of `CompletedMeansCopied` (finding) |
| `engine` | 4 channels, 3 cpus, 3 shared users, 1 exclusive | `RefsBalanced`, `DriverHeld`, `ChannelUsable`, `ExclusiveHeld`, `NoneLeaked` |
| `copy` | pages of 3 bytes, addresses 0-2, lengths 0-7, 2 copies, 2 descriptors, arrays with old pointers, fairness | `PiecesTile`, `PagesMeant`, `PinsAccounted`, `WrittenDirty`, `ReturnMeansCopied`, and `CopyReturns` |
| `copy_timeout` | a wait that times out | violation of `PagesResident` (finding) |
| `prio` | 2 channels, 2 priorities, 2 clients, 2 starts, copies of up to 2 pages, 1 descriptor per channel, fairness | `GivenBack`, `TimerSeesList`, `HighAlone`, `CopyEnds` |
| `bench_driver` | the four drivers with 2 devices, 2 loads or a load and a write of the parameter, 3 copies per Cache device and direction, lengths 0, 2 and 5 with a share of 4, 1 client in disorder | `Balanced`, `FilesServed`, `PolicyStopped`, `PinsFollowCopies`, `CopyInside` |
| `bench_daemon` | 3 threads, 2 rounds, 2 passes, any thread failing, spurious returns, fairness | `StartTogether`, `ThreadsCleanUp`, `RoundsComplete`, `MainExits` |
| `recorder` | 2 cpus, rings of 5, 2 reads of at most 3 measures, 5 events, pages and lines of 4 characters; sizes up to 5 with 3 measures each | `RecordComplete`, `OldDiscarded`, `TextFits`, `CleanUp` |

**Bounds.** The ring is scaled from 1024 slots to 4 and the read size from 500
to at most 5: with nine events it wraps twice, fills up, and is read in one and
two segments, cut short or not. Three transactions of two parts on a channel
with room for four descriptors use every path of the lists: running out,
allocating more, giving back half a chain, keeping the last descriptor. Two
clients suffice for every pair of holders of the two locks. Four channels and
three cpus make `nth_chan` and the exclusive requests both run out and not.
Addresses 0 to 2 with pages of 3 bytes are every alignment, and lengths up to 7
give one to three pages, with and without a partial first and last piece; two
descriptors make every longer copy run out of them; a second copy meets what
the first left in the queue, and pages that a stale entry released.

In `prio` the other users take channels from under the policy, so that a start
both succeeds and runs out half way; the second start meets what the first left;
a copy of two pages on a channel with one descriptor waits for the engine
between its pieces, across quanta. Two devices are the fewest with a device
before and after the one that fails; of a boot memory of 8 a device has a share of
4, in which copies of 2 go round (three of them come back to the first place) and
which one of 5 would leave; 0 is the case without memory; a second load meets
what a failed one left. `MaxLoads` bounds loads and writes of the parameter
together: what a written parameter changes shows within one load. Three threads
have a first, a middle and a last to arrive; of two rounds the first is the
warm-up and the second reuses the counter, and the second and third benchmark of
the Band daemon begin where the one before ended. With lines
of two or three characters and pages of four, lines cross a page, end at its end
and leave room; with five events and rings of five, of which one slot is never
used, a ring fills up.

`CHECK_DEADLOCK FALSE` stands where a process stops after a bounded number of
copies, loads or rounds.

**Fairness.** `IoatChannel`: the engine executes what it is told to and the
timer expires (a hardware clock); clients and cleaners that can go on do, as
they run on cpus of their own without being preempted for ever (the kernel is
`PREEMPT_NONE`); a cleaner that finds its locks free again and again gets them
(strong fairness: it polls in a loop while the holders leave their short
sections). A suspended channel is resumed, as the priority policy's timer does.
`DmaCopy`: the process and the engine go on, and a mapping does not fail for
ever while there are descriptors. The code does not guarantee the last: with a
mapping that always fails with `-EFAULT` its loop would not end. In `copy` the
wait also ends by its time limit, so `CopyReturns` rests on the loop that waits
for descriptors; `ioat_live` excludes the limit (`MayTimeOut = FALSE`) so that
`WaitsEnd` does not rest on it.
`PriorityPolicy`: the timer expires, the clients go on, and (strong fairness) a
channel that is resumed again and again makes a piece, and a client that polls
finds a descriptor that is free again and again; the low quantum is 60 us and
a piece is at most a page. The time limit of the wait is not under fairness, so `CopyEnds`
does not rest on it. `BenchDaemon`: the main thread and the threads that can go
on do; no spurious return is assumed. `BenchDriver` and `Recorder` claim no liveness.

## 4. What the runs found

Two places where the code and what it says of itself disagree are runs that TLC
refutes, with their quotations in `findings`.

1. `ioat_restart`: after a halt `ioat1_timer_event` restarts the engine at the
   *last* used descriptor; its completion completes the ones before, which were
   never copied.
2. `copy_timeout`: a wait that times out is followed by unpinning while the
   engine still has the descriptors.

The passing runs hold under conditions that the constants name or the property
states. The condition matters in each of these cases; where a constant is named
in brackets, changing it makes TLC find the violation.

- Two processes reading one trace device get the same measures, and `start` can
  overtake `end` (`Readers` with two members: `AccessesApart` and
  `DeliveredInOrder`).
- A channel taken down after a wait was given up keeps its state bits, and the
  next submission does not arm the watchdog (`ioat_faults` with `MaxAllocs = 2`:
  `WatchdogArmed`; also `ListsSound`, as the cookies of what was given up never
  complete).
- Starting the exclusive policy twice forgets the channels of the first start
  (`ExUsers` with two members: `NoneLeaked`).
- `kmalloc` does not clear the array of pages: a failure to pin releases what
  entries that were never written name. The run has such entries;
  `PinsAccounted` counts these releases (`stray`) and claims that there are no
  other false ones, not that there are none.
- `read` of the Cache driver pins its pages for reading and unpins them with
  `SET_DIRTY_OFF` although the engine has written them, and `write` has the flags
  the other way round. The model does the same; `WrittenDirty` leaves copies of
  the Cache driver out, and would be violated with them.
- A thread other than the first that fails before it has counted itself leaves
  the others, and then `pthread_join`, waiting. The run has it: `Stuck` is that
  state, and `MainExits` says that it is the only way in which the main thread
  does not come to its exit, as long as no `pthread_create` fails.
- After a failing `pthread_create` the roll-back runs off the array (`"crashed"`),
  or the Band daemon goes on to its next benchmark with threads of the last one
  (`"goes on"`), which is not followed; `MainExits` claims nothing of either.
- `pthread_cond_wait` is not in a loop: a spurious return lets its thread start
  early. The run has such returns; `StartTogether` is about the threads that a
  broadcast let go.
- The Band driver compares the length that a `read` or `write` is called with to
  the share, and copies the length of the last `MB_LOAD`, which is compared with
  nothing; `MB_LOAD` fills as many bytes with random ones. `CopyInside` is about
  copies of the length that was checked (`len = arg`), and shows that Msg and
  Cache make no other.
- A length of 0 passes the check of the Cache driver, which then divides by it:
  `divide_error` ends the client before it pins anything.
- The Band driver does not check the order of its calls: a second `MB_LOAD`
  forgets an array, a second `MB_UNLOAD` frees one twice, a copy without `MB_LOAD`
  has no pages, and a client that closes or dies with a loaded request leaves its
  pages pinned (`disorder` in `PinsFollowCopies`).
- A restarted engine makes again a copy that was already reported complete
  (`NoCopyAfterCompletion` with the constants of `ioat_faults`).
- A parameter written while a module is loaded changes what exit stops and what
  a measurement unpins (`~changed` in `PolicyStopped` and `PinsFollowCopies`).
- A load that fails after its policy was started leaves the policy on (`left`);
  a file opened before init fails is left with a module that is gone (`early`).
- A benchmark of the Band daemon that fails cancels its threads and frees their
  memory while they may still copy (`ret = 0` in `RoundsComplete`), and nothing
  cleans up behind them (`ThreadsCleanUp` is about threads that end).
- A write that is cut short loses text, and some failures of the daemons return
  0 (`fault`); a failing `lseek` leaves the regular file open.
- `MAX_SIZE_SP` is a product of ints: with the code's sizes it overflows from
  `(reads + 5) * cpus = 21475` on, and a product that wraps to a small size
  makes a file that the text outgrows, where the daemon is killed (`INT_RANGE =
  64`: `TextFits`).

Met while reading and not stated by a run: the channel table stays empty when
the first shared reference is taken while the device is private; a device
dropped by `dmaengine_get` is deleted from the list again when it is
unregistered; `__issue_pending` may write an append command while a reset
settles; any negative cookie is retried, `-EFAULT` too; the functions without
pinning return 0 after a wait that timed out; `pthread_create` returns positive
errors, which `ret < 0` lets pass, and the loop that would cancel runs while
`j <= 0`; a high quantum longer than the watchdog's period makes it reset a
channel that is only suspended.

## 5. Proofs

All proofs are checked by TLAPS 1.4.5 (SMT, Zenon, and LS4 for the temporal
steps). The assumptions are the named `ASSUME`s of the modules (sizes are
positive naturals, switches are Booleans), evaluated by TLC in every run.

A theorem holds for every value of the constants that satisfies its hypothesis.
A hypothesis leaves out a case that section 4 describes, and the instance of the
run that checks the property satisfies it.

| Theorem | Property | Hypothesis |
|---|---|---|
| `CircularBufferProofs!TypeCorrect` | `TypeOK` | |
| `CircularBufferProofs!RingSafe`, `ReadsInOrder`, `Accounted`, `Implements` | `AccessesApart`, `DeliveredInOrder`, `EventsAccounted`, `RefinesLog` | `OneReader`: a ring has at most one reader |
| `IoatChannelProofs!Lists` | the first parts of `ListsSound`: `TypeOK`, `OnOneList`, `LinksFollowList`, `AddressesInUse` | |
| `IoatChannelProofs!Sound` | `ListsSound` | `MaxAllocs = 1 \/ ~MayTimeOut`: the channel is set up once, or no wait is given up |
| `IoatChannelProofs!Armed` | `WatchdogArmed` | `MaxAllocs = 1` |
| `IoatChannelProofs!Steady`, `CopiesDone`, `NoneLate` | `ListsSound`, `WatchdogArmed`, `TimerQuietAfterFree`; `CompletedMeansCopied`; `NoCopyAfterCompletion` | `Healthy`: the engine neither halts nor is suspended, and the timer outlasts it |
| `DmaEngineProofs!Balanced`, `Held`, `Exclusive` | `RefsBalanced`, `DriverHeld`, `ExclusiveHeld` | |
| `DmaEngineProofs!Usable`, `NotLeaked` | `ChannelUsable`, `NoneLeaked` | at most one user of the exclusive policy |
| `DmaCopyProofs!Placement`, `Tiles`, `Pins`, `Dirty`, `Copies` | `PagesMeant`, `PiecesTile`, `PinsAccounted`, `WrittenDirty`, `ReturnMeansCopied` | |
| `PriorityPolicyProofs!Returned`, `WholeList`, `BusToHigh` | `GivenBack`, `TimerSeesList`, `HighAlone` | |
| `BenchDriverProofs!GivesBack`, `Serves`, `Stops`, `Inside`, `PinsFollow` | `Balanced`, `FilesServed`, `PolicyStopped`, `CopyInside`, `PinsFollowCopies` | |
| `BenchDaemonProofs!Together`, `CleansUp`, `Completes` | `StartTogether`, `ThreadsCleanUp`, `RoundsComplete` | |
| `RecorderProofs!Cleaned`, `Discarded`, `Complete` | `CleanUp`, `OldDiscarded`, `RecordComplete` | |
| `RecorderProofs!Fits` | `TextFits` | `MAX_SIZE_SP < INT_RANGE \div 2` and `PLUS_CHAR_LINE >= 1`: the size does not overflow, and leaves room beyond the reads (the code has 5) |

**CircularBuffer.** `AccessesApart` alone is not inductive: `RingInv` adds
that the room the writer saw is still there (`WriterHasRoom`; readers only make
more) and what a reader knows at each point of `cbRead_list` (`ReaderKnows`; the
`end` it read has not been overtaken, and a second segment exists only when the
first runs to the end of the array). `OrderInv` adds that the waiting slots are
whole, ordered and younger than what was delivered, and that a copy taken is
what the slots hold. `AccountInv` adds that delivered, waiting, dropped and
being written are all the numbers given out and share none. `Implements` is the
refinement: the log's contents are the waiting slots in order from `start`, a
step of `cbWrite` that moves `end` is the log's append or its drop, the step of
`cbRead_list` that moves `start` takes the front of the log, and every other
step leaves the log as it is.

**IoatChannel.** `ListInv` joins the lists to what refers to them. Its core is
`MarkInv`: on the used list the completion area is not behind the address a
cleanup has read earlier, nor the engine behind the completion area, and the
descriptor the engine has prefetched is the next one. Without that order a
cleanup could release a descriptor that the engine, the timer or a second
cleanup still refers to. `LockInv` says who may be between the two halves of a
cleanup, `ChainInv` which descriptors a client has in hand. `ListInv` holds for
any constants: halts, resets and waits given up do not break the lists.
`CookieInv` adds the cookies: only used descriptors have one, they rise along the
list, and a channel that is taken down has completed them all, for which the
waiting client is needed (`WaitInv`): it is what a wait given up breaks.
`ArmedInv` goes through the `PENDING` bit: it is set while a descriptor has a
cookie, and while it is set the timer is armed or its handler runs.
`free_chan_resources` leaves the bit, which is why `Armed` assumes that a channel
is set up once. For a healthy engine `CalmInv` shows that the handler never finds
the engine stuck: a chain that ends early for the engine has an append command
under way or a client that will issue one, and the end of the chain writes the
completion area. `CopyInv` follows the engine: it goes on from the descriptor
that it finished last, what it has passed is copied, and what is not copied of an
open transaction stands on the list not behind the descriptor with its cookie,
so that completing that one means that all were copied. The halts excluded by
`Healthy` are those of the finding `ioat_restart`.

**DmaEngine.** For any number of channels, cpus and users of both policies,
allocation failures and driver removals included. The invariant joins the
reference counts to the users' program counters (`RefInv`), the driver's state to
the clients (`DriverInv`), private channels to `percpu_chan` (`PrivateInv`), the
table to channels with clients (`TableInv`), and the channels of shared copies to
a public device (`UsingInv`). `CountsBalanced` holds each channel to none or all
of the references; it is the part that `balance_ref_count` keeps and without
which a put could free a channel in use. `KnownInv`, for `NotLeaked`, counts the
private channels by the entries of `percpu_chan_copy`, which the loops of start
and stop fill and clear from the first cpu on.

**DmaCopy.** For every page size, address, length and number of descriptors.
`LoopInv` ties `page_index` and `byte_offset` to the number of bytes sent (the
next byte to send is `page_index` pages and `byte_offset` bytes after the start
of the first page), from which the bound of the array follows by the arithmetic
of `nr_pages`; `PlacedInv` keeps what was queued in place. `DataInv` follows the
bytes: what is copied is what was sent and is no longer in the queue, and the
queued pieces do not overlap (`TileInv`); `Pins` holds whatever `Stale` is, as a
stale entry that is released is counted on both sides; when the wait has succeeded all is
copied (`EndInv`); the engine writes only pages of the array (`WriteInv`), which
is there from the pinning to the unpinning (`PagesInv`).

**PriorityPolicy.** For any number of channels, priorities, clients and starts.
`SlotsInv` says which entries of the list are filled at each stage of start and
stop and that they differ; `OwnInv`, that the allocator, the other users and the
list share the channels out; `SuspendInv`, that in the high quantum all the lower
channels are suspended, that no other channel ever is, and that none is once the
stop has resumed them, before it releases any; `CopyInv`, that a copy's channel
is one of the list while it runs.

**BenchDriver.** For any number of devices, loads and clients. `HeldInv` gives
for each place of init and exit exactly what is held there (`Before(i)` in a
loop); the ladders of `goto`s are right because each step changes both sides of
it alike. `FileInv` ties open files to the state of the module, `PolicyInv` the
policies that are on to the one of this load and those left. `OpInv` keeps the
offset of a copy, and its length where that is the one that was checked, in the
share of its device through the arithmetic of `mem_index` and `counter_op`, and
`user_size` the checked length of a Msg write until it is copied; `AgreeInv` says
from where on the type kept with the data is that of the parameter, and `PinInv`
that a client which is not in disorder holds the pages of exactly the request
that this type names, whatever the other clients do.

**BenchDaemon.** For any number of threads, rounds and passes. `GoneInv` says
which threads are over at each place of the main thread, and that threads are
cancelled only by a benchmark that fails. `CleanInv` bounds the open devices and
pinned pages by the places of the threads, `JoinInv` and `FreeInv` follow what
was joined and freed. `QueueInv`, for `Together`, bounds the counter of the queue
by the number of threads that have arrived: as nobody is woken before it is
`N_CHAN`, all have. A spurious return moves only its own thread, past its
counting, and so leaves the bound as it is.

**Recorder.** `HeldInv` gives what is open and allocated at each place of both
daemons. `TraceInv`, for `Discarded`, holds for any number of cpus, ring size and
read size. `RingInv`: a ring holds measures of its cpu in order. `EmptyInv`: when
a cpu has been read `k` times to empty its ring, what is old stands in the first
`KERNEL_UNIT_BUFFER - 1 - k * N_UNIT` places, as measures that arrive meanwhile
stand behind it; `n_read_clean` reads are therefore enough, and with the code's
1024 slots and reads of 500 one fewer would not be. `TakenInv`: what was taken comes
before what the driver has read for the daemon, and that before what is still in
the ring. That the regions of all cpus are flattened in their order
(`MeasuresAre`) is shown by an induction written out over sets of numbers.

The text is followed character by character. `TextMore`: the text of one measure
more is the text so far and its line. `PutIs`: in a file without NUL, `strlen`
from any page start finds the end of the file, and `sprintf` adds to it.
`MappedIs` puts these together for the lines of one read, by induction over the
lines: although `save_measure` maps from the page in which the text ends, and
`offset_map` is put together from that page and a length, what it leaves is the
old text and the new lines, and `offset_map` is its end. `FileInv`, for the
trace half of `Complete`, says so from the first row to the copy, and of the
copy that what was written is the front of the text up to `position`; when
`offset_map` has come down to 0, that is all of it. `PageIs` is the step of one
page. `SizeInv`, for the Msg half, gives both files after the measures of `m`
sizes and, within a size, after `cpu` lines; `PowerIs` and `SizesAre` show that
the loop that doubles the size ends exactly when the powers of two up to
`MaxSize` are done. `Complete` needs no hypothesis about the size of the sparse
file: where it is too small, the daemon is killed or never ends, and does not
return 0.

`Fits` adds `FitInv`: a read hands over at most `N_CPU * N_UNIT` measures
(`FewMeasures`), so the text after `i` reads has at most `1 + N_CPU * N_UNIT * i`
lines, each shorter than `N_CHAR_LINE`. A mapping reserves `N_CHAR_LINE` for each
new line, more than it will use; `RoomFor` shows that this too stays within
`MAX_SIZE_SP` when `PLUS_CHAR_LINE` is at least 1. The first row is a line that
the product does not count, and needs that room.

**Only model-checked.** The liveness properties `WaitsEnd`, `CopyReturns`,
`CopyEnds` and `MainExits`, which are out of the prover's reach. Every safety
property of a passing run is stated by a theorem.

## 6. What is not modelled

Probing, interrupt set-up, sysfs and the self test of the ioat driver, and
`dca.c` (initialisation against the hardware, from the original driver);
`main.c` and `module.c` (the original kernel's, apart from exports), and the
boot of the rings and of the benchmark memory, done once before any user runs;
the allocator's slave channels, `net_dma` and `dma_run_dependencies` (not used
by copies); the floating-point statistics, the times and the text of the lines
of the daemons; `susan.c` and `qsort_*.c`, third-party load programs.
`ioat1_dma_alloc_chan_resources` is taken to get at least one descriptor.
Lengths are naturals: the `min_t(int, ...)` of the loop is only faithful below
2^31. The priority policy started while it is on, or stopped when its start has
failed, is not followed in `PriorityPolicy`.

## 7. What is left

1. Two readers of one trace device through its region buffer, which no program
   of the repository makes.
2. More than one DMA device, and the removal of one while another serves.
