----------------------------- MODULE BenchDriver -----------------------------
(***************************************************************************)
(* The four character drivers: trace/driver (drv "trace") and the drivers  *)
(* of micro-benchmark_Msg ("msg"), _Band ("band") and _Cache_2CPU          *)
(* ("cache").  Each is a module with MB_MINOR devices.  Its init starts a  *)
(* policy, allocates the data of the devices, registers a range of         *)
(* numbers, a class, the cdevs and the devices, one after the other, and   *)
(* takes back what it has when a step fails; exit does so too.  Meanwhile  *)
(* clients open the devices and copy, in any order of calls.  As the       *)
(* daemons do, client c works on device c alone.                           *)
(*                                                                         *)
(* A resource is counted: 1 after it is had, 0 after it is given back, so  *)
(* that giving it back twice, or having it twice, shows.                   *)
(***************************************************************************)
EXTENDS Integers, FiniteSets

CONSTANTS
  Drivers,      \* which drivers are loaded
  MB_MINOR,     \* devices of a driver
  BootSizes,    \* what size_boot_mem_mb may be; 0: no memory was had at boot
  Lens,         \* lengths that clients ask for
  MaxLoads,     \* bound: loads of the module and writes of its parameter, together
  MaxOps,       \* bound: copies of a Cache device
  MaxDisorder   \* bound: clients that call the Band driver in another order

ASSUME DriverAssumption ==
  /\ Drivers \subseteq {"trace", "msg", "band", "cache"}
  /\ MB_MINOR \in Nat \ {0} /\ BootSizes \subseteq Nat /\ Lens \subseteq Nat
  /\ {MaxLoads, MaxOps, MaxDisorder} \subseteq Nat

VARIABLES
  drv, size_boot_mem_mb,
  mod, ipc, i,             \* the module's state, the place in init or exit, the loop index
  loads, writes,
  type_measure, dtype,     \* the parameter; what init_all has stored as the type of the data
  changed,                 \* (history) the parameter was written after the load
  policy,                  \* policies started and not stopped
  started, left,           \* (history) the one this load started, those failed loads left
  data, region, class, cdev, device,   \* the resources
  cpc, early, disorder,    \* clients; (history) files opened before the module was live,
                           \* clients that did not call in the order of the Band daemon
  pages,                   \* of the requests of a client: "null", "pinned", "freed", "twice"
  user_size,               \* the length that the data, or their request, have for a copy
  op,                      \* the copy of a client, and the length its call was checked for
  counter_op               \* of a Cache device: counter_op_read and counter_op_write

module    == <<mod, ipc, i, loads>>
param     == <<writes, type_measure, changed>>
policies  == <<policy, started, left>>
resources == <<data, region, class, cdev, device>>
clients   == <<cpc, early, disorder, pages, user_size, op, counter_op>>
vars      == <<drv, size_boot_mem_mb, module, param, dtype, policies, resources, clients>>

Minor == 0..(MB_MINOR - 1)
None  == [k \in Minor |-> 0]
Dma   == {"excl", "sh", "prio"}

\* The values type_measure may have; the trace driver has no parameter.
Types == CASE drv = "trace" -> {"cpu"}
           [] drv = "msg"   -> {"cpu", "excl", "sh"}
           [] drv = "band"  -> {"cpu", "excl", "sh", "prio"}
           [] drv = "cache" -> {"cpu", "sh"}

NoPages == [r \in {"local", "prio"} |-> "null"]
NoOp    == [dir |-> "none", dma |-> FALSE, off |-> 0, len |-> 0, arg |-> 0]
NoCount == [read |-> 0, write |-> 0]

Init ==
  /\ drv \in Drivers /\ size_boot_mem_mb \in BootSizes
  /\ mod = "unloaded" /\ ipc = "none" /\ i = 0 /\ loads = 0
  /\ writes = 0 /\ type_measure = "bad" /\ changed = FALSE /\ dtype = "bad"
  /\ policy = [t \in Dma |-> 0] /\ started = "none" /\ left = [t \in Dma |-> 0]
  /\ data = None /\ region = 0 /\ class = 0 /\ cdev = None /\ device = None
  /\ cpc = [c \in Minor |-> "idle"] /\ early = {} /\ disorder = {}
  /\ pages = [c \in Minor |-> NoPages] /\ user_size = [c \in Minor |-> 0]
  /\ op = [c \in Minor |-> NoOp]
  /\ counter_op = [c \in Minor |-> NoCount]

-----------------------------------------------------------------------------
(* The module loader, and the parameter in sysfs.                          *)

Idle == \A c \in Minor : cpc[c] = "idle"

insmod ==
  /\ mod = "unloaded" /\ loads + writes < MaxLoads
  /\ mod' = "coming" /\ loads' = loads + 1 /\ i' = 0
  /\ ipc' = CASE drv = "trace" -> "alloc" [] drv = "msg" -> "memory" [] OTHER -> "policy"
  /\ type_measure' \in Types \union (IF drv = "trace" THEN {} ELSE {"bad"})
  /\ UNCHANGED <<drv, size_boot_mem_mb, writes, changed, dtype, policies, resources, clients>>

\* Init has failed: the loader frees the module, whoever has a file open, and what
\* such a client does next is not followed ("dangling").
init_failed ==
  /\ mod = "coming" /\ ipc = "failed"
  /\ mod' = (IF Idle THEN "unloaded" ELSE "dangling") /\ ipc' = "none"
  /\ left' = [t \in Dma |-> IF t = started THEN left[t] + 1 ELSE left[t]] /\ started' = "none"
  /\ UNCHANGED <<drv, size_boot_mem_mb, i, loads, param, dtype, policy, resources, clients>>

\* pugs_fops and the cdevs name THIS_MODULE as their owner: an open file is a
\* reference to the module, and rmmod refuses while there is one.
Owner_Unset == FALSE
Owner == TRUE

rmmod ==
  /\ mod = "live" /\ (Owner => Idle)
  /\ mod' = "going" /\ ipc' = (IF drv = "trace" THEN "destroy" ELSE "stop")
  /\ UNCHANGED <<drv, size_boot_mem_mb, i, loads, param, dtype, policies, resources, clients>>

exited ==
  /\ mod = "going" /\ ipc = "failed"
  /\ mod' = "unloaded" /\ ipc' = "none" /\ started' = "none"
  /\ UNCHANGED <<drv, size_boot_mem_mb, i, loads, param, dtype, policy, left, resources, clients>>

\* type_measure is a writable parameter.
param_write ==
  /\ mod \in {"coming", "live"} /\ drv # "trace" /\ loads + writes < MaxLoads
  /\ \E t \in Types \ {type_measure} : type_measure' = t
  /\ changed' = TRUE /\ writes' = writes + 1
  /\ UNCHANGED <<drv, size_boot_mem_mb, module, dtype, policies, resources, clients>>

-----------------------------------------------------------------------------
(* Init.                                                                   *)

Coming(pc) == mod = "coming" /\ ipc = pc
Goto(pc)   == ipc' = pc /\ i' = 0 /\ UNCHANGED <<drv, size_boot_mem_mb, mod, loads, param, clients>>

Started == policy' = [policy EXCEPT ![type_measure] = @ + 1] /\ started' = type_measure

\* The switch over type_measure.
StartPolicy(next) ==
  /\ UNCHANGED <<dtype, left, resources>>
  /\ \/ type_measure = "cpu" /\ Goto(next) /\ UNCHANGED <<policy, started>>
     \/ type_measure \in Dma /\ Goto(next) /\ Started
     \/ type_measure = "bad" /\ Goto("failed") /\ UNCHANGED <<policy, started>>

\* start_policy_prio2 may have found channels, and have started its timer, and
\* still fewer than the driver wants.
ExclFails ==
  /\ type_measure = "excl" /\ Goto("failed") /\ UNCHANGED <<dtype, policies, resources>>
PrioFails ==
  /\ type_measure = "prio" /\ Goto("failed") /\ UNCHANGED <<dtype, left, resources>>
  /\ (Started \/ UNCHANGED <<policy, started>>)

\* The memory had at boot; Cache fills it with random bytes.
BootMemory(next) ==
  /\ Goto(IF size_boot_mem_mb = 0 THEN "failed" ELSE next)
  /\ UNCHANGED <<dtype, policies, resources>>

msg_check_memory  == drv = "msg" /\ Coming("memory") /\ BootMemory("policy")
msg_start_policy  == drv = "msg" /\ Coming("policy") /\ (StartPolicy("alloc") \/ ExclFails)
band_print_info   == drv = "band" /\ Coming("policy") /\ (StartPolicy("memory") \/ ExclFails \/ PrioFails)
band_check_memory == drv = "band" /\ Coming("memory") /\ BootMemory("alloc")
cache_print_info  == drv = "cache" /\ Coming("policy") /\ StartPolicy("memory")
cache_fill_memory == drv = "cache" /\ Coming("memory") /\ BootMemory("alloc")

Before(k) == [m \in Minor |-> IF m < k THEN 1 ELSE 0]
Minus(f, g) == [m \in Minor |-> f[m] - g[m]]

\* The data come cleared, the request and the counters in them too.  The data of
\* the devices before are freed when those of the next cannot be had.
init_all ==
  /\ Coming("alloc") /\ UNCHANGED <<policies, region, class, cdev, device>>
  /\ dtype' = IF i = 0 THEN type_measure ELSE dtype
  /\ \/ /\ i \in Minor /\ data' = [data EXCEPT ![i] = @ + 1]
        /\ pages' = [pages EXCEPT ![i] = NoPages] /\ counter_op' = [counter_op EXCEPT ![i] = NoCount]
        /\ user_size' = [user_size EXCEPT ![i] = 0] /\ disorder' = disorder \ {i}
        /\ ipc' = ipc /\ i' = i + 1
        /\ UNCHANGED <<drv, size_boot_mem_mb, mod, loads, param, cpc, early, op>>
     \/ i \in Minor /\ Goto("failed") /\ data' = Minus(data, Before(i))
     \/ i = MB_MINOR /\ Goto("region") /\ UNCHANGED data

init_all_trace == drv = "trace" /\ init_all
init_all_msg   == drv = "msg" /\ init_all
init_all_band  == drv = "band" /\ init_all
init_all_cache == drv = "cache" /\ init_all

\* The range of numbers and the class.
register_driver ==
  /\ UNCHANGED <<dtype, policies, data, cdev, device>>
  /\ \/ Coming("region") /\ Goto("class") /\ region' = region + 1 /\ UNCHANGED class
     \/ Coming("region") /\ Goto("clean") /\ UNCHANGED <<region, class>>
     \/ Coming("class") /\ Goto("cdev") /\ class' = class + 1 /\ UNCHANGED region
     \/ Coming("class") /\ Goto("del region") /\ UNCHANGED <<region, class>>

register_driver_trace == drv = "trace" /\ register_driver
register_driver_msg   == drv = "msg" /\ register_driver
register_driver_band  == drv = "band" /\ register_driver
register_driver_cache == drv = "cache" /\ register_driver

\* One turn of a loop over the devices.
Turn == ipc' = ipc /\ i' = i + 1 /\ UNCHANGED <<drv, size_boot_mem_mb, mod, loads, param, clients>>

driver_add_chardev_NoStep ==
  /\ Coming("cdev") /\ UNCHANGED <<dtype, policies, data, region, class, device>>
  /\ \/ i \in Minor /\ Turn /\ cdev' = [cdev EXCEPT ![i] = @ + 1]
     \/ i \in Minor /\ Goto("del class") /\ cdev' = Minus(cdev, Before(i + 1))
     \/ i = MB_MINOR /\ Goto("device") /\ UNCHANGED cdev
driver_add_chardev ==
  /\ Coming("cdev") /\ UNCHANGED <<dtype, policies, data, region, class, device>>
  /\ \/ i \in Minor /\ Turn /\ cdev' = [cdev EXCEPT ![i] = @ + 1]
     \/ i \in Minor /\ Goto("del class") /\ cdev' = Minus(cdev, Before(i))
     \/ i = MB_MINOR /\ Goto("device") /\ UNCHANGED cdev

add_chardev_trace == drv = "trace" /\ driver_add_chardev
add_chardev_msg   == drv = "msg" /\ driver_add_chardev
add_chardev_band  == drv = "band" /\ driver_add_chardev
add_chardev_cache == drv = "cache" /\ driver_add_chardev

\* After the last device the module is live.
device_create ==
  /\ Coming("device") /\ UNCHANGED <<dtype, policies, data, region, class, cdev>>
  /\ \/ i \in Minor /\ Turn /\ device' = [device EXCEPT ![i] = @ + 1]
     \/ i \in Minor /\ Goto("del cdev") /\ device' = Minus(device, Before(i))
     \/ /\ i = MB_MINOR /\ mod' = "live" /\ ipc' = "none" /\ i' = 0
        /\ UNCHANGED <<drv, size_boot_mem_mb, loads, param, device, clients>>

device_create_trace == drv = "trace" /\ device_create
device_create_msg   == drv = "msg" /\ device_create
device_create_band  == drv = "band" /\ device_create
device_create_cache == drv = "cache" /\ device_create

-----------------------------------------------------------------------------
(* Exit, and the later part of a failed init.                              *)

\* The policy that type_measure names now is stopped.
stop_policy_NoPrio ==
  /\ ipc = "stop" /\ Goto("destroy") /\ UNCHANGED <<dtype, started, left, resources>>
  /\ policy' = [t \in Dma |-> IF t = type_measure /\ t # "prio" THEN policy[t] - 1 ELSE policy[t]]
stop_policy ==
  /\ ipc = "stop" /\ Goto("destroy") /\ UNCHANGED <<dtype, started, left, resources>>
  /\ policy' = [t \in Dma |-> IF t = type_measure THEN policy[t] - 1 ELSE policy[t]]

device_destroy ==
  /\ ipc = "destroy" /\ Goto("del cdev") /\ UNCHANGED <<dtype, policies, data, region, class, cdev>>
  /\ device' = Minus(device, Before(MB_MINOR))

driver_del_chardev ==
  /\ ipc = "del cdev" /\ Goto("del class") /\ UNCHANGED <<dtype, policies, data, region, class, device>>
  /\ cdev' = Minus(cdev, Before(MB_MINOR))

class_destroy ==
  /\ ipc = "del class" /\ Goto("del region") /\ UNCHANGED <<dtype, policies, data, region, cdev, device>>
  /\ class' = class - 1

unregister_chrdev_region ==
  /\ ipc = "del region" /\ Goto("clean") /\ UNCHANGED <<dtype, policies, data, class, cdev, device>>
  /\ region' = region - 1

clean_data ==
  /\ ipc = "clean" /\ Goto("failed") /\ UNCHANGED <<dtype, policies, region, class, cdev, device>>
  /\ data' = Minus(data, Before(MB_MINOR))

TakeBack == \/ device_destroy \/ driver_del_chardev \/ class_destroy
            \/ unregister_chrdev_region \/ clean_data

exit_trace == drv = "trace" /\ TakeBack
exit_msg   == drv = "msg" /\ (stop_policy \/ TakeBack)
exit_band  == drv = "band" /\ (stop_policy \/ TakeBack)
exit_cache == drv = "cache" /\ (stop_policy \/ TakeBack)

-----------------------------------------------------------------------------
(* The clients.                                                            *)

Kernel     == <<drv, size_boot_mem_mb, module, param, dtype, policies, resources>>
At(c, pc)  == mod # "dangling" /\ cpc[c] = pc /\ UNCHANGED <<Kernel, early>>
To(c, pc)  == cpc' = [cpc EXCEPT ![c] = pc]
Quiet      == UNCHANGED <<disorder, pages, user_size, op, counter_op>>

driver_open(c) ==
  /\ cpc[c] = "idle" /\ mod \in {"coming", "live"} /\ cdev[c] > 0
  /\ To(c, "open") /\ early' = IF mod = "coming" THEN early \union {c} ELSE early
  /\ Quiet /\ UNCHANGED Kernel

Close(c, pc) == mod # "dangling" /\ cpc[c] = pc /\ To(c, "idle") /\ early' = early \ {c} /\ UNCHANGED Kernel
driver_close(c) == Close(c, "open") /\ Quiet

\* The Band daemon loads an open file, copies and unloads a loaded one, and closes
\* one that is open.  The handlers do not ask for that order: a client may make a
\* call that is meant for another place, and then counts as one in disorder.
Meant(c, pc) ==
  \/ cpc[c] = pc /\ UNCHANGED disorder
  \/ cpc[c] # pc /\ disorder' = disorder \union {c} /\ Cardinality(disorder') <= MaxDisorder

\* A client that is killed, or closes, with a loaded request: close does nothing
\* about it.
die(c) ==
  /\ Close(c, "loaded") /\ Meant(c, "open")
  /\ UNCHANGED <<pages, user_size, op, counter_op>>

\* dma_pin_user_pages after init_req_copy, and dma_unpin_user_pages, which leaves
\* the pointer to the array it frees.
Request(t) == IF t = "prio" THEN "prio" ELSE "local"
Pin(c, r)  == pages' = [pages EXCEPT ![c][r] = "pinned"]
Unpin(c, r) ==
  pages' = [pages EXCEPT ![c][r] =
              CASE @ = "null" -> "null" [] @ = "pinned" -> "freed" [] OTHER -> "twice"]

\* Trace: the regions are filled and then copied out.
trace_driver_read(c) == drv = "trace" /\ At(c, "open") /\ To(c, "reading") /\ Quiet
copy_out(c)          == At(c, "reading") /\ To(c, "open") /\ Quiet

\* Msg: a write makes the measures, a read copies the results out.  A write is of
\* any length that the memory has room for.  init_measure chooses the copy function
\* by type_measure, start_measure asks type_measure again whether to pin, and again
\* whether to unpin.
msg_driver_read(c)  == drv = "msg" /\ At(c, "open") /\ To(c, "reading") /\ Quiet
msg_driver_write(c) ==
  /\ drv = "msg" /\ At(c, "open") /\ To(c, "init measure")
  /\ \E len \in Lens : /\ len <= size_boot_mem_mb
                      /\ user_size' = [user_size EXCEPT ![c] = len]
                      /\ op' = [op EXCEPT ![c] = [NoOp EXCEPT !.arg = len]]
  /\ UNCHANGED <<disorder, pages, counter_op>>

init_measure(c) ==
  /\ At(c, "init measure") /\ To(c, "measure")
  /\ op' = [op EXCEPT ![c].dma = type_measure # "cpu"]
  /\ pages' = [pages EXCEPT ![c] = NoPages]
  /\ UNCHANGED <<disorder, user_size, counter_op>>

start_measure(c) ==
  /\ At(c, "measure") /\ UNCHANGED <<disorder, user_size, counter_op>>
  /\ \/ /\ To(c, "copying") /\ op' = [op EXCEPT ![c].len = user_size[c]]
        /\ IF type_measure = "cpu" THEN UNCHANGED pages ELSE Pin(c, "local")
     \/ type_measure # "cpu" /\ To(c, "open") /\ op' = [op EXCEPT ![c] = NoOp] /\ UNCHANGED pages

\* The copies, one to warm up and BUFF_MEASURE that are recorded.
ptr_copy(c) ==
  /\ drv = "msg" /\ At(c, "copying") /\ To(c, "measured")
  /\ op' = [op EXCEPT ![c] = NoOp] /\ UNCHANGED <<disorder, pages, user_size, counter_op>>

end_measure(c) ==
  /\ At(c, "measured") /\ To(c, "open") /\ UNCHANGED <<disorder, user_size, op, counter_op>>
  /\ IF type_measure # "cpu" THEN Unpin(c, "local") ELSE UNCHANGED pages

\* Band: MB_LOAD and MB_UNLOAD go by type_measure, read and write by the type of
\* the data.  The length that is loaded, and filled with random bytes, is compared
\* with nothing; it is that of later copies by the CPU, or of those with this
\* request.
AnyOrder(c) == \E pc \in {"open", "loaded"} : At(c, pc)
Sets(r) == dtype = "cpu" \/ (type_measure # "cpu" /\ r = Request(dtype))
MB_LOAD_SharedOnly(c) ==
  /\ drv = "band" /\ AnyOrder(c) /\ Meant(c, "open") /\ UNCHANGED <<op, counter_op>>
  /\ LET r == Request(type_measure) IN
     /\ \E len \in Lens : user_size' = IF Sets(r) THEN [user_size EXCEPT ![c] = len] ELSE user_size
     /\ \/ type_measure # "sh" /\ To(c, "loaded") /\ UNCHANGED pages
        \/ type_measure = "sh" /\ To(c, "loaded") /\ Pin(c, r)
        \/ type_measure = "sh" /\ To(c, "open") /\ pages' = [pages EXCEPT ![c][r] = "freed"]
MB_LOAD(c) ==
  /\ drv = "band" /\ AnyOrder(c) /\ Meant(c, "open") /\ UNCHANGED <<op, counter_op>>
  /\ LET r == Request(type_measure) IN
     /\ \E len \in Lens : user_size' = IF Sets(r) THEN [user_size EXCEPT ![c] = len] ELSE user_size
     /\ \/ type_measure = "cpu" /\ To(c, "loaded") /\ UNCHANGED pages
        \/ type_measure # "cpu" /\ To(c, "loaded") /\ Pin(c, r)
        \/ type_measure # "cpu" /\ To(c, "open") /\ pages' = [pages EXCEPT ![c][r] = "freed"]

MB_UNLOAD(c) ==
  /\ drv = "band" /\ AnyOrder(c) /\ To(c, "open") /\ Meant(c, "loaded")
  /\ IF type_measure # "cpu" THEN Unpin(c, Request(type_measure)) ELSE UNCHANGED pages
  /\ UNCHANGED <<user_size, op, counter_op>>

Share == size_boot_mem_mb \div MB_MINOR

\* What a read or a write compares with the share is its own length; what it copies
\* is the length that was loaded.
BandCopy(c) ==
  /\ drv = "band" /\ Meant(c, "loaded") /\ UNCHANGED <<pages, user_size, counter_op>>
  /\ \/ At(c, "open") /\ To(c, "copying")
     \/ At(c, "loaded") /\ To(c, "copying loaded")
  /\ \E len \in Lens :
       /\ len <= Share
       /\ op' = [op EXCEPT ![c] = [dir |-> "band", dma |-> dtype # "cpu", off |-> c * Share,
                                  len |-> user_size[c], arg |-> len]]

band_driver_write(c) == BandCopy(c)
band_driver_read(c)  == BandCopy(c)
band_copied(c) ==
  /\ drv = "band" /\ op' = [op EXCEPT ![c] = NoOp]
  /\ \/ At(c, "copying") /\ To(c, "open")
     \/ At(c, "copying loaded") /\ To(c, "loaded")
  /\ UNCHANGED <<disorder, pages, user_size, counter_op>>

\* Cache: a read or a write pins, copies at the next place in the share of the
\* device, and unpins.
mem_index_Running(c, d, len) == counter_op[c][d]
mem_index(c, d, len) == counter_op[c][d] % (Share \div len)

CacheCopy(c, d) ==
  /\ drv = "cache" /\ At(c, "open") /\ counter_op[c][d] < MaxOps
  /\ UNCHANGED <<disorder, user_size, counter_op>>
  /\ \/ /\ \E len \in Lens \ {0} :
             /\ len <= Share
             /\ op' = [op EXCEPT ![c] = [dir |-> d, dma |-> dtype # "cpu", len |-> len, arg |-> len,
                                        off |-> c * Share + mem_index(c, d, len) * len]]
        /\ IF dtype # "cpu" THEN Pin(c, "local") ELSE UNCHANGED pages
        /\ To(c, "copying")
     \/ /\ dtype # "cpu" /\ pages' = [pages EXCEPT ![c]["local"] = "freed"]
        /\ To(c, "open") /\ UNCHANGED op

cache_driver_write(c) == CacheCopy(c, "write")
cache_driver_read(c)  == CacheCopy(c, "read")

\* The length 0 passes the check and divides the size of the share: the error kills
\* the client before anything is pinned, and its file is closed.
divide_error(c) == drv = "cache" /\ 0 \in Lens /\ Close(c, "open") /\ Quiet

\* A copy that fails is not counted.
cache_copied(c) ==
  /\ drv = "cache" /\ At(c, "copying") /\ To(c, "open") /\ UNCHANGED <<disorder, user_size>>
  /\ IF dtype # "cpu" THEN Unpin(c, "local") ELSE UNCHANGED pages
  /\ op' = [op EXCEPT ![c] = NoOp]
  /\ \E done \in {0, 1} : counter_op' = [counter_op EXCEPT ![c][op[c].dir] = @ + done]

-----------------------------------------------------------------------------
Module ==
  \/ insmod \/ init_failed \/ rmmod \/ exited \/ param_write
  \/ msg_check_memory \/ msg_start_policy \/ band_print_info \/ band_check_memory
  \/ cache_print_info \/ cache_fill_memory
  \/ init_all_trace \/ init_all_msg \/ init_all_band \/ init_all_cache
  \/ register_driver_trace \/ register_driver_msg \/ register_driver_band \/ register_driver_cache
  \/ add_chardev_trace \/ add_chardev_msg \/ add_chardev_band \/ add_chardev_cache
  \/ device_create_trace \/ device_create_msg \/ device_create_band \/ device_create_cache
  \/ exit_trace \/ exit_msg \/ exit_band \/ exit_cache

Client(c) ==
  \/ driver_open(c) \/ driver_close(c) \/ die(c)
  \/ trace_driver_read(c) \/ copy_out(c)
  \/ msg_driver_read(c) \/ msg_driver_write(c) \/ init_measure(c) \/ ptr_copy(c) \/ start_measure(c) \/ end_measure(c)
  \/ MB_LOAD(c) \/ MB_UNLOAD(c) \/ band_driver_write(c) \/ band_driver_read(c) \/ band_copied(c)
  \/ cache_driver_write(c) \/ cache_driver_read(c) \/ cache_copied(c) \/ divide_error(c)

Next == Module \/ \E c \in Minor : Client(c)

Spec == Init /\ [][Next]_vars
-----------------------------------------------------------------------------
\* What a module has got it gives back once: a load that fails at any step, and a
\* load that succeeds and is undone, leave no data, numbers, class, cdev or device.
Balanced ==
  /\ {region, class} \subseteq {0, 1}
  /\ \A k \in Minor : {data[k], cdev[k], device[k]} \subseteq {0, 1}
  /\ mod \in {"unloaded", "dangling"} => data = None /\ region = 0 /\ class = 0 /\ cdev = None /\ device = None

\* A device that can be opened has its data, and so has an open file, while init
\* goes on opening devices, while exit destroys them and after it; only a file
\* that was opened before init was over may outlive them, when init fails.
FilesServed ==
  /\ \A k \in Minor : cdev[k] = 1 => data[k] = 1
  /\ \A c \in Minor \ early : cpc[c] # "idle" => data[c] = 1 /\ mod \in {"coming", "live"}

\* Exit stops the policy that init started, whichever it was, unless the parameter
\* was written meanwhile; what is left is of loads that failed after the start.
PolicyStopped == mod \in {"unloaded", "dangling"} /\ ~changed => policy = left

Copying(c)  == cpc[c] \in {"copying", "copying loaded"}
Pinned(c)   == \E r \in {"local", "prio"} : pages[c][r] = "pinned"

\* With the parameter left alone, and of a client that calls the Band driver in the
\* order of its daemon: a copy by DMA has its pages pinned, no array of pages is
\* freed twice, and a client that has closed its file has nothing pinned.
PinsFollowCopies ==
  ~changed => \A c \in Minor \ disorder :
    /\ Copying(c) /\ op[c].dma => pages[c][Request(IF drv = "band" THEN dtype ELSE type_measure)] = "pinned"
    /\ \A r \in {"local", "prio"} : pages[c][r] # "twice"
    /\ cpc[c] = "idle" => ~Pinned(c)

\* A copy of the length its call was checked for stays in the memory, and one of
\* Band or Cache in the share of its device, however many came before.  Msg and
\* Cache copy no other; nothing is claimed of a Band copy whose MB_LOAD gave another
\* length, which is copied unchecked.
CopyInside ==
  \A c \in Minor : Copying(c) =>
    /\ drv # "band" => op[c].len = op[c].arg
    /\ op[c].len = op[c].arg =>
         /\ op[c].off + op[c].len <= size_boot_mem_mb
         /\ drv # "msg" => op[c].off >= c * Share /\ op[c].off + op[c].len <= (c + 1) * Share
=============================================================================
