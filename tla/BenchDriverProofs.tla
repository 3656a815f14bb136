-------------------------- MODULE BenchDriverProofs --------------------------
(***************************************************************************)
(* Proofs about BenchDriver, for any number of devices, loads and clients: *)
(* the ladders of init and exit give back what they have got, open files   *)
(* are served, the policy that was started is stopped, copies stay in the  *)
(* share of their device, and pages are pinned while they are copied.      *)
(***************************************************************************)
EXTENDS BenchDriver, TLAPS

\* What is registered once and taken back is not registered.
LEMMA OneLess == 1 - 1 = 0
  OBVIOUS

Places == {"none", "policy", "memory", "alloc", "region", "class", "cdev", "device",
           "stop", "destroy", "del cdev", "del class", "del region", "clean", "failed"}

ClientPlaces == {"idle", "open", "loaded", "reading", "init measure", "measure", "copying",
                 "copying loaded", "measured"}

\* Where init and exit can be, and the loop index there.
PlaceInv ==
  /\ mod \in {"unloaded", "coming", "live", "going", "dangling"}
  /\ ipc \in Places /\ i \in 0..MB_MINOR
  /\ mod \in {"unloaded", "live", "dangling"} => ipc = "none"
  /\ mod = "coming" => ipc \notin {"none", "stop", "destroy"}
  /\ mod = "going" => ipc \in {"stop", "destroy", "del cdev", "del class", "del region", "clean", "failed"}

\* From which place on a resource is there: after its last step of init until its
\* step of exit.
HaveData   == mod = "live" \/ ipc \in {"region", "class", "cdev", "device", "stop", "destroy",
                                       "del cdev", "del class", "del region", "clean"}
HaveRegion == mod = "live" \/ ipc \in {"class", "cdev", "device", "stop", "destroy",
                                       "del cdev", "del class", "del region"}
HaveClass  == mod = "live" \/ ipc \in {"cdev", "device", "stop", "destroy", "del cdev", "del class"}
HaveCdev   == mod = "live" \/ ipc \in {"device", "stop", "destroy", "del cdev"}
HaveDevice == mod = "live" \/ ipc \in {"stop", "destroy"}

\* What is held at each place: a resource of the devices before i while their loop
\* runs, then of all.
HeldInv ==
  /\ data = IF ipc = "alloc" THEN Before(i) ELSE IF HaveData THEN Before(MB_MINOR) ELSE None
  /\ region = IF HaveRegion THEN 1 ELSE 0
  /\ class = IF HaveClass THEN 1 ELSE 0
  /\ cdev = IF ipc = "cdev" THEN Before(i) ELSE IF HaveCdev THEN Before(MB_MINOR) ELSE None
  /\ device = IF ipc = "device" THEN Before(i) ELSE IF HaveDevice THEN Before(MB_MINOR) ELSE None

\* Files are open while the module is there, and those of a module that is not
\* live were opened early.
FileInv ==
  /\ cpc \in [Minor -> ClientPlaces]
  /\ mod \in {"unloaded", "going"} => Idle
  /\ mod # "live" => \A c \in Minor : cpc[c] # "idle" => c \in early

\* Whether init has been through the start of the policy.
Chosen == \/ mod = "live" \/ ipc = "stop"
          \/ mod = "coming" /\ ipc \notin {"policy", "failed"} /\ ~(drv = "msg" /\ ipc = "memory")
\* Whether a policy that init started is still on.
Running == mod \in {"coming", "live"} \/ ipc = "stop"

\* Unless the parameter was written, the policies that are on are those that
\* failed loads left and the one of this load, which type_measure names.
PolicyInv ==
  /\ drv \in {"trace", "msg", "band", "cache"}
  /\ policy \in [Dma -> Int] /\ left \in [Dma -> Int]
  /\ mod \in {"unloaded", "dangling"} => started = "none"
  /\ ~changed =>
       /\ \A t \in Dma : policy[t] = left[t] + (IF Running /\ started = t THEN 1 ELSE 0)
       /\ mod # "unloaded" /\ drv = "trace" => type_measure = "cpu"
       /\ Chosen /\ type_measure \in Dma => started = type_measure
       /\ mod = "coming" /\ ipc \notin {"failed"} /\ ~Chosen => started = "none"
       /\ started \in Dma => started = type_measure

IInv == PlaceInv /\ HeldInv /\ FileInv /\ PolicyInv

-----------------------------------------------------------------------------
(* Counting the devices.                                                   *)

\* What a loop over the devices has got by its k-th turn.
LEMMA BeforeFacts ==
  /\ Before(0) = None
  /\ \A k \in Minor : [Before(k) EXCEPT ![k] = @ + 1] = Before(k + 1)
  /\ \A k \in 0..MB_MINOR : Minus(Before(k), Before(k)) = None
  /\ 0 \in Minor /\ 0 \in 0..MB_MINOR /\ MB_MINOR \in 0..MB_MINOR
  /\ \A k \in Minor : k \in 0..MB_MINOR /\ k + 1 \in 0..MB_MINOR
<1> USE DriverAssumption DEF Minor, None, Before, Minus
<1>1. Before(0) = None
  OBVIOUS
<1>2. ASSUME NEW k \in Minor PROVE [Before(k) EXCEPT ![k] = @ + 1] = Before(k + 1)
  <2> DEFINE f == [Before(k) EXCEPT ![k] = @ + 1]
  <2>1. f = [m \in Minor |-> f[m]]
    OBVIOUS
  <2>2. \A m \in Minor : f[m] = IF m < k + 1 THEN 1 ELSE 0
    OBVIOUS
  <2> HIDE DEF f
  <2>3. f = Before(k + 1)
    BY <2>1, <2>2
  <2> QED
    BY <2>3 DEF f
<1>3. ASSUME NEW k \in 0..MB_MINOR PROVE Minus(Before(k), Before(k)) = None
  OBVIOUS
<1>4. 0 \in Minor /\ 0 \in 0..MB_MINOR /\ MB_MINOR \in 0..MB_MINOR
  OBVIOUS
<1>5. \A k \in Minor : k \in 0..MB_MINOR /\ k + 1 \in 0..MB_MINOR
  OBVIOUS
<1> QED
  BY <1>1, <1>2, <1>3, <1>4, <1>5

\* The values of the counts.
LEMMA BeforeValues ==
  /\ \A k \in 0..MB_MINOR, m \in Minor : Before(k)[m] \in {0, 1}
  /\ \A m \in Minor : Before(MB_MINOR)[m] = 1 /\ None[m] = 0
  BY DriverAssumption DEF Minor, None, Before

\* The invariant holds when nothing has been loaded.
LEMMA InitHolds == Init => IInv
<1> SUFFICES ASSUME Init PROVE IInv
  OBVIOUS
<1>1. PlaceInv /\ HeldInv
  BY DriverAssumption DEF Init, PlaceInv, Places, HeldInv, HaveData, HaveRegion, HaveClass, HaveCdev, HaveDevice
<1>2. FileInv
  BY DEF Init, FileInv, Idle, ClientPlaces
<1>3. PolicyInv
  BY DriverAssumption DEF Init, PolicyInv, Chosen, Running, Dma
<1> QED
  BY <1>1, <1>2, <1>3 DEF IInv

-----------------------------------------------------------------------------
(* The module's steps, and what they leave alone.                          *)

ModuleStep ==
  \/ insmod \/ init_failed \/ rmmod \/ exited
  \/ msg_check_memory \/ msg_start_policy \/ band_print_info \/ band_check_memory
  \/ cache_print_info \/ cache_fill_memory
  \/ init_all \/ register_driver \/ driver_add_chardev \/ device_create
  \/ stop_policy \/ TakeBack

\* A step is one of the module, a write of the parameter, or one of a client.
LEMMA Steps ==
  ASSUME [Next]_vars
  PROVE  ModuleStep \/ param_write \/ (\E c \in Minor : Client(c)) \/ UNCHANGED vars
  BY DEF Next, Module, ModuleStep, init_all_trace, init_all_msg, init_all_band, init_all_cache,
         register_driver_trace, register_driver_msg, register_driver_band, register_driver_cache,
         add_chardev_trace, add_chardev_msg, add_chardev_band, add_chardev_cache,
         device_create_trace, device_create_msg, device_create_band, device_create_cache,
         exit_trace, exit_msg, exit_band, exit_cache

\* A client changes nothing of the module; it opens a file, closes one, or goes on
\* with one that is open.
LEMMA ClientSteps ==
  ASSUME NEW c \in Minor, Client(c)
  PROVE  /\ UNCHANGED Kernel
         /\ \/ driver_open(c)
            \/ cpc' = [cpc EXCEPT ![c] = "idle"] /\ early' = early \ {c}
            \/ \E s \in ClientPlaces : cpc[c] # "idle" /\ mod # "dangling" /\ cpc' = [cpc EXCEPT ![c] = s] /\ early' = early
<1>1. CASE driver_open(c)
  BY <1>1 DEF driver_open
<1>2. CASE driver_close(c) \/ die(c) \/ divide_error(c)
  BY <1>2 DEF driver_close, die, divide_error, Close, To
<1> USE DEF At, To, ClientPlaces
<1>3. CASE trace_driver_read(c)
  BY <1>3 DEF trace_driver_read
<1>4. CASE copy_out(c)
  BY <1>4 DEF copy_out
<1>5. CASE msg_driver_read(c)
  BY <1>5 DEF msg_driver_read
<1>6. CASE msg_driver_write(c)
  BY <1>6 DEF msg_driver_write
<1>7. CASE init_measure(c)
  BY <1>7 DEF init_measure
<1>8. CASE ptr_copy(c)
  BY <1>8 DEF ptr_copy
<1>9. CASE start_measure(c)
  BY <1>9 DEF start_measure
<1>10. CASE end_measure(c)
  BY <1>10 DEF end_measure
<1>11. CASE MB_LOAD(c)
  BY <1>11 DEF MB_LOAD, AnyOrder
<1>12. CASE MB_UNLOAD(c)
  BY <1>12 DEF MB_UNLOAD, AnyOrder
<1>13. CASE BandCopy(c)
  BY <1>13 DEF BandCopy
<1>14. CASE band_copied(c)
  BY <1>14 DEF band_copied
<1>15. CASE CacheCopy(c, "write") \/ CacheCopy(c, "read")
  BY <1>15 DEF CacheCopy
<1>16. CASE cache_copied(c)
  BY <1>16 DEF cache_copied
<1> QED
  BY <1>1, <1>2, <1>3, <1>4, <1>5, <1>6, <1>7, <1>8, <1>9, <1>10, <1>11, <1>12, <1>13, <1>14, <1>15, <1>16
  DEF Client, band_driver_write, band_driver_read, cache_driver_write, cache_driver_read
-----------------------------------------------------------------------------
(* Places and resources.                                                   *)

\* Steps that leave the place and the resources alone.
LEMMA HeldStutter ==
  ASSUME PlaceInv, HeldInv, UNCHANGED <<mod, ipc, i, data, region, class, cdev, device>>
  PROVE  PlaceInv' /\ HeldInv'
  BY DEF PlaceInv, HeldInv, HaveData, HaveRegion, HaveClass, HaveCdev, HaveDevice

\* Every step of init and exit gets or gives back exactly what its place says.
LEMMA HeldStep ==
  ASSUME PlaceInv, HeldInv, [Next]_vars
  PROVE  PlaceInv' /\ HeldInv'
<1> USE DEF PlaceInv, Places, HeldInv, HaveData, HaveRegion, HaveClass, HaveCdev, HaveDevice, resources
<1>0. Before(0) = None /\ 0 \in 0..MB_MINOR /\ 0 \in Minor
  BY BeforeFacts
<1>1. CASE insmod
  <2>1. ipc' \in {"alloc", "memory", "policy"} /\ mod' = "coming" /\ i' = 0 /\ ipc = "none" /\ mod = "unloaded"
    BY <1>1 DEF insmod
  <2> QED
    BY <1>0, <1>1, <2>1 DEF insmod
<1>2. CASE init_failed \/ exited
  BY <1>2 DEF init_failed, exited
<1>3. CASE rmmod
  BY <1>3 DEF rmmod
<1>4. CASE msg_check_memory \/ band_check_memory \/ cache_fill_memory
  BY <1>0, <1>4 DEF msg_check_memory, band_check_memory, cache_fill_memory, BootMemory, Coming, Goto
<1>5. CASE msg_start_policy \/ band_print_info \/ cache_print_info
  <2>1. /\ mod = "coming" /\ ipc = "policy" /\ mod' = mod /\ i' = 0
        /\ ipc' \in {"alloc", "memory", "failed"} /\ UNCHANGED resources
    BY <1>5 DEF msg_start_policy, band_print_info, cache_print_info, StartPolicy, ExclFails, PrioFails,
                Coming, Goto
  <2> QED
    BY <1>0, <2>1
<1>6. CASE init_all
  <2>0. mod = "coming" /\ ipc = "alloc" /\ mod' = mod /\ data = Before(i) /\ UNCHANGED <<region, class, cdev, device>>
    BY <1>6 DEF init_all, Coming, Goto
  <2>1. CASE i \in Minor /\ data' = [data EXCEPT ![i] = @ + 1] /\ ipc' = ipc /\ i' = i + 1
    <3>1. data' = Before(i') /\ i' \in 0..MB_MINOR
      BY <2>0, <2>1, BeforeFacts
    <3> QED
      BY <2>0, <2>1, <3>1
  <2>2. CASE i \in Minor /\ Goto("failed") /\ data' = Minus(data, Before(i))
    <3>1. data' = None
      BY <2>0, <2>2, BeforeFacts
    <3> QED
      BY <1>0, <2>0, <2>2, <3>1 DEF Goto
  <2>3. CASE i = MB_MINOR /\ Goto("region") /\ UNCHANGED data
    BY <1>0, <2>0, <2>3 DEF Goto
  <2> QED
    BY <1>6, <2>1, <2>2, <2>3 DEF init_all
<1>7. CASE register_driver
  <2>0. mod = "coming" /\ mod' = mod /\ i' = 0 /\ UNCHANGED <<data, cdev, device>>
    BY <1>7 DEF register_driver, Coming, Goto
  <2>1. CASE ipc = "region" /\ ipc' = "class" /\ region' = region + 1 /\ UNCHANGED class
    <3>1. region = 0 /\ region' = 1
      BY <2>0, <2>1
    <3> QED
      BY <1>0, <2>0, <2>1, <3>1
  <2>2. CASE ipc = "region" /\ ipc' = "clean" /\ UNCHANGED <<region, class>>
    BY <1>0, <2>0, <2>2
  <2>3. CASE ipc = "class" /\ ipc' = "cdev" /\ class' = class + 1 /\ UNCHANGED region
    <3>1. class = 0 /\ class' = 1
      BY <2>0, <2>3
    <3> QED
      BY <1>0, <2>0, <2>3, <3>1
  <2>4. CASE ipc = "class" /\ ipc' = "del region" /\ UNCHANGED <<region, class>>
    BY <1>0, <2>0, <2>4
  <2> QED
    BY <1>7, <2>1, <2>2, <2>3, <2>4 DEF register_driver, Coming, Goto
<1>8. CASE driver_add_chardev
  <2>0. mod = "coming" /\ ipc = "cdev" /\ mod' = mod /\ cdev = Before(i) /\ UNCHANGED <<data, region, class, device>>
    BY <1>8 DEF driver_add_chardev, Coming, Goto, Turn
  <2>1. CASE i \in Minor /\ Turn /\ cdev' = [cdev EXCEPT ![i] = @ + 1]
    <3>1. cdev' = Before(i') /\ i' \in 0..MB_MINOR
      BY <2>0, <2>1, BeforeFacts DEF Turn
    <3> QED
      BY <2>0, <2>1, <3>1 DEF Turn
  <2>2. CASE i \in Minor /\ Goto("del class") /\ cdev' = Minus(cdev, Before(i))
    <3>1. cdev' = None
      BY <2>0, <2>2, BeforeFacts
    <3> QED
      BY <1>0, <2>0, <2>2, <3>1 DEF Goto
  <2>3. CASE i = MB_MINOR /\ Goto("device") /\ UNCHANGED cdev
    BY <1>0, <2>0, <2>3 DEF Goto
  <2> QED
    BY <1>8, <2>1, <2>2, <2>3 DEF driver_add_chardev
<1>9. CASE device_create
  <2>0. mod = "coming" /\ ipc = "device" /\ device = Before(i) /\ UNCHANGED <<data, region, class, cdev>>
    BY <1>9 DEF device_create, Coming
  <2>1. CASE i \in Minor /\ Turn /\ device' = [device EXCEPT ![i] = @ + 1]
    <3>1. device' = Before(i') /\ i' \in 0..MB_MINOR
      BY <2>0, <2>1, BeforeFacts DEF Turn
    <3> QED
      BY <2>0, <2>1, <3>1 DEF Turn
  <2>2. CASE i \in Minor /\ Goto("del cdev") /\ device' = Minus(device, Before(i))
    <3>1. device' = None
      BY <2>0, <2>2, BeforeFacts
    <3> QED
      BY <1>0, <2>0, <2>2, <3>1 DEF Goto
  <2>3. CASE i = MB_MINOR /\ mod' = "live" /\ ipc' = "none" /\ i' = 0 /\ UNCHANGED device
    BY <1>0, <2>0, <2>3
  <2> QED
    BY <1>9, <2>1, <2>2, <2>3 DEF device_create
<1>10. CASE stop_policy
  <2>1. mod = "going"
    BY <1>10 DEF stop_policy
  <2> QED
    BY <1>0, <1>10, <2>1 DEF stop_policy, Goto
<1>11. CASE TakeBack
  <2> DEFINE Full == Before(MB_MINOR)
  <2>0. Minus(Full, Full) = None /\ mod \in {"coming", "going"} /\ mod' = mod /\ i' = 0
    BY <1>11, BeforeFacts DEF TakeBack, device_destroy, driver_del_chardev, class_destroy,
                              unregister_chrdev_region, clean_data, Goto
  <2>1. CASE device_destroy
    BY <1>0, <2>0, <2>1 DEF device_destroy, Goto
  <2>2. CASE driver_del_chardev
    BY <1>0, <2>0, <2>2 DEF driver_del_chardev, Goto
  <2>3. CASE class_destroy
    <3>1. ipc = "del class" /\ ipc' = "del region" /\ UNCHANGED <<data, region, cdev, device>> /\ class' = class - 1
      BY <2>3 DEF class_destroy, Goto
    <3>2. class = 1
      BY <3>1
    <3>3. class' = 0
      <4>1. class' = 1 - 1
        BY <3>1, <3>2, Zenon
      <4> QED
        BY <4>1, OneLess, Zenon
    <3> QED
      BY <1>0, <2>0, <3>1, <3>3
  <2>4. CASE unregister_chrdev_region
    <3>1. ipc = "del region" /\ ipc' = "clean" /\ UNCHANGED <<data, class, cdev, device>> /\ region' = region - 1
      BY <2>4 DEF unregister_chrdev_region, Goto
    <3>2. region = 1
      BY <3>1
    <3>3. region' = 0
      <4>1. region' = 1 - 1
        BY <3>1, <3>2, Zenon
      <4> QED
        BY <4>1, OneLess, Zenon
    <3> QED
      BY <1>0, <2>0, <3>1, <3>3
  <2>5. CASE clean_data
    BY <1>0, <2>0, <2>5 DEF clean_data, Goto
  <2> QED
    BY <1>11, <2>1, <2>2, <2>3, <2>4, <2>5 DEF TakeBack
<1>12. CASE param_write
  <2>1. UNCHANGED <<mod, ipc, i, data, region, class, cdev, device>>
    BY <1>12 DEF param_write, module
  <2> QED
    BY <2>1, HeldStutter
<1>13. ASSUME NEW c \in Minor, Client(c) PROVE PlaceInv' /\ HeldInv'
  <2>1. UNCHANGED Kernel
    BY <1>13, ClientSteps
  <2>2. UNCHANGED <<mod, ipc, i, data, region, class, cdev, device>>
    BY <2>1 DEF Kernel, module
  <2> QED
    BY <2>2, HeldStutter
<1>14. CASE UNCHANGED vars
  <2>1. UNCHANGED <<mod, ipc, i, data, region, class, cdev, device>>
    BY <1>14 DEF vars, module
  <2> QED
    BY <2>1, HeldStutter
<1> QED
  BY <1>1, <1>2, <1>3, <1>4, <1>5, <1>6, <1>7, <1>8, <1>9, <1>10, <1>11, <1>12, <1>13, <1>14, Steps
  DEF ModuleStep

-----------------------------------------------------------------------------
(* Files.                                                                  *)

\* Only clients touch the files.
LEMMA ModuleClients ==
  ASSUME ModuleStep \/ param_write
  PROVE  UNCHANGED <<cpc, early>>
<1> USE DEF clients
<1>1. CASE insmod \/ init_failed \/ rmmod \/ exited \/ param_write
  BY <1>1 DEF insmod, init_failed, rmmod, exited, param_write
<1>2. CASE msg_check_memory \/ msg_start_policy \/ band_print_info \/ band_check_memory
           \/ cache_print_info \/ cache_fill_memory
  BY <1>2 DEF msg_check_memory, msg_start_policy, band_print_info, band_check_memory, cache_print_info,
              cache_fill_memory, BootMemory, StartPolicy, ExclFails, PrioFails, Goto
<1>3. CASE init_all \/ register_driver
  BY <1>3 DEF init_all, register_driver, Goto
<1>4. CASE driver_add_chardev \/ device_create
  BY <1>4 DEF driver_add_chardev, device_create, Goto, Turn
<1>5. CASE stop_policy \/ TakeBack
  BY <1>5 DEF stop_policy, TakeBack, device_destroy, driver_del_chardev, class_destroy,
              unregister_chrdev_region, clean_data, Goto
<1> QED
  BY <1>1, <1>2, <1>3, <1>4, <1>5 DEF ModuleStep

\* How the state of the module changes.
LEMMA ModuleState ==
  ASSUME PlaceInv, ModuleStep \/ param_write
  PROVE  \/ mod' = mod
         \/ mod = "unloaded" /\ mod' = "coming"
         \/ mod = "coming" /\ mod' = (IF Idle THEN "unloaded" ELSE "dangling")
         \/ mod = "live" /\ mod' = "going" /\ Idle
         \/ mod = "going" /\ mod' = "unloaded"
         \/ mod = "coming" /\ mod' = "live"
<1>1. CASE insmod \/ init_failed \/ rmmod \/ exited \/ param_write
  BY <1>1 DEF insmod, init_failed, rmmod, Owner, exited, param_write, module
<1>2. CASE msg_check_memory \/ msg_start_policy \/ band_print_info \/ band_check_memory
           \/ cache_print_info \/ cache_fill_memory
  BY <1>2 DEF msg_check_memory, msg_start_policy, band_print_info, band_check_memory, cache_print_info,
              cache_fill_memory, BootMemory, StartPolicy, ExclFails, PrioFails, Goto
<1>3. CASE init_all \/ register_driver
  BY <1>3 DEF init_all, register_driver, Goto
<1>4. CASE driver_add_chardev \/ device_create
  BY <1>4 DEF driver_add_chardev, device_create, Goto, Turn, Coming
<1>5. CASE stop_policy \/ TakeBack
  BY <1>5 DEF stop_policy, TakeBack, device_destroy, driver_del_chardev, class_destroy,
              unregister_chrdev_region, clean_data, Goto
<1> QED
  BY <1>1, <1>2, <1>3, <1>4, <1>5 DEF ModuleStep

\* A module with open files is there, or was freed under files opened early.
LEMMA FileStep ==
  ASSUME PlaceInv, FileInv, [Next]_vars
  PROVE  FileInv'
<1> USE DEF FileInv, Idle
<1>1. CASE ModuleStep \/ param_write
  BY <1>1, ModuleClients, ModuleState
<1>2. ASSUME NEW c \in Minor, Client(c) PROVE FileInv'
  <2>1. mod' = mod
    BY <1>2, ClientSteps DEF Kernel, module
  <2>2. CASE driver_open(c)
    <3>1. cpc' = [cpc EXCEPT ![c] = "open"] /\ mod \in {"coming", "live"}
      BY <2>2 DEF driver_open, To
    <3>2. mod = "coming" => early' = early \union {c}
      BY <2>2 DEF driver_open
    <3> QED
      BY <2>1, <3>1, <3>2 DEF ClientPlaces
  <2>3. CASE cpc' = [cpc EXCEPT ![c] = "idle"] /\ early' = early \ {c}
    BY <2>1, <2>3 DEF ClientPlaces
  <2>4. ASSUME NEW s \in ClientPlaces, cpc[c] # "idle", cpc' = [cpc EXCEPT ![c] = s], early' = early
        PROVE  FileInv'
    BY <2>1, <2>4
  <2> QED
    BY <1>2, <2>2, <2>3, <2>4, ClientSteps
<1>3. CASE UNCHANGED vars
  BY <1>3 DEF vars, module, clients
<1> QED
  BY <1>1, <1>2, <1>3, Steps

-----------------------------------------------------------------------------
(* Policies.                                                               *)

\* Steps that leave the policies alone and move on among places that agree on
\* Chosen and Running, or to the end of a failed init.
LEMMA PolicyStutter ==
  ASSUME PolicyInv, UNCHANGED <<drv, type_measure, changed, policy, started, left>>,
         mod' \in {"unloaded", "dangling"} => mod \in {"unloaded", "dangling"},
         mod' # "unloaded" => mod # "unloaded",
         Running' <=> Running, Chosen' => Chosen,
         mod' = "coming" /\ ipc' # "failed" => mod = "coming" /\ ipc # "failed" /\ (Chosen' <=> Chosen)
  PROVE  PolicyInv'
  BY DEF PolicyInv

\* Exit stops the policy that init started.
LEMMA PolicyStep ==
  ASSUME PlaceInv, PolicyInv, [Next]_vars
  PROVE  PolicyInv'
<1> USE DEF policies, param, Dma
<1>1. CASE insmod
  <2>1. /\ mod = "unloaded" /\ mod' = "coming" /\ ipc' \in {"alloc", "memory", "policy"}
        /\ UNCHANGED <<drv, changed, policy, started, left>>
    BY <1>1 DEF insmod
  <2>2. drv = "trace" => type_measure' = "cpu" /\ ipc' = "alloc"
    BY <1>1 DEF insmod, Types
  <2>3. drv = "msg" => ipc' = "memory"
    BY <1>1 DEF insmod
  <2>4. drv \in {"band", "cache"} => ipc' = "policy"
    BY <1>1 DEF insmod
  <2>5. started = "none" /\ ~Running /\ Running'
    BY <2>1 DEF PolicyInv, Running, PlaceInv
  <2>6. Chosen' => drv = "trace"
    BY <2>1, <2>3, <2>4 DEF Chosen, PolicyInv
  <2> QED
    BY <2>1, <2>2, <2>5, <2>6 DEF PolicyInv
<1>2. CASE init_failed
  <2>1. mod = "coming" /\ mod' \in {"unloaded", "dangling"} /\ ipc' = "none" /\ started' = "none"
        /\ UNCHANGED <<drv, changed, type_measure, policy>>
    BY <1>2 DEF init_failed
  <2>2. left' = [t \in Dma |-> IF t = started THEN left[t] + 1 ELSE left[t]]
    BY <1>2 DEF init_failed
  <2>3. Running /\ ~Running' /\ ~Chosen'
    BY <2>1 DEF Running, Chosen
  <2>4. left' \in [Dma -> Int] /\ \A t \in Dma : left'[t] = left[t] + (IF started = t THEN 1 ELSE 0)
    BY <2>2 DEF PolicyInv
  <2>5. ~changed => \A t \in Dma : policy[t] = left'[t]
    BY <2>3, <2>4 DEF PolicyInv
  <2>6. ~changed /\ mod' # "unloaded" /\ drv = "trace" => type_measure = "cpu"
    BY <2>1 DEF PolicyInv
  <2> QED
    BY <2>1, <2>3, <2>4, <2>5, <2>6 DEF PolicyInv
<1>3. CASE rmmod
  <2>1. mod = "live" /\ mod' = "going" /\ UNCHANGED <<drv, type_measure, changed, policy, started, left>>
    BY <1>3 DEF rmmod
  <2>2. CASE drv = "trace"
    <3>1. ipc' = "destroy" /\ ~Chosen' /\ ~Running'
      BY <1>3, <2>1, <2>2 DEF rmmod, Chosen, Running
    <3>2. ~changed => started \notin Dma
      BY <2>1, <2>2 DEF PolicyInv
    <3> QED
      BY <2>1, <2>2, <3>1, <3>2 DEF PolicyInv
  <2>3. CASE drv # "trace"
    <3>1. ipc' = "stop" /\ Chosen' /\ Running' /\ Chosen /\ Running
      BY <1>3, <2>1, <2>3 DEF rmmod, Chosen, Running
    <3> QED
      BY <2>1, <3>1 DEF PolicyInv
  <2> QED
    BY <2>2, <2>3
<1>4. CASE exited
  <2>1. mod = "going" /\ ipc = "failed" /\ mod' = "unloaded" /\ ipc' = "none" /\ started' = "none"
        /\ UNCHANGED <<drv, type_measure, changed, policy, left>>
    BY <1>4 DEF exited
  <2>2. ~Running /\ ~Running' /\ ~Chosen'
    BY <2>1 DEF Running, Chosen
  <2> QED
    BY <2>1, <2>2 DEF PolicyInv
<1>5. CASE msg_check_memory \/ band_check_memory \/ cache_fill_memory
  <2>1. /\ mod = "coming" /\ mod' = mod /\ ipc = "memory" /\ ipc' \in {"failed", "policy", "alloc"}
        /\ UNCHANGED <<drv, type_measure, changed, policy, started, left>>
    BY <1>5 DEF msg_check_memory, band_check_memory, cache_fill_memory, BootMemory, Coming, Goto
  <2>2. drv = "msg" <=> ipc' = "policy" \/ (ipc' = "failed" /\ drv = "msg")
    BY <1>5 DEF msg_check_memory, band_check_memory, cache_fill_memory, BootMemory, Goto
  <2>3. (Running' <=> Running) /\ (Chosen' => Chosen) /\ (ipc' # "failed" => (Chosen' <=> Chosen))
    BY <2>1, <2>2 DEF Running, Chosen
  <2> QED
    BY <2>1, <2>3, PolicyStutter
<1>6. CASE msg_start_policy \/ band_print_info \/ cache_print_info
  <2>1. /\ mod = "coming" /\ mod' = mod /\ ipc = "policy"
        /\ UNCHANGED <<drv, type_measure, changed, left>>
    BY <1>6 DEF msg_start_policy, band_print_info, cache_print_info, StartPolicy, ExclFails, PrioFails,
                Coming, Goto
  <2>2. Running /\ Running' /\ ~Chosen
    BY <2>1 DEF Running, Chosen
  <2>3. ~changed => started = "none"
    BY <2>1, <2>2 DEF PolicyInv
  <2>4. CASE UNCHANGED <<policy, started>> /\ (ipc' = "failed" \/ type_measure = "cpu")
    <3>1. ~(ipc' = "failed") \/ ~Chosen'
      BY <2>1 DEF Chosen
    <3> QED
      BY <2>1, <2>2, <2>3, <2>4, <3>1 DEF PolicyInv
  <2>5. CASE type_measure \in Dma /\ Started
    <3>1. policy' = [policy EXCEPT ![type_measure] = @ + 1] /\ started' = type_measure
      BY <2>5 DEF Started
    <3>2. policy' \in [Dma -> Int]
      BY <2>5, <3>1 DEF PolicyInv
    <3>3. ~changed => \A t \in Dma : policy'[t] = left[t] + (IF started' = t THEN 1 ELSE 0)
      BY <2>2, <2>3, <2>5, <3>1 DEF PolicyInv
    <3>4. drv # "trace"
      BY <1>6 DEF msg_start_policy, band_print_info, cache_print_info
    <3>5. ipc' # "failed" => Chosen'
      BY <1>6, <2>1 DEF msg_start_policy, band_print_info, cache_print_info, StartPolicy, ExclFails,
                        PrioFails, Goto, Chosen
    <3> QED
      BY <2>1, <2>2, <3>1, <3>2, <3>3, <3>4, <3>5 DEF PolicyInv
  <2> QED
    BY <1>6, <2>4, <2>5 DEF msg_start_policy, band_print_info, cache_print_info, StartPolicy, ExclFails,
                            PrioFails, Goto
<1>7. CASE init_all \/ register_driver \/ driver_add_chardev \/ device_create
  <2>1. /\ mod = "coming" /\ ipc \in {"alloc", "region", "class", "cdev", "device"}
        /\ UNCHANGED <<drv, type_measure, changed, policy, started, left>>
    BY <1>7 DEF init_all, register_driver, driver_add_chardev, device_create, Coming, Goto, Turn
  <2>2. \/ mod' = "live"
        \/ /\ mod' = "coming"
           /\ ipc' \in {"alloc", "region", "class", "cdev", "device", "del cdev", "del class", "del region",
                        "clean", "failed"}
    BY <1>7 DEF init_all, register_driver, driver_add_chardev, device_create, Coming, Goto, Turn
  <2>3. Running /\ Running' /\ Chosen /\ (ipc' # "failed" \/ mod' = "live" => Chosen')
    BY <2>1, <2>2 DEF Running, Chosen
  <2> QED
    BY <2>1, <2>2, <2>3, PolicyStutter
<1>8. CASE stop_policy
  <2>1. /\ mod = "going" /\ ipc = "stop" /\ mod' = mod /\ ipc' = "destroy"
        /\ UNCHANGED <<drv, type_measure, changed, started, left>>
    BY <1>8 DEF stop_policy, Goto, PlaceInv
  <2>2. policy' = [t \in Dma |-> IF t = type_measure THEN policy[t] - 1 ELSE policy[t]]
    BY <1>8 DEF stop_policy
  <2>3. Chosen /\ Running /\ ~Chosen' /\ ~Running'
    BY <2>1 DEF Chosen, Running
  <2>4. policy' \in [Dma -> Int]
    BY <2>2 DEF PolicyInv
  <2>5. ~changed => \A t \in Dma : policy'[t] = left[t]
    <3> SUFFICES ASSUME ~changed, NEW t \in Dma PROVE policy'[t] = left[t]
      OBVIOUS
    <3>1. t = type_measure <=> t = started
      BY <2>3 DEF PolicyInv
    <3>2. policy[t] \in Int /\ left[t] \in Int /\ policy[t] = left[t] + (IF started = t THEN 1 ELSE 0)
      BY <2>3 DEF PolicyInv
    <3> QED
      BY <2>2, <3>1, <3>2
  <2> QED
    BY <2>1, <2>3, <2>4, <2>5 DEF PolicyInv
<1>9. CASE TakeBack
  <2>1. /\ ipc \in {"destroy", "del cdev", "del class", "del region", "clean"} /\ mod' = mod
        /\ ipc' \in {"del cdev", "del class", "del region", "clean", "failed"}
        /\ UNCHANGED <<drv, type_measure, changed, policy, started, left>>
    BY <1>9 DEF TakeBack, device_destroy, driver_del_chardev, class_destroy, unregister_chrdev_region,
                clean_data, Goto
  <2>2. mod \in {"coming", "going"} /\ (mod = "coming" => ipc # "destroy")
    BY <2>1 DEF PlaceInv
  <2>3. (Running' <=> Running) /\ (Chosen' => Chosen) /\ (ipc' # "failed" => (Chosen' <=> Chosen))
    BY <2>1, <2>2 DEF Running, Chosen
  <2> QED
    BY <2>1, <2>2, <2>3, PolicyStutter
<1>10. CASE param_write
  <2>1. changed' = TRUE /\ UNCHANGED <<drv, mod, policy, started, left>>
    BY <1>10 DEF param_write, module
  <2> QED
    BY <2>1 DEF PolicyInv
<1>11. ASSUME UNCHANGED <<drv, module, param, policies>> PROVE PolicyInv'
  <2>1. UNCHANGED <<drv, mod, ipc, type_measure, changed, policy, started, left>>
    BY <1>11 DEF module
  <2> QED
    BY <2>1 DEF PolicyInv, Running, Chosen
<1>12. ASSUME NEW c \in Minor, Client(c) PROVE UNCHANGED <<drv, module, param, policies>>
  <2>1. UNCHANGED Kernel
    BY <1>12, ClientSteps
  <2> QED
    BY <2>1 DEF Kernel
<1>13. UNCHANGED vars => UNCHANGED <<drv, module, param, policies>>
  BY DEF vars
<1> QED
  BY <1>1, <1>2, <1>3, <1>4, <1>5, <1>6, <1>7, <1>8, <1>9, <1>10, <1>11, <1>12, <1>13, Steps
  DEF ModuleStep

-----------------------------------------------------------------------------
\* The invariant of the module, its files and its policy.
THEOREM Invariant == Spec => []IInv
<1>1. IInv /\ [Next]_vars => IInv'
  BY HeldStep, FileStep, PolicyStep DEF IInv
<1> QED
  BY <1>1, InitHolds, PTL DEF Spec

\* Wherever init fails, and whenever exit runs, every resource that was had is given
\* back, and none twice.
THEOREM GivesBack == Spec => []Balanced
<1>1. IInv => Balanced
  <2> SUFFICES ASSUME IInv PROVE Balanced
    OBVIOUS
  <2> USE DEF IInv
  <2>1. {region, class} \subseteq {0, 1}
    BY DEF HeldInv
  <2>2. ASSUME NEW k \in Minor PROVE {data[k], cdev[k], device[k]} \subseteq {0, 1}
    <3>1. i \in 0..MB_MINOR /\ MB_MINOR \in 0..MB_MINOR
      BY BeforeFacts DEF PlaceInv
    <3>2. Before(i)[k] \in {0, 1} /\ Before(MB_MINOR)[k] \in {0, 1} /\ None[k] \in {0, 1}
      BY <3>1, BeforeValues
    <3> QED
      BY <3>2 DEF HeldInv
  <2>3. mod \in {"unloaded", "dangling"} =>
          data = None /\ region = 0 /\ class = 0 /\ cdev = None /\ device = None
    BY DEF PlaceInv, HeldInv, HaveData, HaveRegion, HaveClass, HaveCdev, HaveDevice
  <2> QED
    BY <2>1, <2>2, <2>3 DEF Balanced
<1> QED
  BY <1>1, Invariant, PTL

\* No file is served without its data, but for one that was opened while init was
\* going on and outlives its failure.
THEOREM Serves == Spec => []FilesServed
<1>1. IInv => FilesServed
  <2> SUFFICES ASSUME IInv PROVE FilesServed
    OBVIOUS
  <2> USE DEF IInv
  <2>1. ASSUME NEW k \in Minor, cdev[k] = 1 PROVE data[k] = 1
    <3>1. ipc = "cdev" \/ HaveCdev
      BY <2>1, BeforeValues DEF HeldInv
    <3>2. data = Before(MB_MINOR)
      BY <3>1 DEF HeldInv, HaveCdev, HaveData, PlaceInv
    <3> QED
      BY <3>2, BeforeValues
  <2>2. ASSUME NEW c \in Minor \ early, cpc[c] # "idle" PROVE data[c] = 1 /\ mod \in {"coming", "live"}
    <3>1. mod = "live"
      BY <2>2 DEF FileInv
    <3>2. data = Before(MB_MINOR)
      BY <3>1 DEF HeldInv, HaveData, PlaceInv
    <3> QED
      BY <2>2, <3>1, <3>2, BeforeValues
  <2> QED
    BY <2>1, <2>2 DEF FilesServed
<1> QED
  BY <1>1, Invariant, PTL

\* Unless the parameter was written, a module that is gone has left no policy on but
\* those of loads that failed.
THEOREM Stops == Spec => []PolicyStopped
<1>1. IInv => PolicyStopped
  <2> SUFFICES ASSUME IInv, mod \in {"unloaded", "dangling"}, ~changed PROVE policy = left
    BY DEF PolicyStopped
  <2>1. ipc = "none" /\ ~Running
    BY DEF IInv, PlaceInv, Running
  <2>2. /\ policy \in [Dma -> Int] /\ left \in [Dma -> Int]
        /\ \A t \in Dma : policy[t] = left[t]
    BY <2>1 DEF IInv, PolicyInv
  <2> QED
    BY <2>2
<1> QED
  BY <1>1, Invariant, PTL

-----------------------------------------------------------------------------
(* Copies.                                                                 *)

Ops    == [dir : {"none", "band", "read", "write"}, dma : BOOLEAN, off : Nat, len : Nat, arg : Nat]
Counts == [{"read", "write"} -> Nat]

\* Which driver the place p of client c belongs to, where its copy o is, and what
\* the length n of its data has to do with it.
OpAt(c, p, o, n) ==
  /\ p \in {"init measure", "measure", "measured"} => drv = "msg"
  /\ p \in {"loaded", "copying loaded"} => drv = "band"
  /\ p = "copying" => drv \in {"msg", "band", "cache"}
  /\ p = "copying" /\ drv = "cache" => o.dir \in {"read", "write"} /\ o.len = o.arg
  /\ p \in {"init measure", "measure"} => o.off = 0 /\ o.arg = n /\ n <= size_boot_mem_mb
  /\ p = "copying" /\ drv = "msg" => o.off = 0 /\ o.len = o.arg /\ o.len <= size_boot_mem_mb
  /\ p \in {"copying", "copying loaded"} /\ drv # "msg" /\ o.len = o.arg =>
       o.off >= c * Share /\ o.off + o.len <= (c + 1) * Share

OpInv ==
  /\ size_boot_mem_mb \in Nat /\ counter_op \in [Minor -> Counts] /\ op \in [Minor -> Ops]
  /\ user_size \in [Minor -> Nat]
  /\ \A c \in Minor : OpAt(c, cpc[c], op[c], user_size[c])

\* A length that fits a share fits it wherever the share begins.
LEMMA Fitting == \A a, b, l \in Nat : l <= b => a >= a /\ a + l <= a + b
  OBVIOUS

\* The share of a device, and the place of a piece in it.
LEMMA ShareFacts ==
  ASSUME size_boot_mem_mb \in Nat
  PROVE  /\ Share \in Nat /\ MB_MINOR * Share <= size_boot_mem_mb
         /\ \A c \in Minor : c \in Nat /\ c * Share \in Nat /\ (c + 1) * Share = c * Share + Share
         /\ \A c \in Minor : (c + 1) * Share <= size_boot_mem_mb
  <1>1. MB_MINOR \in Nat \ {0}
    BY DriverAssumption
  <1>2. Share \in Nat /\ MB_MINOR * Share <= size_boot_mem_mb
    BY <1>1 DEF Share
  <1> HIDE DEF Share
  <1>3. ASSUME NEW c \in Minor
        PROVE  /\ c \in Nat /\ c * Share \in Nat /\ (c + 1) * Share = c * Share + Share
               /\ (c + 1) * Share <= size_boot_mem_mb
    <2>1. c \in Nat /\ c + 1 <= MB_MINOR
      BY <1>1 DEF Minor
    <2>2. c * Share \in Nat /\ (c + 1) * Share = c * Share + Share /\ (c + 1) * Share \in Nat
      BY <1>2, <2>1
    <2>3. (c + 1) * Share <= MB_MINOR * Share /\ MB_MINOR * Share \in Nat
      BY <1>1, <1>2, <2>1
    <2> QED BY <1>2, <2>1, <2>2, <2>3
  <1> QED BY <1>2, <1>3

\* Whatever was counted, the place of a copy in the share leaves room for it.
LEMMA IndexInside ==
  ASSUME NEW n \in Nat, NEW share \in Nat, NEW len \in Nat \ {0}, len <= share
  PROVE  LET k == n % (share \div len) IN k * len \in Nat /\ k * len + len <= share
  <1> DEFINE q == share \div len
             k == n % q
  <1>1. q \in Nat /\ q * len <= share /\ q # 0
    OBVIOUS
  <1> HIDE DEF q
  <1>2. k \in Nat /\ k < q
    BY <1>1
  <1> HIDE DEF k
  <1>3. (k + 1) * len <= q * len /\ (k + 1) * len = k * len + len /\ k * len \in Nat /\ q * len \in Nat
    BY <1>1, <1>2
  <1>4. k * len \in Nat /\ k * len + len <= share
    BY <1>1, <1>3
  <1> QED BY <1>4 DEF k, q

\* A step of one client.
LEMMA OpFrame ==
  ASSUME OpInv, FileInv, UNCHANGED Kernel, NEW c \in Minor, NEW s, NEW o \in Ops, NEW n \in Nat,
         cpc' = [cpc EXCEPT ![c] = s], op' = [op EXCEPT ![c] = o], user_size' = [user_size EXCEPT ![c] = n],
         counter_op' \in [Minor -> Counts], OpAt(c, s, o, n)
  PROVE  OpInv'
  <1>1. UNCHANGED <<drv, size_boot_mem_mb>>
    BY DEF Kernel
  <1>2. Share' = Share
    BY <1>1 DEF Share
  <1>3. op' \in [Minor -> Ops] /\ user_size' \in [Minor -> Nat]
    BY DEF OpInv
  <1>4. \A d \in Minor : OpAt(d, cpc'[d], op'[d], user_size'[d])
    BY DEF OpInv, FileInv
  <1>5. \A d \in Minor : OpAt(d, cpc[d], op[d], user_size[d])'
    BY <1>1, <1>2, <1>4 DEF OpAt
  <1> QED BY <1>1, <1>3, <1>5 DEF OpInv

\* The same, when the length stays as it is, and when the copy does too.
LEMMA LengthStays ==
  ASSUME OpInv, FileInv, UNCHANGED Kernel, NEW c \in Minor, NEW s, NEW o \in Ops,
         cpc' = [cpc EXCEPT ![c] = s], op' = [op EXCEPT ![c] = o], UNCHANGED user_size,
         counter_op' \in [Minor -> Counts], OpAt(c, s, o, user_size[c])
  PROVE  OpInv'
  <1>1. user_size[c] \in Nat /\ user_size' = [user_size EXCEPT ![c] = user_size[c]]
    BY DEF OpInv
  <1> QED BY <1>1, OpFrame

LEMMA OpStays ==
  ASSUME OpInv, FileInv, UNCHANGED Kernel, NEW c \in Minor, NEW s,
         cpc' = [cpc EXCEPT ![c] = s], UNCHANGED <<op, user_size, counter_op>>, OpAt(c, s, op[c], user_size[c])
  PROVE  OpInv'
  <1>1. op[c] \in Ops /\ op' = [op EXCEPT ![c] = op[c]] /\ counter_op' \in [Minor -> Counts]
    BY DEF OpInv
  <1> QED BY <1>1, LengthStays

\* A copy that is over, and none.
LEMMA NoOpAt ==
  /\ NoOp \in Ops
  /\ \A c, p : p \notin {"init measure", "measure", "measured", "loaded", "copying loaded", "copying"}
       => \A o, n : OpAt(c, p, o, n)
  BY DEF NoOp, Ops, OpAt

\* Every step of a client keeps its copy where it belongs.
LEMMA OpClient ==
  ASSUME OpInv, FileInv, drv \in {"trace", "msg", "band", "cache"}, NEW c \in Minor, Client(c)
  PROVE  OpInv'
  <1>1. UNCHANGED Kernel
    BY ClientSteps
  <1>2. /\ OpAt(c, cpc[c], op[c], user_size[c]) /\ op[c] \in Ops /\ user_size[c] \in Nat
        /\ size_boot_mem_mb \in Nat /\ op \in [Minor -> Ops] /\ counter_op \in [Minor -> Counts]
    BY DEF OpInv
  <1>3. ASSUME NEW s, cpc' = [cpc EXCEPT ![c] = s], UNCHANGED <<op, user_size, counter_op>>,
               s \in {"idle", "open", "reading"} \/ OpAt(c, s, op[c], user_size[c])
        PROVE  OpInv'
    BY <1>1, <1>3, OpStays, NoOpAt
  <1>4. CASE \/ driver_open(c) \/ driver_close(c) \/ die(c) \/ divide_error(c) \/ trace_driver_read(c)
             \/ copy_out(c) \/ msg_driver_read(c) \/ end_measure(c) \/ MB_UNLOAD(c)
    BY <1>3, <1>4 DEF driver_open, driver_close, die, divide_error, Close, trace_driver_read, copy_out,
                      msg_driver_read, end_measure, MB_UNLOAD, To, At, Quiet
  <1>5. CASE msg_driver_write(c)
    <2>1. PICK len \in Lens : /\ len <= size_boot_mem_mb
                              /\ user_size' = [user_size EXCEPT ![c] = len]
                              /\ op' = [op EXCEPT ![c] = [NoOp EXCEPT !.arg = len]]
      BY <1>5 DEF msg_driver_write
    <2> DEFINE o == [NoOp EXCEPT !.arg = len]
    <2>2. o \in Ops /\ o.off = 0 /\ o.arg = len /\ len \in Nat
      BY DriverAssumption DEF NoOp, Ops
    <2>3. drv = "msg" /\ cpc' = [cpc EXCEPT ![c] = "init measure"] /\ op' = [op EXCEPT ![c] = o]
          /\ counter_op' = counter_op
      BY <1>5, <2>1 DEF msg_driver_write, To
    <2> HIDE DEF o
    <2>4. OpAt(c, "init measure", o, len)
      BY <2>1, <2>2, <2>3 DEF OpAt
    <2> QED BY <1>1, <1>2, <2>1, <2>2, <2>3, <2>4, OpFrame
  <1>6. CASE MB_LOAD(c)
    <2>1. PICK len \in Lens : user_size' = [user_size EXCEPT ![c] = len] \/ user_size' = user_size
      BY <1>6 DEF MB_LOAD
    <2>2. PICK s \in {"open", "loaded"} : cpc' = [cpc EXCEPT ![c] = s]
      BY <1>6 DEF MB_LOAD, To
    <2>3. drv = "band" /\ UNCHANGED <<op, counter_op>> /\ len \in Nat
      BY <1>6, DriverAssumption DEF MB_LOAD
    <2>4. \A n : OpAt(c, s, op[c], n)
      BY <2>2, <2>3 DEF OpAt
    <2>5. op' = [op EXCEPT ![c] = op[c]]
      BY <1>2, <2>3
    <2>6. CASE user_size' = [user_size EXCEPT ![c] = len]
      BY <1>1, <1>2, <2>2, <2>3, <2>4, <2>5, <2>6, OpFrame
    <2>7. CASE user_size' = user_size
      BY <1>3, <2>2, <2>3, <2>4, <2>7
    <2> QED BY <2>1, <2>6, <2>7
  <1>7. CASE init_measure(c)
    <2> DEFINE o == [op[c] EXCEPT !.dma = type_measure # "cpu"]
    <2>1. o \in Ops /\ o.off = op[c].off /\ o.arg = op[c].arg
      BY <1>2 DEF Ops
    <2>2. /\ cpc' = [cpc EXCEPT ![c] = "measure"] /\ op' = [op EXCEPT ![c] = o]
          /\ UNCHANGED <<user_size, counter_op>> /\ cpc[c] = "init measure"
      BY <1>7 DEF init_measure, To, At
    <2> HIDE DEF o
    <2>3. OpAt(c, "measure", o, user_size[c])
      BY <1>2, <2>1, <2>2 DEF OpAt
    <2> QED BY <1>1, <1>2, <2>1, <2>2, <2>3, LengthStays
  <1>8. CASE start_measure(c)
    <2>1. cpc[c] = "measure" /\ UNCHANGED <<user_size, counter_op>>
      BY <1>8 DEF start_measure, At
    <2>2. CASE cpc' = [cpc EXCEPT ![c] = "copying"] /\ op' = [op EXCEPT ![c].len = user_size[c]]
      <3> DEFINE o == [op[c] EXCEPT !.len = user_size[c]]
      <3>1. o \in Ops /\ o.off = op[c].off /\ o.arg = op[c].arg /\ o.len = user_size[c]
        BY <1>2 DEF Ops
      <3>2. op' = [op EXCEPT ![c] = o]
        BY <2>2
      <3> HIDE DEF o
      <3>3. OpAt(c, "copying", o, user_size[c])
        BY <1>2, <2>1, <3>1 DEF OpAt
      <3> QED BY <1>1, <1>2, <2>1, <2>2, <3>1, <3>2, <3>3, LengthStays
    <2>3. CASE cpc' = [cpc EXCEPT ![c] = "open"] /\ op' = [op EXCEPT ![c] = NoOp]
      BY <1>1, <1>2, <2>1, <2>3, NoOpAt, LengthStays
    <2> QED BY <1>8, <2>2, <2>3 DEF start_measure, To
  <1>9. CASE ptr_copy(c)
    <2>1. /\ drv = "msg" /\ cpc' = [cpc EXCEPT ![c] = "measured"] /\ op' = [op EXCEPT ![c] = NoOp]
          /\ UNCHANGED <<user_size, counter_op>>
      BY <1>9 DEF ptr_copy, At, To
    <2>2. OpAt(c, "measured", NoOp, user_size[c])
      BY <2>1 DEF OpAt
    <2> QED BY <1>1, <1>2, <2>1, <2>2, NoOpAt, LengthStays
  <1>10. CASE BandCopy(c)
    <2>1. PICK len \in Lens :
            /\ len <= Share
            /\ op' = [op EXCEPT ![c] = [dir |-> "band", dma |-> dtype # "cpu", off |-> c * Share,
                                        len |-> user_size[c], arg |-> len]]
      BY <1>10 DEF BandCopy
    <2> DEFINE o == [dir |-> "band", dma |-> dtype # "cpu", off |-> c * Share,
                     len |-> user_size[c], arg |-> len]
    <2>2. PICK s \in {"copying", "copying loaded"} : cpc' = [cpc EXCEPT ![c] = s]
      BY <1>10 DEF BandCopy, To
    <2>3. drv = "band" /\ op' = [op EXCEPT ![c] = o] /\ UNCHANGED <<user_size, counter_op>> /\ len \in Nat
      BY <1>10, <2>1, DriverAssumption DEF BandCopy
    <2>4. Share \in Nat /\ c * Share \in Nat /\ (c + 1) * Share = c * Share + Share
      BY <1>2, ShareFacts
    <2> HIDE DEF Share
    <2>5. o \in Ops /\ o.off = c * Share /\ o.len = user_size[c] /\ o.arg = len /\ user_size[c] \in Nat
      BY <1>2, <2>3, <2>4 DEF Ops
    <2> HIDE DEF o
    <2>6. o.len = o.arg => o.off >= c * Share /\ o.off + o.len <= (c + 1) * Share
      <3>1. c * Share >= c * Share /\ c * Share + len <= c * Share + Share
        BY ONLY <2>1, <2>3, <2>4, Fitting
      <3> QED BY ONLY <2>4, <2>5, <3>1
    <2>7. OpAt(c, s, o, user_size[c])
      BY <2>2, <2>3, <2>6 DEF OpAt
    <2> QED BY <1>1, <1>2, <2>2, <2>3, <2>5, <2>7, LengthStays
  <1>11. CASE band_copied(c)
    <2>1. PICK s \in {"open", "loaded"} : cpc' = [cpc EXCEPT ![c] = s]
      BY <1>11 DEF band_copied, To
    <2>2. drv = "band" /\ op' = [op EXCEPT ![c] = NoOp] /\ UNCHANGED <<user_size, counter_op>>
      BY <1>11 DEF band_copied
    <2>3. OpAt(c, s, NoOp, user_size[c])
      BY <2>1, <2>2 DEF OpAt
    <2> QED BY <1>1, <1>2, <2>1, <2>2, <2>3, NoOpAt, LengthStays
  <1>12. ASSUME NEW d \in {"read", "write"}, CacheCopy(c, d) PROVE OpInv'
    <2>1. drv = "cache" /\ UNCHANGED <<user_size, counter_op>>
      BY <1>12 DEF CacheCopy, At
    <2>2. CASE cpc' = [cpc EXCEPT ![c] = "open"] /\ op' = op
      BY <1>3, <2>1, <2>2
    <2>3. ASSUME NEW len \in Lens \ {0}, len <= Share, cpc' = [cpc EXCEPT ![c] = "copying"],
                 op' = [op EXCEPT ![c] = [dir |-> d, dma |-> dtype # "cpu", len |-> len, arg |-> len,
                                          off |-> c * Share + mem_index(c, d, len) * len]]
          PROVE  OpInv'
      <3> DEFINE o == [dir |-> d, dma |-> dtype # "cpu", len |-> len, arg |-> len,
                       off |-> c * Share + mem_index(c, d, len) * len]
      <3>1. Share \in Nat /\ c * Share \in Nat /\ (c + 1) * Share = c * Share + Share
        BY <1>2, ShareFacts
      <3>2. counter_op[c][d] \in Nat /\ len \in Nat \ {0}
        BY DriverAssumption DEF OpInv, Counts
      <3> HIDE DEF Share
      <3>3. mem_index(c, d, len) * len \in Nat /\ mem_index(c, d, len) * len + len <= Share
        BY <2>3, <3>1, <3>2, IndexInside DEF mem_index
      <3> HIDE DEF mem_index
      <3>4. /\ o \in Ops /\ o.off = c * Share + mem_index(c, d, len) * len
            /\ o.len = len /\ o.arg = len /\ o.dir = d
        BY <3>1, <3>2, <3>3 DEF Ops
      <3>5. op' = [op EXCEPT ![c] = o]
        BY <2>3
      <3> HIDE DEF o
      <3>6. o.off >= c * Share /\ o.off + o.len <= (c + 1) * Share
        BY <3>1, <3>2, <3>3, <3>4
      <3>7. OpAt(c, "copying", o, user_size[c])
        BY <2>1, <3>4, <3>6 DEF OpAt
      <3> QED BY <1>1, <1>2, <2>1, <2>3, <3>4, <3>5, <3>7, LengthStays
    <2> QED BY <1>12, <2>2, <2>3 DEF CacheCopy, To
  <1>13. CASE cache_copied(c)
    <2>1. /\ cpc' = [cpc EXCEPT ![c] = "open"] /\ op' = [op EXCEPT ![c] = NoOp]
          /\ drv = "cache" /\ cpc[c] = "copying" /\ UNCHANGED user_size
      BY <1>13 DEF cache_copied, At, To
    <2>2. op[c].dir \in {"read", "write"}
      BY <1>2, <2>1 DEF OpAt
    <2>3. PICK done \in {0, 1} : counter_op' = [counter_op EXCEPT ![c][op[c].dir] = @ + done]
      BY <1>13 DEF cache_copied
    <2>4. counter_op' \in [Minor -> Counts]
      <3> DEFINE f == [counter_op[c] EXCEPT ![op[c].dir] = @ + done]
      <3>1. f \in Counts
        BY <2>2 DEF OpInv, Counts
      <3>2. counter_op' = [counter_op EXCEPT ![c] = f]
        BY <2>3
      <3> HIDE DEF f
      <3> QED BY <3>1, <3>2 DEF OpInv
    <2> QED BY <1>1, <2>1, <2>4, NoOpAt, LengthStays
  <1> QED BY <1>4, <1>5, <1>6, <1>7, <1>8, <1>9, <1>10, <1>11, <1>12, <1>13
          DEF Client, band_driver_write, band_driver_read, cache_driver_write, cache_driver_read

\* The module touches the data of a client only when it allocates them anew.
LEMMA ModuleData ==
  ASSUME ModuleStep \/ param_write
  PROVE  /\ UNCHANGED <<drv, size_boot_mem_mb, op>>
         /\ insmod \/ param_write \/ UNCHANGED <<type_measure, changed>>
         /\ \/ UNCHANGED <<pages, user_size, counter_op, disorder>>
            \/ /\ Coming("alloc") /\ i \in Minor
               /\ pages' = [pages EXCEPT ![i] = NoPages]
               /\ counter_op' = [counter_op EXCEPT ![i] = NoCount]
               /\ user_size' = [user_size EXCEPT ![i] = 0] /\ disorder' = disorder \ {i}
<1> USE DEF clients, param
<1>1. CASE insmod \/ init_failed \/ rmmod \/ exited \/ param_write
  BY <1>1 DEF insmod, init_failed, rmmod, exited, param_write
<1>2. CASE msg_check_memory \/ msg_start_policy \/ band_print_info \/ band_check_memory
           \/ cache_print_info \/ cache_fill_memory
  BY <1>2 DEF msg_check_memory, msg_start_policy, band_print_info, band_check_memory, cache_print_info,
              cache_fill_memory, BootMemory, StartPolicy, ExclFails, PrioFails, Goto
<1>3. CASE init_all
  BY <1>3 DEF init_all, Goto
<1>4. CASE register_driver \/ driver_add_chardev \/ device_create
  BY <1>4 DEF register_driver, driver_add_chardev, device_create, Goto, Turn
<1>5. CASE stop_policy \/ TakeBack
  BY <1>5 DEF stop_policy, TakeBack, device_destroy, driver_del_chardev, class_destroy,
              unregister_chrdev_region, clean_data, Goto
<1> QED
  BY <1>1, <1>2, <1>3, <1>4, <1>5 DEF ModuleStep

\* No file is open before the cdevs are there.  Unless the parameter was written,
\* the data have the type that type_measure names from the first of them on, and
\* while a file is open.
Typed ==
  \/ mod = "live" \/ ~Idle
  \/ mod = "coming" /\ ipc = "alloc" /\ i > 0
  \/ mod = "coming" /\ ipc \notin {"policy", "memory", "alloc", "failed"}
AgreeInv ==
  /\ mod = "coming" /\ ipc \in {"policy", "memory", "alloc"} => Idle
  /\ drv \in {"msg", "cache"} => type_measure # "prio"
  /\ ~changed /\ Typed => dtype = type_measure

\* The type of the data agrees with the parameter while there are files.
LEMMA AgreeStep ==
  ASSUME IInv, AgreeInv, [Next]_vars
  PROVE  AgreeInv'
  <1>1. ASSUME NEW c \in Minor, Client(c) PROVE AgreeInv'
    <2>1. UNCHANGED <<mod, ipc, i, drv, type_measure, changed, dtype>>
      BY <1>1, ClientSteps DEF Kernel, module, param
    <2>2. CASE driver_open(c)
      <3>1. cdev[c] > 0 /\ mod \in {"coming", "live"}
        BY <2>2 DEF driver_open
      <3>2. ipc = "cdev" \/ HaveCdev
        BY <3>1, BeforeValues DEF IInv, HeldInv
      <3>3. Typed /\ ~(mod = "coming" /\ ipc \in {"policy", "memory", "alloc"})
        BY <3>1, <3>2 DEF Typed, HaveCdev, IInv, PlaceInv
      <3> QED BY <2>1, <3>3 DEF AgreeInv
    <2>3. CASE ~driver_open(c)
      <3>1. Idle => Idle'
        BY <1>1, <2>3, ClientSteps DEF Idle, IInv, FileInv
      <3> QED BY <2>1, <3>1 DEF AgreeInv, Typed
    <2> QED BY <2>2, <2>3
  <1>2. CASE ModuleStep \/ param_write
    <2>1. Idle' <=> Idle
      BY <1>2, ModuleClients DEF Idle
    <2>2. CASE insmod
      <3>1. mod = "unloaded" /\ mod' = "coming" /\ i' = 0 /\ drv' = drv
            /\ ipc' \in {"alloc", "memory", "policy"}
            /\ type_measure' \in Types \union (IF drv = "trace" THEN {} ELSE {"bad"})
        BY <2>2 DEF insmod
      <3>2. Idle
        BY <3>1 DEF IInv, FileInv
      <3>3. drv \in {"msg", "cache"} => type_measure' # "prio"
        BY <3>1 DEF Types
      <3> QED BY <2>1, <3>1, <3>2, <3>3 DEF AgreeInv, Typed
    <2>3. CASE init_failed
      <3>1. mod = "coming" /\ mod' = (IF Idle THEN "unloaded" ELSE "dangling")
            /\ UNCHANGED <<drv, type_measure, changed, dtype>>
        BY <2>3 DEF init_failed, param
      <3> QED BY <2>1, <3>1 DEF AgreeInv, Typed
    <2>4. CASE rmmod \/ exited
      <3>1. mod' \in {"going", "unloaded"} /\ UNCHANGED <<drv, type_measure, changed, dtype>>
        BY <2>4 DEF rmmod, exited, param
      <3> QED BY <2>1, <3>1 DEF AgreeInv, Typed
    <2>5. CASE param_write
      <3>1. changed' /\ UNCHANGED <<drv, mod, ipc>> /\ type_measure' \in Types
        BY <2>5 DEF param_write, module
      <3>2. drv \in {"msg", "cache"} => type_measure' # "prio"
        BY <3>1 DEF Types
      <3> QED BY <2>1, <3>1, <3>2 DEF AgreeInv
    <2>6. CASE \/ msg_check_memory \/ msg_start_policy \/ band_print_info \/ band_check_memory
               \/ cache_print_info \/ cache_fill_memory
      <3>1. /\ UNCHANGED <<mod, drv, type_measure, changed, dtype>> /\ mod = "coming" /\ i' = 0
            /\ ipc \in {"policy", "memory"} /\ ipc' \in {"policy", "memory", "alloc", "failed"}
        BY <2>6 DEF msg_check_memory, msg_start_policy, band_print_info, band_check_memory,
                    cache_print_info, cache_fill_memory, BootMemory, StartPolicy, ExclFails,
                    PrioFails, Goto, Coming, param
      <3> QED BY <2>1, <3>1 DEF AgreeInv, Typed
    <2>7. CASE init_all
      <3>1. /\ UNCHANGED <<mod, drv, type_measure, changed>> /\ mod = "coming" /\ ipc = "alloc"
            /\ dtype' = IF i = 0 THEN type_measure ELSE dtype
            /\ ipc' \in {"alloc", "failed", "region"}
        BY <2>7 DEF init_all, Goto, Coming, param
      <3>2. i \in 0..MB_MINOR /\ MB_MINOR \in Nat \ {0} /\ Idle
        BY <3>1, DriverAssumption DEF IInv, PlaceInv, AgreeInv
      <3>3. ~changed => dtype' = type_measure
        BY <3>1, <3>2 DEF AgreeInv, Typed
      <3> QED BY <2>1, <3>1, <3>2, <3>3 DEF AgreeInv
    <2>8. CASE register_driver \/ driver_add_chardev \/ device_create \/ stop_policy \/ TakeBack
      <3>1. /\ UNCHANGED <<drv, type_measure, changed, dtype>> /\ ipc \notin {"policy", "memory", "alloc"}
            /\ ipc' \notin {"policy", "memory", "alloc"}
            /\ mod' = mod \/ (mod' = "live" /\ mod = "coming" /\ ipc = "device")
            /\ ipc # "failed"
        <4>1. CASE register_driver \/ driver_add_chardev \/ device_create
          BY <4>1 DEF register_driver, driver_add_chardev, device_create, Goto, Turn, Coming, param
        <4>2. CASE stop_policy \/ TakeBack
          BY <4>2 DEF stop_policy, TakeBack, device_destroy, driver_del_chardev, class_destroy,
                      unregister_chrdev_region, clean_data, Goto, param
        <4> QED BY <2>8, <4>1, <4>2
      <3>2. Typed' => Typed
        BY <2>1, <3>1 DEF Typed
      <3> QED BY <2>1, <3>1, <3>2 DEF AgreeInv
    <2> QED BY <1>2, <2>2, <2>3, <2>4, <2>5, <2>6, <2>7, <2>8 DEF ModuleStep
  <1>3. CASE UNCHANGED vars
    <2>1. UNCHANGED <<mod, ipc, i, drv, type_measure, changed, dtype, cpc>>
      BY <1>3 DEF vars, module, param, clients
    <2> QED BY <2>1 DEF AgreeInv, Typed, Idle
  <1> QED BY <1>1, <1>2, <1>3, Steps

\* Every step keeps the copies where they belong: while files are open the module
\* does not allocate data.
LEMMA OpStep ==
  ASSUME IInv, AgreeInv, OpInv, [Next]_vars
  PROVE  OpInv'
  <1>1. CASE \E c \in Minor : Client(c)
    BY <1>1, OpClient DEF IInv, PolicyInv
  <1>2. ASSUME UNCHANGED <<drv, size_boot_mem_mb, op, cpc, user_size>>, counter_op' \in [Minor -> Counts]
        PROVE  OpInv'
    <2>1. Share' = Share
      BY <1>2 DEF Share
    <2> QED BY <1>2, <2>1 DEF OpInv, OpAt
  <1>3. CASE ModuleStep \/ param_write
    <2>1. NoCount \in Counts /\ UNCHANGED <<drv, size_boot_mem_mb, op, cpc>>
      BY <1>3, ModuleData, ModuleClients DEF NoCount, Counts
    <2>2. counter_op' \in [Minor -> Counts]
      BY <1>3, <2>1, ModuleData DEF OpInv
    <2>3. CASE UNCHANGED user_size
      BY <1>2, <2>1, <2>2, <2>3
    <2>4. CASE Coming("alloc") /\ i \in Minor /\ user_size' = [user_size EXCEPT ![i] = 0]
      <3>1. Idle
        BY <2>4 DEF Coming, AgreeInv
      <3>2. \A c \in Minor : cpc'[c] = "idle"
        BY <2>1, <3>1 DEF Idle
      <3>3. \A c \in Minor : OpAt(c, cpc[c], op[c], user_size[c])'
        BY <3>2 DEF OpAt
      <3>4. user_size' \in [Minor -> Nat]
        BY <2>4 DEF OpInv
      <3> QED BY <2>1, <2>2, <3>3, <3>4 DEF OpInv
    <2> QED BY <1>3, <2>3, <2>4, ModuleData
  <1>4. CASE UNCHANGED vars
    BY <1>2, <1>4 DEF vars, clients, OpInv
  <1> QED BY <1>1, <1>3, <1>4, Steps

\* No copy is under way at first.
LEMMA InitCopies == Init => OpInv /\ AgreeInv
  <1> SUFFICES ASSUME Init PROVE OpInv /\ AgreeInv
    OBVIOUS
  <1>1. size_boot_mem_mb \in Nat /\ NoCount \in Counts
    BY DriverAssumption DEF Init, NoCount, Counts
  <1>2. \A c \in Minor : OpAt(c, "idle", NoOp, 0)
    BY NoOpAt
  <1>3. OpInv
    BY <1>1, <1>2, NoOpAt DEF Init, OpInv
  <1>4. Idle /\ mod = "unloaded" /\ type_measure = "bad"
    BY DEF Init, Idle
  <1>5. AgreeInv
    BY <1>4 DEF AgreeInv, Typed
  <1> QED BY <1>3, <1>5

\* For any number of devices, any size of the memory and any lengths: Msg and Cache
\* copy what they have checked, and a copy of Band does when that is what was loaded;
\* such a copy stays in the memory, and in Band and Cache in the share of its device.
THEOREM Inside == Spec => []CopyInside
  <1>1. Init => OpInv /\ AgreeInv
    BY InitCopies
  <1>2. IInv /\ AgreeInv /\ OpInv /\ [Next]_vars => OpInv' /\ AgreeInv'
    BY OpStep, AgreeStep
  <1>3. IInv /\ OpInv => CopyInside
    <2> SUFFICES ASSUME IInv, OpInv, NEW c \in Minor, Copying(c)
                 PROVE  /\ drv # "band" => op[c].len = op[c].arg
                        /\ op[c].len = op[c].arg =>
                             /\ op[c].off + op[c].len <= size_boot_mem_mb
                             /\ drv # "msg" => /\ op[c].off >= c * Share
                                               /\ op[c].off + op[c].len <= (c + 1) * Share
      BY DEF CopyInside
    <2>1. /\ drv = "msg" => op[c].off = 0 /\ op[c].len = op[c].arg /\ op[c].len <= size_boot_mem_mb
          /\ drv # "msg" /\ op[c].len = op[c].arg =>
               op[c].off >= c * Share /\ op[c].off + op[c].len <= (c + 1) * Share
          /\ drv # "band" => op[c].len = op[c].arg
          /\ size_boot_mem_mb \in Nat /\ op[c].off \in Nat /\ op[c].len \in Nat
      BY DEF OpInv, OpAt, Copying, Ops
    <2>2. (c + 1) * Share <= size_boot_mem_mb /\ c * Share \in Nat /\ Share \in Nat /\ (c + 1) * Share = c * Share + Share
      BY <2>1, ShareFacts
    <2> HIDE DEF Share
    <2> QED BY <2>1, <2>2
  <1> QED BY <1>1, <1>2, <1>3, Invariant, PTL DEF Spec

-----------------------------------------------------------------------------
(* Pins.                                                                   *)

\* Unless the parameter was written, and of a client that calls in order: from its
\* pinning to its unpinning, at a place p that holds, the client has the pages g of
\* the request that type_measure names, those alone and only then.
PageValues == {"null", "pinned", "freed", "twice"}
PageStates == [{"local", "prio"} -> PageValues]
Holds(p) == p \in {"loaded", "copying loaded", "copying", "measured"} /\ type_measure # "cpu"
PinAt(p, g, o, out) ==
  ~out =>
    /\ Holds(p) => g[Request(type_measure)] = "pinned"
    /\ \A r \in {"local", "prio"} : g[r] = "pinned" => Holds(p) /\ r = Request(type_measure)
    /\ \A r \in {"local", "prio"} : g[r] # "twice"
    /\ p \in {"measure", "copying", "copying loaded"} /\ o.dma => type_measure # "cpu"
    /\ p = "copying" => drv # "band"
PinInv ==
  ~changed => /\ pages \in [Minor -> PageStates]
              /\ \A c \in Minor : PinAt(cpc[c], pages[c], op[c], c \in disorder)

\* A step of one client.
LEMMA PinFrame ==
  ASSUME PinInv, OpInv, FileInv, UNCHANGED Kernel, NEW c \in Minor, NEW s, NEW g \in PageStates, NEW o,
         cpc' = [cpc EXCEPT ![c] = s], pages' = [pages EXCEPT ![c] = g], op' = [op EXCEPT ![c] = o],
         disorder' = disorder \/ disorder' = disorder \union {c},
         ~changed => PinAt(s, g, o, c \in disorder')
  PROVE  PinInv'
  <1>1. UNCHANGED <<drv, changed, type_measure>>
    BY DEF Kernel, param
  <1>2. SUFFICES ASSUME ~changed
                 PROVE  /\ pages' \in [Minor -> PageStates]
                        /\ \A d \in Minor : PinAt(cpc[d], pages[d], op[d], d \in disorder)'
    BY <1>1 DEF PinInv
  <1>3. pages \in [Minor -> PageStates] /\ \A d \in Minor : PinAt(cpc[d], pages[d], op[d], d \in disorder)
    BY <1>2 DEF PinInv
  <1>4. pages' \in [Minor -> PageStates]
    BY <1>3
  <1>5. ASSUME NEW d \in Minor PROVE PinAt(cpc[d], pages[d], op[d], d \in disorder)'
    <2>1. CASE d = c
      <3>1. cpc'[c] = s /\ pages'[c] = g /\ op'[c] = o
        BY <1>3 DEF OpInv, FileInv
      <3>2. PinAt(s, g, o, c \in disorder')
        BY <1>2
      <3> QED BY <1>1, <2>1, <3>1, <3>2 DEF PinAt, Holds
    <2>2. CASE d # c
      <3>1. cpc'[d] = cpc[d] /\ pages'[d] = pages[d] /\ op'[d] = op[d] /\ (d \in disorder' <=> d \in disorder)
        BY <1>3, <2>2 DEF OpInv, FileInv
      <3>2. PinAt(cpc[d], pages[d], op[d], d \in disorder)
        BY <1>3
      <3> QED BY <1>1, <3>1, <3>2 DEF PinAt, Holds
    <2> QED BY <2>1, <2>2
  <1> QED BY <1>4, <1>5

\* Every step of a client keeps its pins.
LEMMA PinClient ==
  ASSUME IInv, OpInv, AgreeInv, PinInv, NEW c \in Minor, Client(c)
  PROVE  PinInv'
  <1>1. UNCHANGED Kernel /\ UNCHANGED <<changed, type_measure>> /\ FileInv
    BY ClientSteps DEF Kernel, param, IInv
  <1>2. SUFFICES ASSUME ~changed PROVE PinInv'
    BY <1>1 DEF PinInv
  <1>3. /\ pages \in [Minor -> PageStates] /\ pages[c] \in PageStates
        /\ PinAt(cpc[c], pages[c], op[c], c \in disorder)
    BY <1>2 DEF PinInv
  <1>4. /\ op[c] \in Ops /\ OpAt(c, cpc[c], op[c], user_size[c]) /\ op = [op EXCEPT ![c] = op[c]]
        /\ pages = [pages EXCEPT ![c] = pages[c]]
    BY <1>3 DEF OpInv
  <1>5. cpc[c] # "idle" => dtype = type_measure
    BY <1>2 DEF AgreeInv, Typed, Idle
  <1>6. type_measure = "prio" => drv \in {"trace", "band"}
    BY DEF AgreeInv, IInv, PolicyInv
  <1>7. NoPages \in PageStates /\ NoPages["local"] = "null" /\ NoPages["prio"] = "null" /\ NoOp.dma = FALSE
    BY DEF NoPages, NoOp, PageStates, PageValues
  <1>r. Request(type_measure) \in {"local", "prio"} /\ (type_measure # "prio" => Request(type_measure) = "local")
    BY DEF Request
  \* What EXCEPT does to the pages of one client.
  <1>8. ASSUME NEW r \in {"local", "prio"}, NEW v \in PageValues
        PROVE  /\ [pages EXCEPT ![c][r] = v] = [pages EXCEPT ![c] = [pages[c] EXCEPT ![r] = v]]
               /\ [pages[c] EXCEPT ![r] = v] \in PageStates
               /\ \A q \in {"local", "prio"} : [pages[c] EXCEPT ![r] = v][q] = IF q = r THEN v ELSE pages[c][q]
    BY <1>3 DEF PageStates
  <1>9. ASSUME NEW s, cpc' = [cpc EXCEPT ![c] = s], UNCHANGED <<pages, op, disorder>>,
               PinAt(s, pages[c], op[c], c \in disorder)
        PROVE  PinInv'
    BY <1>1, <1>3, <1>4, <1>9, PinFrame
  <1>10. ASSUME NEW s, NEW r \in {"local", "prio"}, NEW v \in PageValues, NEW o,
                cpc' = [cpc EXCEPT ![c] = s], pages' = [pages EXCEPT ![c][r] = v],
                op' = [op EXCEPT ![c] = o], disorder' = disorder,
                PinAt(s, [pages[c] EXCEPT ![r] = v], o, c \in disorder)
         PROVE  PinInv'
    BY <1>1, <1>8, <1>10, PinFrame
  <1>11. ASSUME NEW r \in {"local", "prio"}, Unpin(c, r)
         PROVE  \E v \in PageValues : /\ pages' = [pages EXCEPT ![c][r] = v]
                                      /\ pages[c][r] = "pinned" => v = "freed"
    <2> DEFINE v == CASE pages[c][r] = "null" -> "null" [] pages[c][r] = "pinned" -> "freed"
                      [] OTHER -> "twice"
    <2>1. v \in PageValues /\ (pages[c][r] = "pinned" => v = "freed")
      BY DEF PageValues
    <2>2. pages' = [pages EXCEPT ![c][r] = v]
      BY <1>3, <1>11 DEF Unpin, PageStates
    <2> HIDE DEF v
    <2> QED BY <2>1, <2>2
  \* A call out of order: nothing is claimed of the client any more.
  <1>d. ASSUME NEW s, NEW g \in PageStates, NEW o, cpc' = [cpc EXCEPT ![c] = s],
               pages' = [pages EXCEPT ![c] = g], op' = [op EXCEPT ![c] = o],
               disorder' = disorder \union {c}
        PROVE  PinInv'
    <2>1. PinAt(s, g, o, c \in disorder')
      BY <1>d DEF PinAt
    <2> QED BY <1>1, <1>d, <2>1, PinFrame
  <1>12. CASE driver_open(c) \/ driver_close(c) \/ divide_error(c) \/ trace_driver_read(c)
              \/ copy_out(c) \/ msg_driver_read(c)
    <2>1. PICK s \in {"idle", "open", "reading"} : cpc' = [cpc EXCEPT ![c] = s]
      BY <1>12 DEF driver_open, driver_close, divide_error, Close, trace_driver_read, copy_out,
                   msg_driver_read, To
    <2>2. cpc[c] \in {"idle", "open", "reading"} /\ UNCHANGED <<pages, op, disorder>>
      BY <1>12 DEF driver_open, driver_close, divide_error, Close, trace_driver_read, copy_out,
                   msg_driver_read, At, Quiet
    <2>3. PinAt(s, pages[c], op[c], c \in disorder)
      BY <1>3, <2>2 DEF PinAt, Holds
    <2> QED BY <1>9, <2>1, <2>2, <2>3
  <1>13. CASE die(c)
    <2>1. /\ cpc' = [cpc EXCEPT ![c] = "idle"] /\ disorder' = disorder \union {c}
          /\ UNCHANGED <<pages, op>>
      BY <1>13 DEF die, Close, Meant, To
    <2> QED BY <1>3, <1>4, <1>d, <2>1
  <1>24. CASE msg_driver_write(c)
    <2>1. PICK len \in Lens : op' = [op EXCEPT ![c] = [NoOp EXCEPT !.arg = len]]
      BY <1>24 DEF msg_driver_write
    <2>2. cpc[c] = "open" /\ cpc' = [cpc EXCEPT ![c] = "init measure"] /\ UNCHANGED <<pages, disorder>>
      BY <1>24 DEF msg_driver_write, At, To
    <2>3. \A o : PinAt("init measure", pages[c], o, c \in disorder')
      BY <1>3, <2>2 DEF PinAt, Holds
    <2> QED BY <1>1, <1>3, <1>4, <2>1, <2>2, <2>3, PinFrame
  <1>14. CASE init_measure(c)
    <2> DEFINE o == [op[c] EXCEPT !.dma = type_measure # "cpu"]
    <2>1. /\ cpc' = [cpc EXCEPT ![c] = "measure"] /\ pages' = [pages EXCEPT ![c] = NoPages]
          /\ op' = [op EXCEPT ![c] = o] /\ disorder' = disorder
      BY <1>14 DEF init_measure, At, To
    <2>2. o.dma => type_measure # "cpu"
      BY <1>4 DEF Ops
    <2> HIDE DEF o
    <2>3. PinAt("measure", NoPages, o, c \in disorder')
      BY <1>7, <2>2 DEF PinAt, Holds
    <2> QED BY <1>1, <1>7, <2>1, <2>3, PinFrame
  <1>15. CASE start_measure(c)
    <2>1. cpc[c] = "measure" /\ disorder' = disorder
      BY <1>15 DEF start_measure, At
    <2>2. drv = "msg" /\ Request(type_measure) = "local"
      BY <1>4, <1>6, <1>r, <2>1 DEF OpAt
    <2>3. CASE /\ To(c, "copying") /\ op' = [op EXCEPT ![c].len = user_size[c]]
               /\ IF type_measure = "cpu" THEN UNCHANGED pages ELSE Pin(c, "local")
      <3> DEFINE o == [op[c] EXCEPT !.len = user_size[c]]
      <3>1. o.dma = op[c].dma /\ op' = [op EXCEPT ![c] = o]
        BY <1>4, <2>3 DEF Ops
      <3> HIDE DEF o
      <3>2. CASE type_measure = "cpu"
        <4>1. PinAt("copying", pages[c], o, c \in disorder')
          BY <1>3, <2>1, <2>2, <3>1, <3>2 DEF PinAt, Holds
        <4>2. cpc' = [cpc EXCEPT ![c] = "copying"] /\ pages' = [pages EXCEPT ![c] = pages[c]]
          BY <1>4, <2>3, <3>2 DEF To
        <4> QED BY <1>1, <1>3, <2>1, <3>1, <4>1, <4>2, PinFrame
      <3>3. CASE type_measure # "cpu"
        <4>1. PinAt("copying", [pages[c] EXCEPT !["local"] = "pinned"], o, c \in disorder)
          BY <1>3, <1>8, <2>1, <2>2, <3>1, <3>3 DEF PinAt, Holds, PageValues
        <4>2. /\ cpc' = [cpc EXCEPT ![c] = "copying"]
              /\ pages' = [pages EXCEPT ![c]["local"] = "pinned"] /\ "pinned" \in PageValues
          BY <2>3, <3>3 DEF To, Pin, PageValues
        <4> QED BY <1>10, <2>1, <3>1, <4>1, <4>2
      <3> QED BY <3>2, <3>3
    <2>5. CASE To(c, "open") /\ op' = [op EXCEPT ![c] = NoOp] /\ UNCHANGED pages
      <3>1. PinAt("open", pages[c], NoOp, c \in disorder')
        BY <1>3, <2>1 DEF PinAt, Holds
      <3> QED BY <1>1, <1>3, <1>4, <2>1, <2>5, <3>1, PinFrame DEF To
    <2> QED BY <1>15, <2>3, <2>5 DEF start_measure
  <1>16. CASE ptr_copy(c)
    <2>1. cpc[c] = "copying" /\ disorder' = disorder /\ pages' = pages
          /\ cpc' = [cpc EXCEPT ![c] = "measured"] /\ op' = [op EXCEPT ![c] = NoOp]
      BY <1>16 DEF ptr_copy, At, To
    <2>2. PinAt("measured", pages[c], NoOp, c \in disorder')
      BY <1>3, <2>1 DEF PinAt, Holds
    <2> QED BY <1>1, <1>3, <1>4, <2>1, <2>2, PinFrame
  \* Unpinning keeps the types, and a client in order that goes back to "open" unpins
  \* what it holds.
  <1>17. ASSUME IF type_measure # "cpu" THEN Unpin(c, Request(type_measure)) ELSE UNCHANGED pages
         PROVE  \E g \in PageStates :
                  /\ pages' = [pages EXCEPT ![c] = g]
                  /\ cpc[c] \in {"measured", "loaded", "copying"} => \A o : PinAt("open", g, o, c \in disorder)
    <2>1. CASE type_measure = "cpu"
      <3>1. \A o : PinAt("open", pages[c], o, c \in disorder)
        BY <1>3, <2>1 DEF PinAt, Holds
      <3> QED BY <1>3, <1>4, <1>17, <2>1, <3>1
    <2>2. CASE type_measure # "cpu"
      <3>1. PICK v \in PageValues : /\ pages' = [pages EXCEPT ![c][Request(type_measure)] = v]
                                    /\ pages[c][Request(type_measure)] = "pinned" => v = "freed"
        BY <1>11, <1>17, <1>r, <2>2
      <3> DEFINE g == [pages[c] EXCEPT ![Request(type_measure)] = v]
      <3>2. /\ pages' = [pages EXCEPT ![c] = g] /\ g \in PageStates
            /\ \A q \in {"local", "prio"} : g[q] = IF q = Request(type_measure) THEN v ELSE pages[c][q]
        BY <1>8, <1>r, <3>1
      <3> HIDE DEF g
      <3>3. ASSUME cpc[c] \in {"measured", "loaded", "copying"}, NEW o
            PROVE  PinAt("open", g, o, c \in disorder)
        <4>1. SUFFICES ASSUME c \notin disorder
                       PROVE  /\ \A q \in {"local", "prio"} : g[q] \notin {"pinned", "twice"}
          BY DEF PinAt, Holds
        <4>2. /\ pages[c][Request(type_measure)] = "pinned"
              /\ \A q \in {"local", "prio"} : pages[c][q] # "twice"
              /\ \A q \in {"local", "prio"} : pages[c][q] = "pinned" => q = Request(type_measure)
          BY <1>3, <2>2, <3>3, <4>1 DEF PinAt, Holds
        <4> QED BY <3>1, <3>2, <4>2
      <3> QED BY <3>2, <3>3
    <2> QED BY <2>1, <2>2
  <1>18. CASE end_measure(c) \/ MB_UNLOAD(c)
    <2>1. cpc' = [cpc EXCEPT ![c] = "open"] /\ UNCHANGED op /\ op' = [op EXCEPT ![c] = op[c]]
      BY <1>4, <1>18 DEF end_measure, MB_UNLOAD, At, To
    <2>2. end_measure(c) => Request(type_measure) = "local"
      BY <1>4, <1>6, <1>r DEF end_measure, At, OpAt
    <2>3. IF type_measure # "cpu" THEN Unpin(c, Request(type_measure)) ELSE UNCHANGED pages
      BY <1>18, <2>2 DEF end_measure, MB_UNLOAD
    <2>4. PICK g \in PageStates :
            /\ pages' = [pages EXCEPT ![c] = g]
            /\ cpc[c] \in {"measured", "loaded", "copying"} => \A o : PinAt("open", g, o, c \in disorder)
      BY <1>17, <2>3
    <2>5. CASE cpc[c] \in {"measured", "loaded"} /\ disorder' = disorder
      BY <1>1, <2>1, <2>4, <2>5, PinFrame
    <2>6. CASE disorder' = disorder \union {c}
      BY <1>d, <2>1, <2>4, <2>6
    <2> QED BY <1>18, <2>5, <2>6 DEF end_measure, MB_UNLOAD, At, Meant
  <1>19. CASE MB_LOAD(c)
    <2>1. UNCHANGED op /\ op' = [op EXCEPT ![c] = op[c]] /\ {"pinned", "freed"} \subseteq PageValues
      BY <1>4, <1>19 DEF MB_LOAD, PageValues
    <2>2. \/ type_measure = "cpu" /\ To(c, "loaded") /\ UNCHANGED pages
          \/ type_measure # "cpu" /\ To(c, "loaded") /\ Pin(c, Request(type_measure))
          \/ To(c, "open") /\ pages' = [pages EXCEPT ![c][Request(type_measure)] = "freed"]
      BY <1>19 DEF MB_LOAD
    <2>3. CASE cpc[c] = "open" /\ disorder' = disorder
      <3>2. CASE type_measure = "cpu" /\ To(c, "loaded") /\ UNCHANGED pages
        <4>1. PinAt("loaded", pages[c], op[c], c \in disorder)
          BY <1>3, <2>3, <3>2 DEF PinAt, Holds
        <4> QED BY <1>9, <2>1, <2>3, <3>2, <4>1 DEF To
      <3>3. CASE type_measure # "cpu" /\ To(c, "loaded") /\ Pin(c, Request(type_measure))
        <4>1. PinAt("loaded", [pages[c] EXCEPT ![Request(type_measure)] = "pinned"], op[c], c \in disorder)
          <5> DEFINE r == Request(type_measure)
                     g == [pages[c] EXCEPT ![r] = "pinned"]
          <5>1. \A q \in {"local", "prio"} : g[q] = IF q = r THEN "pinned" ELSE pages[c][q]
            BY <1>8, <1>r, <2>1
          <5> HIDE DEF g
          <5>2. PinAt("loaded", g, op[c], c \in disorder)
            BY <1>3, <1>r, <2>3, <3>3, <5>1 DEF PinAt, Holds
          <5> QED BY <5>2 DEF g
        <4>2. /\ cpc' = [cpc EXCEPT ![c] = "loaded"] /\ "pinned" \in PageValues
              /\ pages' = [pages EXCEPT ![c][Request(type_measure)] = "pinned"]
          BY <2>1, <3>3 DEF To, Pin
        <4> QED BY <1>10, <1>r, <2>1, <2>3, <4>1, <4>2
      <3>4. CASE To(c, "open") /\ pages' = [pages EXCEPT ![c][Request(type_measure)] = "freed"]
        <4>1. PinAt("open", [pages[c] EXCEPT ![Request(type_measure)] = "freed"], op[c], c \in disorder)
          BY <1>3, <1>8, <1>r, <2>1, <2>3 DEF PinAt, Holds
        <4> QED BY <1>4, <1>10, <1>r, <2>1, <2>3, <3>4, <4>1 DEF To
      <3> QED BY <2>2, <3>2, <3>3, <3>4
    <2>4. CASE disorder' = disorder \union {c}
      <3>1. PICK s \in {"open", "loaded"} : cpc' = [cpc EXCEPT ![c] = s]
        BY <2>2 DEF To
      <3>2. \/ pages' = [pages EXCEPT ![c] = pages[c]]
            \/ \E v \in PageValues : pages' = [pages EXCEPT ![c][Request(type_measure)] = v]
        BY <1>4, <2>1, <2>2 DEF Pin
      <3>3. \E g \in PageStates : pages' = [pages EXCEPT ![c] = g]
        BY <1>3, <1>8, <1>r, <3>2
      <3> QED BY <1>d, <2>1, <2>4, <3>1, <3>3
    <2> QED BY <1>19, <2>3, <2>4 DEF MB_LOAD, Meant
  <1>20. CASE BandCopy(c)
    <2>1. PICK len \in Lens :
            op' = [op EXCEPT ![c] = [dir |-> "band", dma |-> dtype # "cpu", off |-> c * Share,
                                     len |-> user_size[c], arg |-> len]]
      BY <1>20 DEF BandCopy
    <2> DEFINE o == [dir |-> "band", dma |-> dtype # "cpu", off |-> c * Share,
                     len |-> user_size[c], arg |-> len]
    <2>2. /\ op' = [op EXCEPT ![c] = o] /\ UNCHANGED pages /\ cpc[c] # "idle"
          /\ \/ cpc[c] = "open" /\ cpc' = [cpc EXCEPT ![c] = "copying"]
             \/ cpc[c] = "loaded" /\ cpc' = [cpc EXCEPT ![c] = "copying loaded"]
      BY <1>20, <2>1 DEF BandCopy, At, To
    <2>3. o.dma => type_measure # "cpu"
      BY <1>5, <2>2
    <2> HIDE DEF o
    <2>4. CASE cpc[c] = "loaded" /\ disorder' = disorder
      <3>1. PinAt("copying loaded", pages[c], o, c \in disorder')
        BY <1>3, <2>3, <2>4 DEF PinAt, Holds
      <3> QED BY <1>1, <1>3, <1>4, <2>2, <2>4, <3>1, PinFrame
    <2>5. CASE disorder' = disorder \union {c}
      BY <1>3, <1>4, <1>d, <2>2, <2>5
    <2> QED BY <1>20, <2>4, <2>5 DEF BandCopy, Meant
  <1>21. CASE band_copied(c)
    <2>1. op' = [op EXCEPT ![c] = NoOp] /\ UNCHANGED <<disorder, pages>> /\ drv = "band"
      BY <1>21 DEF band_copied
    <2>2. CASE cpc[c] = "copying loaded" /\ cpc' = [cpc EXCEPT ![c] = "loaded"]
      <3>1. PinAt("loaded", pages[c], NoOp, c \in disorder')
        BY <1>3, <2>1, <2>2 DEF PinAt, Holds
      <3> QED BY <1>1, <1>3, <1>4, <2>1, <2>2, <3>1, PinFrame
    <2>3. CASE cpc[c] = "copying" /\ cpc' = [cpc EXCEPT ![c] = "open"]
      <3>1. PinAt("open", pages[c], NoOp, c \in disorder')
        BY <1>3, <2>1, <2>3 DEF PinAt, Holds
      <3> QED BY <1>1, <1>3, <1>4, <2>1, <2>3, <3>1, PinFrame
    <2> QED BY <1>21, <2>2, <2>3 DEF band_copied, At, To
  <1>22. ASSUME NEW d, CacheCopy(c, d) PROVE PinInv'
    <2>1. drv = "cache" /\ cpc[c] = "open" /\ disorder' = disorder
      BY <1>22 DEF CacheCopy, At
    <2>2. dtype = type_measure /\ Request(type_measure) = "local"
      BY <1>5, <1>6, <1>r, <2>1
    <2>3. CASE cpc' = [cpc EXCEPT ![c] = "open"] /\ pages' = [pages EXCEPT ![c]["local"] = "freed"] /\ op' = op
      <3>1. PinAt("open", [pages[c] EXCEPT !["local"] = "freed"], op[c], c \in disorder)
        BY <1>3, <1>8, <2>1 DEF PinAt, Holds, PageValues
      <3>2. op' = [op EXCEPT ![c] = op[c]] /\ "freed" \in PageValues
        BY <1>4, <2>3 DEF PageValues
      <3> QED BY <1>10, <2>1, <2>3, <3>1, <3>2
    <2>4. ASSUME NEW o, o.dma => type_measure # "cpu", op' = [op EXCEPT ![c] = o],
                 cpc' = [cpc EXCEPT ![c] = "copying"],
                 IF dtype # "cpu" THEN Pin(c, "local") ELSE UNCHANGED pages
          PROVE  PinInv'
      <3>1. CASE type_measure = "cpu"
        <4>1. PinAt("copying", pages[c], o, c \in disorder')
          BY <1>3, <2>1, <2>4, <3>1 DEF PinAt, Holds
        <4> QED BY <1>1, <1>3, <1>4, <2>1, <2>2, <2>4, <3>1, <4>1, PinFrame
      <3>2. CASE type_measure # "cpu"
        <4>1. PinAt("copying", [pages[c] EXCEPT !["local"] = "pinned"], o, c \in disorder)
          BY <1>3, <1>8, <2>1, <2>2, <2>4, <3>2 DEF PinAt, Holds, PageValues
        <4>2. pages' = [pages EXCEPT ![c]["local"] = "pinned"] /\ "pinned" \in PageValues
          BY <2>2, <2>4, <3>2 DEF Pin, PageValues
        <4> QED BY <1>10, <2>1, <2>4, <4>1, <4>2
      <3> QED BY <3>1, <3>2
    <2>5. CASE /\ \E len \in Lens \ {0} :
                    /\ len <= Share
                    /\ op' = [op EXCEPT ![c] = [dir |-> d, dma |-> dtype # "cpu", len |-> len, arg |-> len,
                                                off |-> c * Share + mem_index(c, d, len) * len]]
               /\ IF dtype # "cpu" THEN Pin(c, "local") ELSE UNCHANGED pages
               /\ cpc' = [cpc EXCEPT ![c] = "copying"]
      <3>1. PICK len \in Lens : op' = [op EXCEPT ![c] = [dir |-> d, dma |-> dtype # "cpu", len |-> len, arg |-> len,
                                                         off |-> c * Share + mem_index(c, d, len) * len]]
        BY <2>5
      <3> DEFINE o == [dir |-> d, dma |-> dtype # "cpu", len |-> len, arg |-> len,
                       off |-> c * Share + mem_index(c, d, len) * len]
      <3>2. (o.dma => type_measure # "cpu") /\ op' = [op EXCEPT ![c] = o]
        BY <2>2, <3>1
      <3> HIDE DEF o
      <3> QED BY <2>4, <2>5, <3>2
    <2> QED BY <1>22, <2>3, <2>5 DEF CacheCopy, To
  <1>23. CASE cache_copied(c)
    <2>1. /\ drv = "cache" /\ cpc[c] = "copying" /\ cpc' = [cpc EXCEPT ![c] = "open"]
          /\ op' = [op EXCEPT ![c] = NoOp] /\ disorder' = disorder
          /\ IF dtype # "cpu" THEN Unpin(c, "local") ELSE UNCHANGED pages
      BY <1>23 DEF cache_copied, At, To
    <2>2. dtype = type_measure /\ Request(type_measure) = "local"
      BY <1>5, <1>6, <1>r, <2>1
    <2>3. IF type_measure # "cpu" THEN Unpin(c, Request(type_measure)) ELSE UNCHANGED pages
      BY <2>1, <2>2
    <2>4. PICK g \in PageStates : pages' = [pages EXCEPT ![c] = g] /\ PinAt("open", g, NoOp, c \in disorder)
      BY <1>17, <2>1, <2>3
    <2>5. PinAt("open", g, NoOp, c \in disorder')
      BY <2>1, <2>4
    <2> QED BY <1>1, <2>1, <2>4, <2>5, PinFrame
  <1> QED BY <1>12, <1>13, <1>14, <1>15, <1>16, <1>18, <1>19, <1>20, <1>21, <1>22, <1>23, <1>24
          DEF Client, band_driver_write, band_driver_read, cache_driver_write, cache_driver_read

\* Every step keeps the pins: while files are open the module neither allocates
\* data nor is loaded anew, and a write of the parameter is recorded.
LEMMA PinStep ==
  ASSUME IInv, OpInv, AgreeInv, PinInv, [Next]_vars
  PROVE  PinInv'
  <1>1. CASE \E c \in Minor : Client(c)
    BY <1>1, PinClient
  <1>2. ASSUME UNCHANGED <<cpc, pages, op, disorder, drv, type_measure, changed>> PROVE PinInv'
    BY <1>2 DEF PinInv, PinAt, Holds
  <1>3. CASE param_write
    BY <1>3 DEF param_write, PinInv
  <1>4. CASE insmod
    <2>1. Idle /\ UNCHANGED <<cpc, pages, op, disorder, changed>>
      BY <1>4 DEF insmod, IInv, FileInv, clients
    <2> QED BY <2>1 DEF PinInv, PinAt, Holds, Idle
  <1>5. CASE ModuleStep /\ ~insmod /\ ~param_write
    <2>1. UNCHANGED <<drv, type_measure, changed, cpc, op>>
      BY <1>5, ModuleClients, ModuleData
    <2>2. CASE UNCHANGED <<pages, disorder>>
      BY <1>2, <2>1, <2>2
    <2>3. CASE /\ Coming("alloc") /\ i \in Minor /\ pages' = [pages EXCEPT ![i] = NoPages]
               /\ disorder' = disorder \ {i}
      <3>1. Idle /\ Idle'
        BY <2>1, <2>3 DEF Coming, AgreeInv, Idle
      <3>2. SUFFICES ASSUME ~changed PROVE PinInv'
        BY <2>1 DEF PinInv
      <3>3. NoPages \in PageStates /\ NoPages["local"] = "null" /\ NoPages["prio"] = "null"
        BY DEF NoPages, PageStates, PageValues
      <3>4. pages \in [Minor -> PageStates] /\ \A c \in Minor : PinAt("idle", pages[c], op[c], c \in disorder)
        BY <3>1, <3>2 DEF PinInv, Idle
      <3>5. pages' \in [Minor -> PageStates]
        BY <2>3, <3>3, <3>4
      <3>6. \A c \in Minor : PinAt("idle", pages'[c], op[c], c \in disorder')
        BY <2>3, <3>3, <3>4 DEF PinAt, Holds
      <3>7. \A c \in Minor : PinAt(cpc[c], pages[c], op[c], c \in disorder)'
        BY <2>1, <3>1, <3>6 DEF PinAt, Holds, Idle
      <3> QED BY <3>5, <3>7 DEF PinInv
    <2> QED BY <1>5, <2>2, <2>3, ModuleData
  <1>6. CASE UNCHANGED vars
    BY <1>2, <1>6 DEF vars, clients, param
  <1> QED BY <1>1, <1>3, <1>4, <1>5, <1>6, Steps

\* For any number of devices and any bounds: while the parameter is left alone, and
\* of a client that calls in the order of the Band daemon, a copy by DMA has its
\* pages pinned, none is freed twice, and a closed file leaves nothing pinned.
THEOREM PinsFollow == Spec => []PinsFollowCopies
  <1>1. Init => OpInv /\ AgreeInv /\ PinInv
    <2> SUFFICES ASSUME Init PROVE PinInv
      BY InitCopies
    <2>1. NoPages \in PageStates /\ NoPages["local"] = "null" /\ NoPages["prio"] = "null"
      BY DEF NoPages, PageStates, PageValues
    <2>2. PinAt("idle", NoPages, NoOp, FALSE)
      BY <2>1 DEF PinAt, Holds
    <2> QED BY <2>1, <2>2 DEF Init, PinInv, PinAt, Holds
  <1>2. IInv /\ OpInv /\ AgreeInv /\ PinInv /\ [Next]_vars => OpInv' /\ AgreeInv' /\ PinInv'
    BY OpStep, AgreeStep, PinStep
  <1>3. AgreeInv /\ PinInv => PinsFollowCopies
    <2> SUFFICES ASSUME AgreeInv, PinInv, ~changed, NEW c \in Minor \ disorder
                 PROVE  /\ Copying(c) /\ op[c].dma =>
                             pages[c][Request(IF drv = "band" THEN dtype ELSE type_measure)] = "pinned"
                        /\ \A r \in {"local", "prio"} : pages[c][r] # "twice"
                        /\ cpc[c] = "idle" => ~Pinned(c)
      BY DEF PinsFollowCopies
    <2>1. PinAt(cpc[c], pages[c], op[c], FALSE)
      <3>1. PinAt(cpc[c], pages[c], op[c], c \in disorder)
        BY DEF PinInv
      <3> QED BY <3>1 DEF PinAt, Holds
    <2>2. Copying(c) => dtype = type_measure
      BY DEF AgreeInv, Typed, Idle, Copying
    <2>3. Copying(c) /\ op[c].dma => pages[c][Request(type_measure)] = "pinned"
      BY <2>1 DEF PinAt, Holds, Copying
    <2>4. \A r \in {"local", "prio"} : pages[c][r] # "twice"
      BY <2>1 DEF PinAt
    <2>5. cpc[c] = "idle" => ~Pinned(c)
      BY <2>1 DEF PinAt, Holds, Pinned
    <2> QED BY <2>2, <2>3, <2>4, <2>5
  <1> QED BY <1>1, <1>2, <1>3, Invariant, PTL DEF Spec
=============================================================================
