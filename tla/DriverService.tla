--------------------------- MODULE DriverService ---------------------------
(***************************************************************************)
(* How handles come to exist: threads of several processes that call       *)
(* WinDivertOpen, the service manager through which the first of them      *)
(* installs and starts the driver, and the driver as it loads (DriverEntry)*)
(* and unloads (windivert_driver_unload).                                  *)
(*                                                                         *)
(* The device can be opened from WdfControlFinishInitializing on, before   *)
(* DriverEntry has created what the handles use; and a packet that was     *)
(* injected may still be in the network stack when its handle is closed    *)
(* and the driver stopped.                                                 *)
(*                                                                         *)
(* The service manager is external.  It loads and unloads one driver at a  *)
(* time; a service marked for deletion stays in its database until it is   *)
(* stopped and every handle to it is closed.                               *)
(***************************************************************************)
EXTENDS Integers

CONSTANTS
  Openers,     \* threads that call WinDivertOpen, each in its own process
  Asked,       \* the Configuration each of them asks for
  Uses,        \* the sub-layers that its filter has callouts in
  May,         \* calls that may fail: see Calls
  Stay,        \* sets of sub-layers that the platform may fail to remove
  MaxFlights,  \* bound on the injected packets of each IP version
  Nil, Dead

Calls == {"device", "manager", "openService", "fileName", "createService",
          "startService", "create", "ioctl", "load"}

Configuration ==
  [layer : {"default", "other"}, flags : {"default", "other"},
   priority : {"default", "other"}]

Context ==
  [layer : {"default", "other"}, flags : {"default", "other"},
   priority : {"default", "other"}, on : BOOLEAN]

SubLayers == {"in4", "out4", "in6", "out6", "forward4", "forward6"}

With(l, f, r, o) == [layer |-> l, flags |-> f, priority |-> r, on |-> o]

ASSUME ServiceAssumption ==
  /\ Asked \in [Openers -> Configuration]
  /\ Uses \in [Openers -> SUBSET SubLayers]
  /\ May \subseteq Calls
  /\ Stay \subseteq SUBSET SubLayers
  /\ MaxFlights \in Nat
  /\ Nil # Dead /\ Nil \notin Openers
  /\ Nil \notin Context /\ Dead \notin Context

VARIABLES
  pc,          \* control point of each opener; "idle" also after a failure
  retries,     \* of WinDivertDriverInstall
  mgr, svc,    \* openers that hold a handle to the manager, to the service
  dev,         \* handle to the device of each opener: Nil, Dead (its driver
               \* failed to load) or the configuration it has in the driver
  scm,         \* the service: "absent", "present" or "marked" for deletion
  drv,         \* the driver: see DriverStates
  loader,      \* the opener whose StartService loads the driver, or Nil
  stage,       \* what DriverEntry creates or the unload destroys next
  res,         \* what the driver has created
  sub,         \* the sub-layers that are registered with the platform
  leftover,    \* did the platform not remove some when the driver unloaded?
  flights,     \* number of injected packets in the network stack, per version
  orphan,      \* was the service left behind by a process that was killed?
  early        \* openers whose filter started before its load was complete

openVars == <<pc, retries, mgr, dev>>
driverVars == <<drv, loader, stage, res, sub, leftover, flights>>
vars == <<openVars, svc, scm, orphan, early, driverVars>>

DriverStates == {"none", "loading", "running", "stopping", "unloading"}
Versions == {"inject4", "inject6"}
Pools == {"nblPool", "nbPool"}
Resources == {"device", "engine", "sublayers"} \cup Versions \cup Pools
Over == {"idle", "opened"}
Points == Over \cup
  {"device", "manager", "openService", "createService", "startService",
   "starting", "stop", "delete", "closeService", "closeManager", "device2",
   "layer", "flags", "priority", "filter"}

Init ==
  /\ pc = [p \in Openers |-> "idle"]
  /\ retries = [p \in Openers |-> 0]
  /\ mgr = {} /\ svc = {}
  /\ dev = [p \in Openers |-> Nil]
  /\ scm = "absent" /\ drv = "none" /\ loader = Nil
  /\ stage = "device" /\ res = {} /\ flights = [v \in Versions |-> 0]
  /\ sub = {} /\ leftover = FALSE
  /\ orphan = FALSE /\ early = {}

Go(p, l) == pc' = [pc EXCEPT ![p] = l]

(***************************************************************************)
(* The database entry after a handle is closed or the driver has stopped.  *)
(***************************************************************************)
Entry(entry, handles, driver) ==
  IF entry = "marked" /\ handles = {} /\ driver = "none" THEN "absent"
  ELSE entry

-----------------------------------------------------------------------------
(***************************************************************************)
(* WinDivertOpen, with flags, a layer and a priority that are valid and a  *)
(* filter that compiles; others are refused before anything is done.       *)
(***************************************************************************)
Open(p) ==
  /\ pc[p] = "idle"
  /\ Go(p, "device")
  /\ UNCHANGED <<retries, mgr, dev, svc, scm, orphan, early, driverVars>>

(***************************************************************************)
(* CreateFile, and windivert_create in the driver, which gives the new     *)
(* context the default configuration and no filter.  (Mutant: a context    *)
(* that starts with another layer.)                                        *)
(***************************************************************************)
Openable == drv = "running" \/ (loader # Nil /\ "device" \in res)

FreshForward == With("other", "default", "default", FALSE)
Fresh == With("default", "default", "default", FALSE)

CreateFile(p) == Openable /\ dev' = [dev EXCEPT ![p] = Fresh]
CreateRefused == Openable /\ "create" \in May /\ UNCHANGED dev

OpenDevice(p) ==
  /\ pc[p] = "device"
  /\ \/ CreateFile(p) /\ Go(p, "layer")
     \/ CreateRefused /\ Go(p, "idle")
     \/ ~Openable /\ Go(p, "manager") /\ UNCHANGED dev
  /\ UNCHANGED <<retries, mgr, svc, scm, orphan, early, driverVars>>

(***************************************************************************)
(* The second CreateFile, after the driver has been started.               *)
(***************************************************************************)
OpenDeviceAgain(p) ==
  /\ pc[p] = "device2"
  /\ CreateFile(p) \/ CreateRefused \/ (~Openable /\ UNCHANGED dev)
  /\ Go(p, "delete")
  /\ UNCHANGED <<retries, mgr, svc, scm, orphan, early, driverVars>>

-----------------------------------------------------------------------------
(***************************************************************************)
(* WinDivertDriverInstall, one action per call of the service manager.     *)
(***************************************************************************)
OpenSCManager(p) ==
  /\ pc[p] = "manager"
  /\ \/ /\ mgr' = mgr \cup {p}
        /\ retries' = [retries EXCEPT ![p] = 2]
        /\ Go(p, "openService")
     \/ "manager" \in May /\ Go(p, "idle") /\ UNCHANGED <<mgr, retries>>
  /\ UNCHANGED <<dev, svc, scm, orphan, early, driverVars>>

OpenService(p) ==
  /\ pc[p] = "openService"
  /\ \/ scm # "absent" /\ svc' = svc \cup {p} /\ Go(p, "startService")
     \/ /\ scm = "absent" \/ "openService" \in May
        /\ \/ Go(p, "createService")
           \/ "fileName" \in May /\ Go(p, "closeManager")
        /\ UNCHANGED svc
  /\ UNCHANGED <<retries, mgr, dev, scm, orphan, early, driverVars>>

(***************************************************************************)
(* CreateService.  If the service exists after all, it is opened again,    *)
(* twice at most.  (Mutant: the retries are not counted.)                  *)
(***************************************************************************)
RetryAlways(p) == retries[p] # 0 /\ UNCHANGED retries
Retry(p) == retries[p] # 0 /\ retries' = [retries EXCEPT ![p] = @ - 1]

CreateService(p) ==
  /\ pc[p] = "createService"
  /\ \/ /\ scm = "absent"
        /\ scm' = "present" /\ svc' = svc \cup {p}
        /\ Go(p, "startService") /\ UNCHANGED retries
     \/ /\ scm = "present" /\ Retry(p) /\ Go(p, "openService")
        /\ UNCHANGED <<scm, svc>>
     \/ /\ \/ scm = "present" /\ retries[p] = 0
           \/ scm = "marked"
           \/ "createService" \in May
        /\ Go(p, "closeManager") /\ UNCHANGED <<scm, svc, retries>>
  /\ UNCHANGED <<mgr, dev, orphan, early, driverVars>>

(***************************************************************************)
(* StartService loads the driver, unless it runs.  It may refuse a service *)
(* that is marked for deletion or whose driver is being stopped.           *)
(***************************************************************************)
StartService(p) ==
  /\ pc[p] = "startService" /\ drv \notin {"loading", "unloading"}
  /\ \/ /\ drv = "none"
        /\ drv' = "loading" /\ loader' = p /\ stage' = "device"
        /\ Go(p, "starting")
     \/ /\ drv # "none"
        /\ Go(p, "closeManager") /\ UNCHANGED <<drv, loader, stage>>
     \/ /\ scm = "marked" \/ drv = "stopping" \/ "startService" \in May
        /\ Go(p, "stop") /\ UNCHANGED <<drv, loader, stage>>
  /\ UNCHANGED <<retries, mgr, dev, svc, scm, orphan, early, res, sub, leftover, flights>>

(***************************************************************************)
(* The clean-up when the driver does not start: the service is stopped and *)
(* deleted.  (Mutant: it is only closed.)                                  *)
(***************************************************************************)
CleanUpClose == "closeService"
CleanUp == "delete"

StopDriver == drv' = IF drv = "running" THEN "stopping" ELSE drv

StopService(p) ==
  /\ pc[p] = "stop"
  /\ StopDriver /\ Go(p, CleanUp)
  /\ UNCHANGED <<retries, mgr, dev, svc, scm, orphan, early, loader, stage, res, sub,
                 leftover, flights>>

DeleteService(p) ==
  /\ pc[p] = "delete"
  /\ scm' = "marked" /\ orphan' = FALSE /\ Go(p, "closeService")
  /\ UNCHANGED <<retries, mgr, dev, svc, early, driverVars>>

(***************************************************************************)
(* CloseServiceHandle(service), at the end of a clean-up or, in            *)
(* WinDivertOpen, after the second CreateFile.  (Mutant: not if that       *)
(* failed.)                                                                *)
(***************************************************************************)
CloseServiceLate(p) == svc' = IF dev[p] = Nil THEN svc ELSE svc \ {p}
CloseServiceHandle(p) == svc' = svc \ {p}

CloseService(p) ==
  /\ pc[p] = "closeService"
  /\ CloseServiceHandle(p) /\ scm' = Entry(scm, svc', drv)
  /\ Go(p, IF p \in mgr THEN "closeManager"
           ELSE IF dev[p] = Nil THEN "idle" ELSE "layer")
  /\ UNCHANGED <<retries, mgr, dev, orphan, early, driverVars>>

CloseManager(p) ==
  /\ pc[p] = "closeManager"
  /\ mgr' = mgr \ {p} /\ retries' = [retries EXCEPT ![p] = 0]
  /\ Go(p, IF p \in svc THEN "device2" ELSE "idle")
  /\ UNCHANGED <<dev, svc, scm, orphan, early, driverVars>>

-----------------------------------------------------------------------------
(***************************************************************************)
(* The ioctls by which WinDivertOpen configures the handle and starts its  *)
(* filter; it closes the handle when one fails.  The driver cannot start   *)
(* a filter while the sub-layers of its callouts are not registered;       *)
(* whether DriverEntry is done does not matter.                            *)
(***************************************************************************)
IoControl(p, done, next) ==
  \/ /\ dev[p] # Dead /\ dev' = [dev EXCEPT ![p] = done] /\ Go(p, next)
  \/ /\ dev[p] = Dead \/ "ioctl" \in May
     /\ dev' = [dev EXCEPT ![p] = Nil] /\ Go(p, "idle")

Set(p, what, value, done, next) ==
  /\ pc[p] = what
  /\ IF value = "default" THEN Go(p, next) /\ UNCHANGED dev
     ELSE IoControl(p, done, next)
  /\ UNCHANGED <<retries, mgr, svc, scm, orphan, early, driverVars>>

SetLayer(p) ==
  Set(p, "layer", Asked[p].layer,
      With(Asked[p].layer, dev[p].flags, dev[p].priority, FALSE), "flags")
SetFlags(p) ==
  Set(p, "flags", Asked[p].flags,
      With(dev[p].layer, Asked[p].flags, dev[p].priority, FALSE), "priority")
SetPriority(p) ==
  Set(p, "priority", Asked[p].priority,
      With(dev[p].layer, dev[p].flags, Asked[p].priority, FALSE), "filter")

StartFilter(p) ==
  /\ pc[p] = "filter"
  /\ \/ /\ Uses[p] \subseteq sub
        /\ IoControl(p, With(dev[p].layer, dev[p].flags, dev[p].priority, TRUE),
                     "opened")
     \/ /\ ~(Uses[p] \subseteq sub)
        /\ dev' = [dev EXCEPT ![p] = Nil] /\ Go(p, "idle")
  /\ early' = IF pc'[p] = "opened" /\ "sublayers" \notin res
              THEN early \cup {p} ELSE early
  /\ UNCHANGED <<retries, mgr, svc, scm, orphan, driverVars>>

(***************************************************************************)
(* The application sends packets on its handle (see Requests) and closes   *)
(* it; each packet is in the network stack for some time.  windivert_write *)
(* allocates from the pools and injects through the handle of the packet's *)
(* IP version; without them, or while the handle is being destroyed,       *)
(* nothing is injected.                                                    *)
(***************************************************************************)
Send(p, v) ==
  /\ pc[p] = "opened" /\ dev[p] # Dead /\ flights[v] < MaxFlights
  /\ {v} \cup Pools \subseteq res /\ ~(drv = "unloading" /\ stage = v)
  /\ flights' = [flights EXCEPT ![v] = @ + 1]
  /\ UNCHANGED <<openVars, svc, scm, orphan, early, drv, loader, stage, res, sub,
                 leftover>>

InjectComplete(v) ==
  /\ flights[v] > 0 /\ flights' = [flights EXCEPT ![v] = @ - 1]
  /\ UNCHANGED <<openVars, svc, scm, orphan, early, drv, loader, stage, res, sub,
                 leftover>>

Close(p) ==
  /\ pc[p] = "opened"
  /\ dev' = [dev EXCEPT ![p] = Nil] /\ Go(p, "idle")
  /\ early' = early \ {p}
  /\ UNCHANGED <<retries, mgr, svc, scm, orphan, driverVars>>

(***************************************************************************)
(* A process is killed: the system closes its handles.  Another takes its  *)
(* place.                                                                  *)
(***************************************************************************)
Kill(p) ==
  /\ pc[p] # "idle" /\ Go(p, "idle")
  /\ mgr' = mgr \ {p} /\ svc' = svc \ {p}
  /\ dev' = [dev EXCEPT ![p] = Nil]
  /\ retries' = [retries EXCEPT ![p] = 0]
  /\ scm' = Entry(scm, svc', drv)
  /\ orphan' = (orphan \/ (p \in svc /\ scm = "present"))
  /\ early' = early \ {p}
  /\ UNCHANGED driverVars

-----------------------------------------------------------------------------
(***************************************************************************)
(* DriverEntry: the order of its calls that create something.  The six     *)
(* sub-layers are added in one transaction, and appear when it commits     *)
(* (stage "sublayers").  (Mutant: the sub-layers are registered before the *)
(* pools.)                                                                 *)
(***************************************************************************)
CreatedNextEarly ==
  [device |-> "inject4", inject4 |-> "inject6", inject6 |-> "engine",
   engine |-> "in4", in4 |-> "out4", out4 |-> "in6", in6 |-> "out6",
   out6 |-> "forward4", forward4 |-> "forward6", forward6 |-> "sublayers",
   sublayers |-> "nblPool", nblPool |-> "nbPool", nbPool |-> "end"]
CreatedNext ==
  [device |-> "inject4", inject4 |-> "inject6", inject6 |-> "nblPool",
   nblPool |-> "nbPool", nbPool |-> "engine", engine |-> "in4",
   in4 |-> "out4", out4 |-> "in6", in6 |-> "out6", out6 |-> "forward4",
   forward4 |-> "forward6", forward6 |-> "sublayers", sublayers |-> "end"]

(***************************************************************************)
(* windivert_driver_unload, also at the end of a DriverEntry that failed.  *)
(* The injection handles go first, since destroying one waits for its      *)
(* packets in the network stack.  (Mutant: a pool goes before one.)        *)
(***************************************************************************)
DestroyedNextLate ==
  [begin |-> "inject4", inject4 |-> "nblPool", nblPool |-> "inject6",
   inject6 |-> "nbPool", nbPool |-> "engine", engine |-> "end"]
DestroyedNext ==
  [begin |-> "inject4", inject4 |-> "inject6", inject6 |-> "nblPool",
   nblPool |-> "nbPool", nbPool |-> "engine", engine |-> "end"]

(***************************************************************************)
(* One call of DriverEntry succeeds, or fails and everything is undone; a  *)
(* sub-layer that is registered already cannot be added, and the           *)
(* transaction is then aborted.                                            *)
(***************************************************************************)
DriverEntry ==
  /\ drv = "loading" /\ stage # "end"
  /\ \/ /\ stage \notin sub
        /\ stage' = CreatedNext[stage]
        /\ res' = res \cup ({stage} \ SubLayers)
        /\ sub' = IF stage = "sublayers" THEN SubLayers ELSE sub
        /\ UNCHANGED <<drv, leftover>>
     \/ /\ stage \in sub \/ "load" \in May
        /\ drv' = "unloading" /\ stage' = DestroyedNext.begin
        /\ UNCHANGED <<res, sub, leftover>>
  /\ UNCHANGED <<openVars, svc, scm, orphan, early, loader, flights>>

Loaded ==
  /\ drv = "loading" /\ stage = "end"
  /\ drv' = "running" /\ loader' = Nil
  /\ pc' = IF pc[loader] = "starting"
           THEN [pc EXCEPT ![loader] = "closeManager"] ELSE pc
  /\ UNCHANGED <<retries, mgr, dev, svc, scm, orphan, early, stage, res, sub, leftover, flights>>

(***************************************************************************)
(* A driver that is stopped unloads when no handle to its device is open.  *)
(***************************************************************************)
AdminStop ==
  /\ drv = "running" /\ StopDriver
  /\ UNCHANGED <<openVars, svc, scm, orphan, early, loader, stage, res, sub, leftover, flights>>

Unload ==
  /\ drv = "stopping" /\ \A p \in Openers : dev[p] \in {Nil, Dead}
  /\ drv' = "unloading" /\ stage' = DestroyedNext.begin
  /\ UNCHANGED <<openVars, svc, scm, orphan, early, loader, res, sub, leftover, flights>>

(***************************************************************************)
(* The transaction that removes the sub-layers, before the handle of the   *)
(* filter engine is closed: it deletes all but some, which stay because    *)
(* the platform does not delete them, or, if they are all, because the     *)
(* transaction does not begin or commit.  (Mutant: the sub-layers are      *)
(* forgotten.)                                                             *)
(***************************************************************************)
RemoveNone == UNCHANGED <<sub, leftover>>
RemoveSubLayers ==
  \E stay \in Stay : sub' = sub \cap stay /\ leftover' = (sub' # {})

DriverUnload ==
  /\ drv = "unloading" /\ stage # "end"
  /\ stage \in Versions \cap res => flights[stage] = 0
  /\ \/ /\ stage = "engine" /\ stage \in res /\ RemoveSubLayers
        /\ res' = res \ {"engine", "sublayers"}
     \/ /\ stage # "engine" \/ stage \notin res
        /\ res' = res \ {stage} /\ UNCHANGED <<sub, leftover>>
  /\ stage' = DestroyedNext[stage]
  /\ UNCHANGED <<openVars, svc, scm, orphan, early, drv, loader, flights>>

Unloaded ==
  /\ drv = "unloading" /\ stage = "end"
  /\ drv' = "none" /\ loader' = Nil /\ stage' = "device"
  /\ res' = res \ {"device"}
  /\ scm' = Entry(scm, svc, "none")
  /\ pc' = IF loader # Nil /\ pc[loader] = "starting"
           THEN [pc EXCEPT ![loader] = "stop"] ELSE pc
  /\ dev' = [p \in Openers |-> IF dev[p] = Nil THEN Nil ELSE Dead]
  /\ UNCHANGED <<retries, mgr, svc, orphan, early, sub, leftover, flights>>

-----------------------------------------------------------------------------
OpenStep(p) ==
  \/ OpenDevice(p) \/ OpenDeviceAgain(p)
  \/ OpenSCManager(p) \/ OpenService(p) \/ CreateService(p)
  \/ StopService(p) \/ DeleteService(p) \/ CloseService(p) \/ CloseManager(p)
  \/ SetLayer(p) \/ SetFlags(p) \/ SetPriority(p) \/ StartFilter(p)

DriverStep == DriverEntry \/ Loaded \/ Unload \/ DriverUnload \/ Unloaded

Next ==
  \/ \E p \in Openers :
       Open(p) \/ OpenStep(p) \/ StartService(p) \/ Close(p) \/ Kill(p)
  \/ \E v \in Versions : InjectComplete(v) \/ \E p \in Openers : Send(p, v)
  \/ DriverStep \/ AdminStop

Spec == Init /\ [][Next]_vars

(***************************************************************************)
(* Threads and the driver keep running; the service manager serves every   *)
(* StartService in its turn, however often others load the driver in       *)
(* between; every injected packet leaves the network stack.                *)
(***************************************************************************)
FairSpec ==
  /\ Spec
  /\ \A p \in Openers : WF_vars(OpenStep(p)) /\ SF_vars(StartService(p))
  /\ WF_vars(DriverStep) /\ \A v \in Versions : WF_vars(InjectComplete(v))

-----------------------------------------------------------------------------
(***************************************************************************)
(* Types of all variables: in particular a stage of DriverEntry is never   *)
(* taken for one of the unload, and the retries do not run below zero.     *)
(***************************************************************************)
TypeOK ==
  /\ pc \in [Openers -> Points]
  /\ retries \in [Openers -> 0..2]
  /\ mgr \subseteq Openers /\ svc \subseteq Openers
  /\ dev \in [Openers -> Context \cup {Nil, Dead}]
  /\ scm \in {"absent", "present", "marked"}
  /\ drv \in DriverStates
  /\ loader \in Openers \cup {Nil}
  /\ stage \in IF drv = "unloading" THEN Versions \cup Pools \cup {"engine", "end"}
               ELSE Resources \cup SubLayers \cup {"end"}
  /\ res \subseteq Resources /\ sub \subseteq SubLayers
  /\ leftover \in BOOLEAN /\ early \subseteq Openers
  /\ flights \in [Versions -> 0..MaxFlights]
  /\ orphan \in BOOLEAN

(***************************************************************************)
(* A handle that WinDivertOpen has returned works: its filter is started   *)
(* and it has the layer, flags and priority that were asked for, although  *)
(* WinDivertOpen does not set those that it takes for the driver's         *)
(* defaults.  Only an early one may find the driver gone, when the rest of *)
(* DriverEntry has failed.                                                 *)
(***************************************************************************)
OpenedAsAsked ==
  \A p \in Openers : pc[p] = "opened" =>
    \/ dev[p] = With(Asked[p].layer, Asked[p].flags, Asked[p].priority, TRUE)
    \/ dev[p] = Dead /\ p \in early

(***************************************************************************)
(* A handle can send only while the driver has its injection handles and   *)
(* its pools, even one that got in while DriverEntry was still running or  *)
(* that is open when the driver is stopped.  The exception are the early   *)
(* ones: a filter without callouts needs no sub-layer to start, and where  *)
(* an unload left sub-layers behind, others find theirs.                   *)
(***************************************************************************)
SendersHaveResources ==
  \A p \in Openers : pc[p] = "opened" =>
    \/ Versions \cup Pools \subseteq res
    \/ p \in early

(***************************************************************************)
(* A packet in the network stack keeps the pools that it must be given     *)
(* back to, and its injection handle, after its handle was closed and      *)
(* while the driver is unloaded, also when DriverEntry fails.              *)
(***************************************************************************)
PoolsOutliveFlights ==
  \A v \in Versions : flights[v] > 0 => {v} \cup Pools \subseteq res

(***************************************************************************)
(* Whichever call of DriverEntry failed, and however the driver was        *)
(* stopped, it leaves nothing that it created, and no sub-layer in the way *)
(* of the next load unless the platform did not remove it.                 *)
(***************************************************************************)
LoadUndone ==
  /\ drv = "none" => res = {}
  /\ "sublayers" \notin res /\ ~leftover => sub = {}

(***************************************************************************)
(* The service is registered for good at no time: it is marked for         *)
(* deletion by an opener that is still at work, whoever else uses it and   *)
(* whether or not the driver started, unless a process was killed; and     *)
(* then by the next one that finds the driver not running.                 *)
(***************************************************************************)
ServiceTemporary ==
  scm = "present" => orphan \/ \E p \in svc : pc[p] \notin Over

(***************************************************************************)
(* When the driver is not loaded and no WinDivertOpen is at work, the      *)
(* service is gone.                                                        *)
(***************************************************************************)
Uninstalled ==
  drv = "none" /\ (\A p \in Openers : pc[p] \in Over) =>
    scm = "absent" \/ (orphan /\ scm = "present")

(***************************************************************************)
(* Every WinDivertOpen returns, however the openers, the loading and the   *)
(* stopping of the driver interleave.                                      *)
(***************************************************************************)
OpenReturns == \A p \in Openers : pc[p] \notin Over ~> pc[p] \in Over
=============================================================================
