------------------------ MODULE DriverServiceProofs ------------------------
(***************************************************************************)
(* Proofs about DriverService, for any number of openers and whatever they *)
(* ask for.                                                                *)
(***************************************************************************)
EXTENDS DriverService, TLAPS

-----------------------------------------------------------------------------
(***************************************************************************)
(* What the driver knows of a handle, as WinDivertOpen goes on.            *)
(***************************************************************************)
Configured(p) ==
  /\ pc[p] \notin {"flags", "priority", "filter", "opened"} =>
       dev[p] \in {Nil, Dead, Fresh}
  /\ pc[p] = "layer" => dev[p] # Nil
  /\ pc[p] = "flags" =>
       dev[p] \in {Dead, With(Asked[p].layer, "default", "default", FALSE)}
  /\ pc[p] = "priority" =>
       dev[p] \in {Dead, With(Asked[p].layer, Asked[p].flags, "default", FALSE)}
  /\ pc[p] = "filter" =>
       dev[p] \in {Dead, With(Asked[p].layer, Asked[p].flags,
                              Asked[p].priority, FALSE)}
  /\ pc[p] = "opened" =>
       dev[p] \in {Dead, With(Asked[p].layer, Asked[p].flags,
                              Asked[p].priority, TRUE)}

HandleInv == TypeOK /\ \A p \in Openers : Configured(p)

Values == {"default", "other"}

(***************************************************************************)
(* A context of an opener is neither no context nor a deleted one.         *)
(***************************************************************************)
LEMMA ContextFacts ==
  ASSUME NEW l \in Values, NEW f \in Values, NEW r \in Values, NEW o \in BOOLEAN
  PROVE  /\ With(l, f, r, o) \in Context
         /\ With(l, f, r, o) # Nil /\ With(l, f, r, o) # Dead
<1>1. With(l, f, r, o) \in Context
  BY DEF With, Context, Values
<1>. QED BY <1>1, ServiceAssumption DEF With

(***************************************************************************)
(* windivert_create makes a context with the default settings, not         *)
(* started.                                                                *)
(***************************************************************************)
LEMMA FreshFacts ==
  Fresh = With("default", "default", "default", FALSE) /\ Fresh \in Context
BY ContextFacts DEF Fresh, Values

(***************************************************************************)
(* The settings an opener asks for are settings a context can have.        *)
(***************************************************************************)
LEMMA AskedFacts ==
  ASSUME NEW p \in Openers
  PROVE  /\ Asked[p].layer \in Values /\ Asked[p].flags \in Values
         /\ Asked[p].priority \in Values
BY ServiceAssumption DEF Configuration, Values

(***************************************************************************)
(* HandleInv holds initially.                                              *)
(***************************************************************************)
LEMMA InitHandle == Init => HandleInv
<1>. SUFFICES ASSUME Init PROVE HandleInv
  OBVIOUS
<1>1. orphan \in BOOLEAN /\ leftover \in BOOLEAN
  BY DEF Init
<1>2. flights \in [Versions -> 0..MaxFlights]
  BY ServiceAssumption DEF Init
<1>3. TypeOK
  BY <1>1, <1>2, ServiceAssumption
  DEF Init, TypeOK, Points, Over, DriverStates, Resources
<1>. QED BY <1>3 DEF Init, HandleInv, Configured

(***************************************************************************)
(* What an opener does to others.                                          *)
(***************************************************************************)
Alone(p) ==
  /\ pc' \in [Openers -> Points]
  /\ dev' \in [Openers -> Context \cup {Nil, Dead}]
  /\ \A q \in Openers \ {p} : pc'[q] = pc[q] /\ dev'[q] = dev[q]

(***************************************************************************)
(* A step about one opener's handle keeps HandleInv, if that opener is     *)
(* still configured as it should be.                                       *)
(***************************************************************************)
LEMMA OthersConfigured ==
  ASSUME HandleInv, NEW p \in Openers, Alone(p), Configured(p)', TypeOK'
  PROVE  HandleInv'
<1>1. ASSUME NEW q \in Openers \ {p} PROVE Configured(q)'
  BY DEF HandleInv, Alone, Configured
<1>. QED BY <1>1 DEF HandleInv

(***************************************************************************)
(* The steps that leave the handle to the device alone.                    *)
(***************************************************************************)
LEMMA InstallHandle ==
  ASSUME HandleInv, NEW p \in Openers,
         \/ Open(p) \/ OpenSCManager(p) \/ OpenService(p) \/ CreateService(p)
         \/ StopService(p) \/ DeleteService(p) \/ CloseService(p)
         \/ CloseManager(p) \/ StartService(p) \/ \E v \in Versions : Send(p, v)
  PROVE  HandleInv'
<1>. USE DEF HandleInv, TypeOK, Points, Over, Go
<1>1. CASE Open(p)
  <2>1. TypeOK' /\ Alone(p)
    BY <1>1 DEF Open, driverVars, Alone
  <2>. QED BY <1>1, <2>1, OthersConfigured DEF Open, Configured
<1>2. CASE OpenSCManager(p)
  <2>1. TypeOK' /\ Alone(p)
    BY <1>2 DEF OpenSCManager, driverVars, Alone
  <2>. QED BY <1>2, <2>1, OthersConfigured DEF OpenSCManager, Configured
<1>3. CASE OpenService(p)
  <2>1. TypeOK' /\ Alone(p)
    BY <1>3 DEF OpenService, driverVars, Alone
  <2>. QED BY <1>3, <2>1, OthersConfigured DEF OpenService, Configured
<1>4. CASE CreateService(p)
  <2>1. TypeOK' /\ Alone(p)
    BY <1>4 DEF CreateService, Retry, driverVars, Alone
  <2>. QED BY <1>4, <2>1, OthersConfigured DEF CreateService, Configured
<1>5. CASE StopService(p)
  <2>1. TypeOK' /\ Alone(p)
    BY <1>5 DEF StopService, StopDriver, CleanUp, DriverStates, Alone
  <2>. QED BY <1>5, <2>1, OthersConfigured DEF StopService, CleanUp, Configured
<1>6. CASE DeleteService(p)
  <2>1. TypeOK' /\ Alone(p)
    BY <1>6 DEF DeleteService, driverVars, Alone
  <2>. QED BY <1>6, <2>1, OthersConfigured DEF DeleteService, Configured
<1>7. CASE CloseService(p)
  <2>1. TypeOK' /\ Alone(p)
    BY <1>7 DEF CloseService, CloseServiceHandle, Entry, driverVars, Alone
  <2>. QED BY <1>7, <2>1, OthersConfigured DEF CloseService, Configured
<1>8. CASE CloseManager(p)
  <2>1. TypeOK' /\ Alone(p)
    BY <1>8 DEF CloseManager, driverVars, Alone
  <2>. QED BY <1>8, <2>1, OthersConfigured DEF CloseManager, Configured
<1>9. CASE StartService(p)
  <2>1. TypeOK' /\ Alone(p)
    BY <1>9 DEF StartService, DriverStates, Resources, Alone
  <2>. QED BY <1>9, <2>1, OthersConfigured DEF StartService, Configured
<1>10. CASE \E v \in Versions : Send(p, v)
  <2>1. flights' \in [Versions -> 0..MaxFlights]
    BY <1>10, ServiceAssumption DEF Send
  <2>2. TypeOK' /\ Alone(p)
    BY <1>10, <2>1 DEF Send, openVars, Alone
  <2>. QED BY <1>10, <2>2, OthersConfigured DEF Send, openVars, Configured
<1>. QED BY <1>1, <1>2, <1>3, <1>4, <1>5, <1>6, <1>7, <1>8, <1>9, <1>10

(***************************************************************************)
(* The steps that open, configure or close it.                             *)
(***************************************************************************)
LEMMA DeviceHandle ==
  ASSUME HandleInv, NEW p \in Openers,
         OpenDevice(p) \/ OpenDeviceAgain(p) \/ Close(p) \/ Kill(p)
  PROVE  HandleInv'
<1>. USE DEF HandleInv, TypeOK, Points, Over, Go
<1>1. CASE OpenDevice(p)
  <2>1. TypeOK' /\ Alone(p)
    BY <1>1, FreshFacts DEF OpenDevice, CreateFile, CreateRefused, driverVars,
       Alone
  <2>2. Configured(p)'
    BY <1>1, FreshFacts, ServiceAssumption
    DEF OpenDevice, CreateFile, CreateRefused, Configured
  <2>. QED BY <2>1, <2>2, OthersConfigured
<1>2. CASE OpenDeviceAgain(p)
  <2>1. TypeOK' /\ Alone(p)
    BY <1>2, FreshFacts DEF OpenDeviceAgain, CreateFile, CreateRefused,
       driverVars, Alone
  <2>2. Configured(p)'
    BY <1>2 DEF OpenDeviceAgain, CreateFile, CreateRefused, Configured
  <2>. QED BY <2>1, <2>2, OthersConfigured
<1>3. CASE Close(p)
  <2>1. TypeOK' /\ Alone(p)
    BY <1>3 DEF Close, driverVars, Alone
  <2>. QED BY <1>3, <2>1, OthersConfigured DEF Close, Configured
<1>4. CASE Kill(p)
  <2>1. orphan' \in BOOLEAN
    BY <1>4 DEF Kill
  <2>2. scm' \in {"absent", "present", "marked"}
    BY <1>4 DEF Kill, Entry
  <2>3. TypeOK' /\ Alone(p)
    BY <1>4, <2>1, <2>2 DEF Kill, driverVars, Alone
  <2>. QED BY <1>4, <2>3, OthersConfigured DEF Kill, Configured
<1>. QED BY <1>1, <1>2, <1>3, <1>4

(***************************************************************************)
(* The ioctls of WinDivertOpen keep HandleInv.                             *)
(***************************************************************************)
LEMMA ConfigureHandle ==
  ASSUME HandleInv, NEW p \in Openers,
         SetLayer(p) \/ SetFlags(p) \/ SetPriority(p) \/ StartFilter(p)
  PROVE  HandleInv'
<1>. USE DEF HandleInv, TypeOK, Points, Over, Go
<1>1. CASE SetLayer(p)
  <2>. DEFINE c == With("default", "default", "default", FALSE)
              d == With(Asked[p].layer, "default", "default", FALSE)
  <2>1. pc[p] = "layer" /\ dev[p] \in {Dead, c}
    BY <1>1, FreshFacts DEF SetLayer, Set, Configured
  <2>2. /\ c \in Context /\ d \in Context /\ c # Dead /\ d # Dead
        /\ With(Asked[p].layer, c.flags, c.priority, FALSE) = d
        /\ Asked[p].layer = "default" => c = d
    <3>1. c \in Context /\ d \in Context /\ c # Dead /\ d # Dead
      BY ContextFacts, AskedFacts DEF Values
    <3>2. With(Asked[p].layer, c.flags, c.priority, FALSE) = d
      BY DEF With
    <3>3. Asked[p].layer = "default" => c = d
      BY AskedFacts DEF With
    <3>. QED BY <3>1, <3>2, <3>3
  <2>. HIDE DEF c, d
  <2>3. \/ pc' = [pc EXCEPT ![p] = "flags"] /\ dev'[p] \in {Dead, d}
           /\ (dev' = dev \/ dev' = [dev EXCEPT ![p] = d])
        \/ pc' = [pc EXCEPT ![p] = "idle"] /\ dev' = [dev EXCEPT ![p] = Nil]
    BY <1>1, <2>1, <2>2 DEF SetLayer, Set, IoControl
  <2>4. Alone(p)
    BY <2>2, <2>3 DEF Alone
  <2>5. TypeOK'
    BY <1>1, <2>4 DEF SetLayer, Set, Alone, driverVars
  <2>6. pc'[p] \in {"flags", "idle"}
        /\ (pc'[p] = "flags" => dev'[p] \in {Dead, d})
        /\ (pc'[p] = "idle" => dev'[p] = Nil)
    BY <2>3
  <2>7. Configured(p)'
    BY <2>6 DEF Configured, d
  <2>. QED BY <2>4, <2>5, <2>7, OthersConfigured
<1>2. CASE SetFlags(p)
  <2>. DEFINE c == With(Asked[p].layer, "default", "default", FALSE)
              d == With(Asked[p].layer, Asked[p].flags, "default", FALSE)
  <2>1. pc[p] = "flags" /\ dev[p] \in {Dead, c}
    BY <1>2, FreshFacts DEF SetFlags, Set, Configured
  <2>2. /\ c \in Context /\ d \in Context /\ c # Dead /\ d # Dead
        /\ With(c.layer, Asked[p].flags, c.priority, FALSE) = d
        /\ Asked[p].flags = "default" => c = d
    <3>1. c \in Context /\ d \in Context /\ c # Dead /\ d # Dead
      BY ContextFacts, AskedFacts DEF Values
    <3>2. With(c.layer, Asked[p].flags, c.priority, FALSE) = d
      BY DEF With
    <3>3. Asked[p].flags = "default" => c = d
      BY AskedFacts DEF With
    <3>. QED BY <3>1, <3>2, <3>3
  <2>. HIDE DEF c, d
  <2>3. \/ pc' = [pc EXCEPT ![p] = "priority"] /\ dev'[p] \in {Dead, d}
           /\ (dev' = dev \/ dev' = [dev EXCEPT ![p] = d])
        \/ pc' = [pc EXCEPT ![p] = "idle"] /\ dev' = [dev EXCEPT ![p] = Nil]
    BY <1>2, <2>1, <2>2 DEF SetFlags, Set, IoControl
  <2>4. Alone(p)
    BY <2>2, <2>3 DEF Alone
  <2>5. TypeOK'
    BY <1>2, <2>4 DEF SetFlags, Set, Alone, driverVars
  <2>6. pc'[p] \in {"priority", "idle"}
        /\ (pc'[p] = "priority" => dev'[p] \in {Dead, d})
        /\ (pc'[p] = "idle" => dev'[p] = Nil)
    BY <2>3
  <2>7. Configured(p)'
    BY <2>6 DEF Configured, d
  <2>. QED BY <2>4, <2>5, <2>7, OthersConfigured
<1>3. CASE SetPriority(p)
  <2>. DEFINE c == With(Asked[p].layer, Asked[p].flags, "default", FALSE)
              d == With(Asked[p].layer, Asked[p].flags, Asked[p].priority, FALSE)
  <2>1. pc[p] = "priority" /\ dev[p] \in {Dead, c}
    BY <1>3, FreshFacts DEF SetPriority, Set, Configured
  <2>2. /\ c \in Context /\ d \in Context /\ c # Dead /\ d # Dead
        /\ With(c.layer, c.flags, Asked[p].priority, FALSE) = d
        /\ Asked[p].priority = "default" => c = d
    <3>1. c \in Context /\ d \in Context /\ c # Dead /\ d # Dead
      BY ContextFacts, AskedFacts DEF Values
    <3>2. With(c.layer, c.flags, Asked[p].priority, FALSE) = d
      BY DEF With
    <3>3. Asked[p].priority = "default" => c = d
      BY AskedFacts DEF With
    <3>. QED BY <3>1, <3>2, <3>3
  <2>. HIDE DEF c, d
  <2>3. \/ pc' = [pc EXCEPT ![p] = "filter"] /\ dev'[p] \in {Dead, d}
           /\ (dev' = dev \/ dev' = [dev EXCEPT ![p] = d])
        \/ pc' = [pc EXCEPT ![p] = "idle"] /\ dev' = [dev EXCEPT ![p] = Nil]
    BY <1>3, <2>1, <2>2 DEF SetPriority, Set, IoControl
  <2>4. Alone(p)
    BY <2>2, <2>3 DEF Alone
  <2>5. TypeOK'
    BY <1>3, <2>4 DEF SetPriority, Set, Alone, driverVars
  <2>6. pc'[p] \in {"filter", "idle"}
        /\ (pc'[p] = "filter" => dev'[p] \in {Dead, d})
        /\ (pc'[p] = "idle" => dev'[p] = Nil)
    BY <2>3
  <2>7. Configured(p)'
    BY <2>6 DEF Configured, d
  <2>. QED BY <2>4, <2>5, <2>7, OthersConfigured
<1>4. CASE StartFilter(p)
  <2>. DEFINE c == With(Asked[p].layer, Asked[p].flags, Asked[p].priority, FALSE)
              d == With(Asked[p].layer, Asked[p].flags, Asked[p].priority, TRUE)
  <2>1. pc[p] = "filter" /\ dev[p] \in {Dead, c}
    BY <1>4 DEF StartFilter, Configured
  <2>2. d \in Context /\ With(c.layer, c.flags, c.priority, TRUE) = d
    <3>1. d \in Context
      BY ContextFacts, AskedFacts
    <3>2. With(c.layer, c.flags, c.priority, TRUE) = d
      BY DEF With
    <3>. QED BY <3>1, <3>2
  <2>. HIDE DEF c, d
  <2>3. \/ pc' = [pc EXCEPT ![p] = "opened"] /\ dev' = [dev EXCEPT ![p] = d]
        \/ pc' = [pc EXCEPT ![p] = "idle"] /\ dev' = [dev EXCEPT ![p] = Nil]
    BY <1>4, <2>1, <2>2 DEF StartFilter, IoControl
  <2>4. Alone(p)
    BY <2>2, <2>3 DEF Alone
  <2>5. TypeOK'
    BY <1>4, <2>4 DEF StartFilter, Alone, driverVars
  <2>6. Configured(p)'
    BY <2>3 DEF Configured, d
  <2>. QED BY <2>4, <2>5, <2>6, OthersConfigured
<1>. QED BY <1>1, <1>2, <1>3, <1>4

(***************************************************************************)
(* The steps of the driver.                                                *)
(***************************************************************************)
LEMMA Stages ==
  /\ \A x \in Resources \cup SubLayers :
       CreatedNext[x] \in Resources \cup SubLayers \cup {"end"}
  /\ \A x \in Versions \cup Pools \cup {"engine"} :
       DestroyedNext[x] \in Versions \cup Pools \cup {"engine", "end"}
  /\ DestroyedNext.begin = "inject4"
<1>1. ASSUME NEW x \in Resources \cup SubLayers
      PROVE  CreatedNext[x] \in Resources \cup SubLayers \cup {"end"}
  BY DEF CreatedNext, Resources, SubLayers, Versions, Pools
<1>2. ASSUME NEW x \in Versions \cup Pools \cup {"engine"}
      PROVE  DestroyedNext[x] \in Versions \cup Pools \cup {"engine", "end"}
  BY DEF DestroyedNext, Versions, Pools
<1>. QED BY <1>1, <1>2 DEF DestroyedNext

(***************************************************************************)
(* Loading, unloading, an administrator's stop and completed injections    *)
(* keep HandleInv.                                                         *)
(***************************************************************************)
LEMMA DriverHandle ==
  ASSUME HandleInv, DriverStep \/ AdminStop \/ \E v \in Versions : InjectComplete(v)
  PROVE  HandleInv'
<1>. USE DEF HandleInv, TypeOK
<1>1. CASE DriverEntry
  <2>1. stage \in Resources \cup SubLayers
    BY <1>1 DEF DriverEntry
  <2>2. res' \subseteq Resources /\ sub' \subseteq SubLayers
    BY <1>1, <2>1 DEF DriverEntry
  <2>3. \/ drv' = "loading" /\ stage' \in Resources \cup SubLayers \cup {"end"}
        \/ drv' = "unloading" /\ stage' = "inject4"
    BY <1>1, <2>1, Stages DEF DriverEntry
  <2>4. leftover' = leftover
    BY <1>1 DEF DriverEntry
  <2>. QED BY <1>1, <2>2, <2>3, <2>4
       DEF DriverEntry, DriverStates, openVars, Configured, Versions
<1>2. CASE Loaded
  <2>1. pc' \in [Openers -> Points] /\ loader' \in Openers \cup {Nil}
    BY <1>2 DEF Loaded, Points, Over
  <2>2. \A p \in Openers :
          pc'[p] = pc[p] \/ (pc[p] = "starting" /\ pc'[p] = "closeManager")
    BY <1>2 DEF Loaded
  <2>3. \A p \in Openers : Configured(p)'
    BY <1>2, <2>2 DEF Loaded, Configured
  <2>. QED BY <1>2, <2>1, <2>3 DEF Loaded, DriverStates
<1>3. CASE Unload
  BY <1>3, Stages DEF Unload, DriverStates, Versions, openVars, Configured
<1>4. CASE DriverUnload
  <2>1. stage' \in Versions \cup Pools \cup {"engine", "end"}
    <3>1. stage \in Versions \cup Pools \cup {"engine"}
      BY <1>4 DEF DriverUnload
    <3>. QED BY <1>4, <3>1, Stages DEF DriverUnload
  <2>2. res' \subseteq Resources /\ sub' \subseteq SubLayers
    BY <1>4 DEF DriverUnload, RemoveSubLayers
  <2>3. leftover' \in BOOLEAN
    BY <1>4 DEF DriverUnload, RemoveSubLayers
  <2>. QED BY <1>4, <2>1, <2>2, <2>3 DEF DriverUnload, openVars, Configured
<1>5. CASE Unloaded
  <2>1. /\ pc' \in [Openers -> Points]
        /\ dev' \in [Openers -> Context \cup {Nil, Dead}]
        /\ scm' \in {"absent", "present", "marked"}
    BY <1>5 DEF Unloaded, Entry, Points, Over
  <2>2. \A p \in Openers :
          /\ pc'[p] = pc[p] \/ (pc[p] = "starting" /\ pc'[p] = "stop")
          /\ dev'[p] = IF dev[p] = Nil THEN Nil ELSE Dead
    BY <1>5 DEF Unloaded
  <2>3. \A p \in Openers : Configured(p)'
    BY <2>2, ServiceAssumption DEF Configured
  <2>. QED BY <1>5, <2>1, <2>3 DEF Unloaded, DriverStates, Resources
<1>6. CASE AdminStop
  <2>1. drv' = "stopping" /\ stage \in Resources \cup SubLayers \cup {"end"}
    BY <1>6 DEF AdminStop, StopDriver
  <2>. QED BY <1>6, <2>1 DEF AdminStop, DriverStates, openVars, Configured
<1>7. CASE \E v \in Versions : InjectComplete(v)
  <2>1. flights' \in [Versions -> 0..MaxFlights]
    BY <1>7, ServiceAssumption DEF InjectComplete
  <2>. QED BY <1>7, <2>1 DEF InjectComplete, openVars, Configured
<1>. QED BY <1>1, <1>2, <1>3, <1>4, <1>5, <1>6, <1>7 DEF DriverStep

(***************************************************************************)
(* The state of the model is well formed, and every handle has in the      *)
(* driver what WinDivertOpen has set so far.                               *)
(***************************************************************************)
THEOREM HandleInvHolds == Spec => []HandleInv
<1>1. HandleInv /\ UNCHANGED vars => HandleInv'
  BY DEF HandleInv, TypeOK, Configured, vars, openVars, driverVars
<1>2. HandleInv /\ [Next]_vars => HandleInv'
  BY <1>1, InstallHandle, DeviceHandle, ConfigureHandle, DriverHandle
  DEF Next, OpenStep
<1>. QED BY <1>2, InitHandle, PTL DEF Spec

(***************************************************************************)
(* The state of the model is well formed.                                  *)
(***************************************************************************)
THEOREM TypeCorrect == Spec => []TypeOK
<1>1. HandleInv => TypeOK
  BY DEF HandleInv
<1>. QED BY <1>1, HandleInvHolds, PTL

-----------------------------------------------------------------------------
(***************************************************************************)
(* Who holds the service, and what becomes of it.                          *)
(***************************************************************************)
Holding == {"startService", "starting", "stop", "delete", "closeService",
            "device2"}

ServiceInv ==
  /\ svc \subseteq Openers
  /\ \A p \in Openers : pc[p] \in Holding => p \in svc
  /\ \A p \in svc : pc[p] \in Holding \cup {"closeManager"}
  /\ scm \in {"absent", "present", "marked"}
  /\ \A p \in Openers : pc[p] = "closeService" => scm = "marked"
  /\ scm = "absent" => svc = {}
  /\ scm = "present" => orphan \/ svc # {}
  /\ scm = "marked" => svc # {} \/ drv # "none"
  /\ orphan => scm = "present"

(***************************************************************************)
(* ServiceInv holds initially.                                             *)
(***************************************************************************)
LEMMA InitService == Init => ServiceInv
BY DEF Init, ServiceInv, Holding

(***************************************************************************)
(* The steps of a process keep ServiceInv.                                 *)
(***************************************************************************)
LEMMA OpenerService ==
  ASSUME HandleInv, ServiceInv, NEW p \in Openers,
         Open(p) \/ OpenStep(p) \/ StartService(p) \/ Close(p) \/ Kill(p)
         \/ \E v \in Versions : Send(p, v)
  PROVE  ServiceInv'
<1>. pc \in [Openers -> Points]
  BY DEF HandleInv, TypeOK
<1>. USE DEF ServiceInv, Holding, Go
<1>1. CASE Open(p)
  BY <1>1 DEF Open, driverVars
<1>2. CASE OpenDevice(p)
  BY <1>2 DEF OpenDevice, driverVars
<1>3. CASE OpenDeviceAgain(p)
  BY <1>3 DEF OpenDeviceAgain, driverVars
<1>4. CASE OpenSCManager(p)
  BY <1>4 DEF OpenSCManager, driverVars
<1>5. CASE OpenService(p)
  BY <1>5 DEF OpenService, driverVars
<1>6. CASE CreateService(p)
  BY <1>6 DEF CreateService, driverVars
<1>7. CASE StopService(p)
  BY <1>7 DEF StopService, StopDriver, CleanUp
<1>8. CASE DeleteService(p)
  BY <1>8 DEF DeleteService, driverVars
<1>9. CASE CloseService(p)
  BY <1>9 DEF CloseService, CloseServiceHandle, Entry, driverVars
<1>10. CASE CloseManager(p)
  BY <1>10 DEF CloseManager, driverVars
<1>11. CASE StartService(p)
  BY <1>11 DEF StartService
<1>12. CASE SetLayer(p) \/ SetFlags(p) \/ SetPriority(p)
  <2>1. pc[p] \in {"layer", "flags", "priority"}
        /\ UNCHANGED <<svc, scm, orphan, drv>>
    BY <1>12 DEF SetLayer, SetFlags, SetPriority, Set, driverVars
  <2>2. \E l \in {"flags", "priority", "filter", "idle"} :
          pc' = [pc EXCEPT ![p] = l]
    BY <1>12 DEF SetLayer, SetFlags, SetPriority, Set, IoControl
  <2>. QED BY <2>1, <2>2
<1>13. CASE StartFilter(p)
  BY <1>13 DEF StartFilter, IoControl, driverVars
<1>14. CASE \E v \in Versions : Send(p, v)
  BY <1>14 DEF Send, openVars
<1>15. CASE Close(p)
  BY <1>15 DEF Close, driverVars
<1>16. CASE Kill(p)
  BY <1>16 DEF Kill, Entry, driverVars
<1>. QED BY <1>1, <1>2, <1>3, <1>4, <1>5, <1>6, <1>7, <1>8, <1>9, <1>10, <1>11,
            <1>12, <1>13, <1>14, <1>15, <1>16 DEF OpenStep

(***************************************************************************)
(* The steps of the driver keep ServiceInv.                                *)
(***************************************************************************)
LEMMA DriverStepService ==
  ASSUME HandleInv, ServiceInv, DriverStep \/ AdminStop \/ \E v \in Versions : InjectComplete(v)
  PROVE  ServiceInv'
<1>. pc \in [Openers -> Points]
  BY DEF HandleInv, TypeOK
<1>. USE DEF ServiceInv, Holding
<1>1. CASE DriverEntry
  BY <1>1 DEF DriverEntry, openVars
<1>2. CASE Loaded
  BY <1>2 DEF Loaded
<1>3. CASE Unload
  BY <1>3 DEF Unload, openVars
<1>4. CASE DriverUnload
  BY <1>4 DEF DriverUnload, openVars
<1>5. CASE Unloaded
  BY <1>5 DEF Unloaded, Entry
<1>6. CASE AdminStop \/ \E v \in Versions : InjectComplete(v)
  BY <1>6 DEF AdminStop, StopDriver, InjectComplete, openVars
<1>. QED BY <1>1, <1>2, <1>3, <1>4, <1>5, <1>6 DEF DriverStep

(***************************************************************************)
(* ServiceInv, which says who will delete the service, holds always.       *)
(***************************************************************************)
THEOREM ServiceInvHolds == Spec => []ServiceInv
<1>1. ServiceInv /\ UNCHANGED vars => ServiceInv'
  BY DEF ServiceInv, vars, openVars, driverVars
<1>2. HandleInv /\ ServiceInv /\ [Next]_vars => ServiceInv'
  BY <1>1, OpenerService, DriverStepService DEF Next
<1>. QED BY <1>2, InitService, HandleInvHolds, PTL DEF Spec

(***************************************************************************)
(* The driver's service never stays registered for good, unless the        *)
(* process that registered it was killed.                                  *)
(***************************************************************************)
THEOREM ServiceTemporaryHolds == Spec => []ServiceTemporary
<1>1. ServiceInv => ServiceTemporary
  BY DEF ServiceInv, ServiceTemporary, Holding, Over
<1>. QED BY <1>1, ServiceInvHolds, PTL

(***************************************************************************)
(* Once the driver is not loaded and no WinDivertOpen is at work, the      *)
(* service is gone.                                                        *)
(***************************************************************************)
THEOREM UninstalledHolds == Spec => []Uninstalled
<1>1. ServiceInv => Uninstalled
  BY DEF ServiceInv, Uninstalled, Holding, Over
<1>. QED BY <1>1, ServiceInvHolds, PTL

-----------------------------------------------------------------------------
(***************************************************************************)
(* What the driver has created at each of its states.                      *)
(***************************************************************************)
Loading ==
  /\ loader # Nil
  /\ stage = "device" => res = {}
  /\ stage = "inject4" => res = {"device"}
  /\ stage = "inject6" => res = {"device", "inject4"}
  /\ stage = "nblPool" => res = {"device", "inject4", "inject6"}
  /\ stage = "nbPool" => res = {"device", "inject4", "inject6", "nblPool"}
  /\ stage = "engine" => res = Resources \ {"engine", "sublayers"}
  /\ stage \in SubLayers \cup {"sublayers"} => res = Resources \ {"sublayers"}
  /\ stage = "end" => res = Resources

Unloading ==
  /\ stage # "inject4" => "inject4" \notin res
  /\ stage \notin Versions => "inject6" \notin res
  /\ stage \in {"nbPool", "engine", "end"} => "nblPool" \notin res
  /\ stage \in {"engine", "end"} => "nbPool" \notin res
  /\ stage = "end" => "engine" \notin res
  /\ "sublayers" \in res => "engine" \in res /\ loader = Nil

(***************************************************************************)
(* An opened handle that was not early keeps its driver loaded, with all   *)
(* that DriverEntry creates.                                               *)
(***************************************************************************)
DriverInv ==
  /\ drv = "none" => res = {} /\ loader = Nil
  /\ drv = "loading" => Loading
  /\ drv \in {"running", "stopping"} => res = Resources /\ loader = Nil
  /\ drv = "unloading" => Unloading
  /\ PoolsOutliveFlights
  /\ "sublayers" \notin res /\ ~leftover => sub = {}
  /\ \A p \in Openers :
       /\ dev[p] \in Context => drv \in {"running", "stopping"} \/ loader # Nil
       /\ pc[p] = "opened" =>
            \/ p \in early
            \/ /\ dev[p] \in Context
               /\ \/ drv \in {"running", "stopping"}
                  \/ drv = "loading" /\ stage = "end"

(***************************************************************************)
(* DriverInv holds initially.                                              *)
(***************************************************************************)
LEMMA InitDriver == Init => DriverInv
BY ServiceAssumption DEF Init, DriverInv, PoolsOutliveFlights

(***************************************************************************)
(* An opener that neither opens the device nor starts its filter.          *)
(***************************************************************************)
LEMMA ElsewhereDriver ==
  ASSUME HandleInv, DriverInv, NEW p \in Openers,
         UNCHANGED driverVars, early \ {p} \subseteq early',
         pc' \in [Openers -> Points],
         \A q \in Openers \ {p} : pc'[q] = pc[q] /\ dev'[q] = dev[q],
         pc'[p] # "opened", dev'[p] \in Context => dev[p] \in Context
  PROVE  DriverInv'
BY DEF HandleInv, TypeOK, DriverInv, Loading, Unloading, PoolsOutliveFlights,
       driverVars

(***************************************************************************)
(* The steps of a process keep DriverInv.                                  *)
(***************************************************************************)
LEMMA OpenerDriver ==
  ASSUME HandleInv, DriverInv, HandleInv', NEW p \in Openers,
         Open(p) \/ OpenStep(p) \/ StartService(p) \/ Close(p) \/ Kill(p)
         \/ \E v \in Versions : Send(p, v)
  PROVE  DriverInv'
<1>. /\ pc \in [Openers -> Points] /\ pc' \in [Openers -> Points]
     /\ dev \in [Openers -> Context \cup {Nil, Dead}]
     /\ dev' \in [Openers -> Context \cup {Nil, Dead}]
     /\ Nil \notin Context /\ Dead \notin Context
  BY ServiceAssumption DEF HandleInv, TypeOK
<1>1. CASE Open(p)
  BY <1>1, ElsewhereDriver DEF Open, Go, driverVars
<1>2. CASE OpenDevice(p) \/ OpenDeviceAgain(p)
  <2>1. CASE UNCHANGED dev
    BY <1>2, <2>1, ElsewhereDriver DEF OpenDevice, OpenDeviceAgain, Go, driverVars
  <2>2. CASE CreateFile(p)
    BY <1>2, <2>2 DEF OpenDevice, OpenDeviceAgain, CreateFile, Openable, Go,
       driverVars, DriverInv, Loading, Unloading, PoolsOutliveFlights
  <2>. QED BY <1>2, <2>1, <2>2 DEF OpenDevice, OpenDeviceAgain, CreateRefused
<1>3. CASE OpenSCManager(p)
  BY <1>3, ElsewhereDriver DEF OpenSCManager, Go, driverVars
<1>4. CASE OpenService(p)
  BY <1>4, ElsewhereDriver DEF OpenService, Go, driverVars
<1>5. CASE CreateService(p)
  BY <1>5, ElsewhereDriver DEF CreateService, Go, driverVars
<1>6. CASE StopService(p)
  BY <1>6 DEF StopService, StopDriver, CleanUp, Go, DriverInv, Loading, Unloading,
     PoolsOutliveFlights
<1>7. CASE DeleteService(p)
  BY <1>7, ElsewhereDriver DEF DeleteService, Go, driverVars
<1>8. CASE CloseService(p)
  BY <1>8, ElsewhereDriver DEF CloseService, Go, driverVars
<1>9. CASE CloseManager(p)
  BY <1>9, ElsewhereDriver DEF CloseManager, Go, driverVars
<1>10. CASE StartService(p)
  <2>1. Nil # p
    BY ServiceAssumption
  <2>2. SubLayers \cap {"device"} = {}
    BY DEF SubLayers
  <2>. QED BY <1>10, <2>1, <2>2 DEF StartService, Go, DriverInv, Loading,
       Unloading, PoolsOutliveFlights
<1>11. CASE SetLayer(p) \/ SetFlags(p) \/ SetPriority(p)
  <2>1. /\ UNCHANGED driverVars /\ early' = early
        /\ pc[p] \in {"layer", "flags", "priority"}
    BY <1>11 DEF SetLayer, SetFlags, SetPriority, Set
  <2>2. \E l \in {"flags", "priority", "filter", "idle"} :
          pc' = [pc EXCEPT ![p] = l]
    BY <1>11 DEF SetLayer, SetFlags, SetPriority, Set, IoControl, Go
  <2>3. \/ dev' = dev
        \/ dev[p] # Dead /\ \E c : dev' = [dev EXCEPT ![p] = c]
        \/ dev' = [dev EXCEPT ![p] = Nil]
    BY <1>11 DEF SetLayer, SetFlags, SetPriority, Set, IoControl
  <2>4. dev[p] # Nil
    BY <2>1, FreshFacts, ContextFacts, AskedFacts, ServiceAssumption
    DEF HandleInv, Configured, Values
  <2>. QED BY <2>1, <2>2, <2>3, <2>4, ElsewhereDriver
<1>12. CASE StartFilter(p)
  <2>1. UNCHANGED driverVars /\ pc[p] = "filter"
    BY <1>12 DEF StartFilter
  <2>2. dev[p] # Nil
    BY <2>1, ContextFacts, AskedFacts, ServiceAssumption
    DEF HandleInv, Configured, Values
  <2>3. \/ /\ dev[p] # Dead
           /\ pc' = [pc EXCEPT ![p] = "opened"]
           /\ dev' = [dev EXCEPT
                ![p] = With(dev[p].layer, dev[p].flags, dev[p].priority, TRUE)]
        \/ /\ dev' = [dev EXCEPT ![p] = Nil]
           /\ pc' = [pc EXCEPT ![p] = "idle"]
    BY <1>12 DEF StartFilter, IoControl, Go
  <2>4. early \subseteq early' /\ (pc'[p] = "opened" /\ "sublayers" \notin res
                                   => p \in early')
    BY <1>12 DEF StartFilter
  <2>5. CASE pc'[p] = "opened"
    <3>1. /\ dev[p] \in Context
          /\ pc' = [pc EXCEPT ![p] = "opened"]
          /\ \A q \in Openers \ {p} : dev'[q] = dev[q]
      BY <2>2, <2>3, <2>5
    <3>2. dev'[p] \in Context
      <4>1. dev'[p] = With(dev[p].layer, dev[p].flags, dev[p].priority, TRUE)
        BY <2>3, <2>5
      <4>2. With(dev[p].layer, dev[p].flags, dev[p].priority, TRUE) \in Context
        BY <3>1 DEF With, Context
      <4>. QED BY <4>1, <4>2
    <3>3. \/ p \in early'
          \/ drv \in {"running", "stopping"} \/ (drv = "loading" /\ stage = "end")
      <4>1. CASE "sublayers" \in res
        <5>1. drv # "none" /\ drv # "unloading"
          BY <3>1, <4>1 DEF DriverInv, Unloading
        <5>2. drv = "loading" => stage = "end"
          BY <4>1 DEF HandleInv, TypeOK, Resources, Versions, Pools, DriverInv,
                      Loading
        <5>. QED BY <5>1, <5>2 DEF HandleInv, TypeOK, DriverStates
      <4>. QED BY <2>4, <2>5, <4>1
    <3>. QED BY <2>1, <2>4, <3>1, <3>2, <3>3
         DEF DriverInv, Loading, Unloading, PoolsOutliveFlights, driverVars
  <2>. QED BY <2>1, <2>2, <2>3, <2>4, <2>5, ElsewhereDriver
<1>13. CASE \E v \in Versions : Send(p, v)
  <2>. PICK v \in Versions : Send(p, v)
    BY <1>13
  <2>1. /\ UNCHANGED <<pc, dev, drv, loader, stage, res, sub, leftover, early>>
        /\ {v} \cup Pools \subseteq res
        /\ \A u \in Versions : flights'[u] > 0 => flights[u] > 0 \/ u = v
    BY DEF Send, openVars, HandleInv, TypeOK
  <2>. QED BY <2>1 DEF DriverInv, Loading, Unloading, PoolsOutliveFlights
<1>14. CASE Close(p)
  BY <1>14, ElsewhereDriver DEF Close, Go, driverVars
<1>15. CASE Kill(p)
  BY <1>15, ElsewhereDriver DEF Kill, Go, driverVars
<1>. QED BY <1>1, <1>2, <1>3, <1>4, <1>5, <1>6, <1>7, <1>8, <1>9, <1>10, <1>11,
            <1>12, <1>13, <1>14, <1>15 DEF OpenStep

(***************************************************************************)
(* The steps of the driver keep DriverInv.                                 *)
(***************************************************************************)
LEMMA DriverStepDriver ==
  ASSUME HandleInv, DriverInv,
         DriverStep \/ AdminStop \/ \E v \in Versions : InjectComplete(v)
  PROVE  DriverInv'
<1>. /\ pc \in [Openers -> Points]
     /\ dev \in [Openers -> Context \cup {Nil, Dead}]
     /\ Nil \notin Context /\ Dead \notin Context
     /\ drv \in DriverStates /\ flights \in [Versions -> Nat]
     /\ res \subseteq Resources /\ sub \subseteq SubLayers
  BY ServiceAssumption DEF HandleInv, TypeOK
<1>1. CASE DriverEntry
  <2>1. stage \in Resources \cup SubLayers /\ drv = "loading" /\ Loading
    BY <1>1 DEF DriverEntry, HandleInv, TypeOK, DriverInv
  <2>2. UNCHANGED <<pc, dev, early, loader, leftover, flights>>
    BY <1>1 DEF DriverEntry, openVars
  <2>3. stage # "end"
    BY <1>1 DEF DriverEntry
  <2>4. CASE drv' = "loading"
    <3>1. /\ stage' = CreatedNext[stage] /\ res' = res \cup ({stage} \ SubLayers)
          /\ sub' = IF stage = "sublayers" THEN SubLayers ELSE sub
      BY <1>1, <2>1, <2>4 DEF DriverEntry
    <3>2. Loading'
      <4>. USE <2>1, <2>2, <3>1
           DEF CreatedNext, Resources, SubLayers, Versions, Pools
      <4>1. CASE stage \in {"device", "inject4", "inject6"}
        <5>1. CASE stage = "device"
          BY <5>1 DEF Loading
        <5>2. CASE stage = "inject4"
          BY <5>2 DEF Loading
        <5>3. CASE stage = "inject6"
          BY <5>3 DEF Loading
        <5>. QED BY <4>1, <5>1, <5>2, <5>3
      <4>2. CASE stage \in {"nblPool", "nbPool", "engine"}
        BY <4>2 DEF Loading
      <4>3. CASE stage \in SubLayers
        <5>1. stage' \in SubLayers \cup {"sublayers"} /\ res' = res
          BY <4>3
        <5>. QED BY <4>3, <5>1 DEF Loading
      <4>4. CASE stage = "sublayers"
        BY <4>4 DEF Loading
      <4>. QED BY <4>1, <4>2, <4>3, <4>4
    <3>3. "sublayers" \notin res' => sub' = sub /\ "sublayers" \notin res
      BY <3>1 DEF SubLayers
    <3>4. res \subseteq res'
      BY <3>1
    <3>. QED BY <2>1, <2>2, <2>3, <2>4, <3>2, <3>3, <3>4
         DEF DriverInv, PoolsOutliveFlights
  <2>5. CASE drv' = "unloading"
    <3>1. stage' = "inject4" /\ res' = res /\ sub' = sub
      BY <1>1, <2>1, <2>5, Stages DEF DriverEntry
    <3>2. Unloading'
      BY <2>1, <2>2, <2>3, <3>1 DEF Loading, Unloading, Resources, Versions, Pools
    <3>. QED BY <2>1, <2>2, <2>3, <2>5, <3>1, <3>2
         DEF DriverInv, PoolsOutliveFlights
  <2>. QED BY <1>1, <2>1, <2>4, <2>5 DEF DriverEntry
<1>2. CASE Loaded
  <2>1. \A p \in Openers : pc'[p] = "opened" => pc[p] = "opened"
    BY <1>2 DEF Loaded
  <2>. QED BY <1>2, <2>1 DEF Loaded, DriverInv, Loading, PoolsOutliveFlights
<1>3. CASE Unload
  <2>1. Unloading'
    BY <1>3, Stages
    DEF Unload, DriverInv, Unloading, Resources, Versions, Pools
  <2>. QED BY <1>3, <2>1 DEF Unload, openVars, DriverInv, PoolsOutliveFlights
<1>4. CASE DriverUnload
  <2>1. /\ drv = "unloading" /\ drv' = drv /\ Unloading
        /\ UNCHANGED <<pc, dev, early, loader, flights>>
    BY <1>4 DEF DriverUnload, openVars, DriverInv
  <2>2. stage \in {"inject4", "inject6", "nblPool", "nbPool", "engine"}
    BY <1>4 DEF DriverUnload, HandleInv, TypeOK, Versions, Pools
  <2>3. \A p \in Openers : pc[p] = "opened" => p \in early
    BY <2>1 DEF DriverInv
  <2>4. CASE stage # "engine"
    <3>1. res' = res \ {stage} /\ sub' = sub /\ leftover' = leftover
      BY <1>4, <2>4 DEF DriverUnload
    <3>2. Unloading'
      <4>1. stage' = CASE stage = "inject4" -> "inject6"
                       [] stage = "inject6" -> "nblPool"
                       [] stage = "nblPool" -> "nbPool"
                       [] stage = "nbPool" -> "engine"
        BY <1>4, <2>2, <2>4 DEF DriverUnload, DestroyedNext
      <4>. QED BY <2>1, <2>2, <2>4, <3>1, <4>1 DEF Unloading, Versions
    <3>3. ASSUME NEW v \in Versions, flights[v] > 0
          PROVE  {v} \cup Pools \subseteq res'
      <4>1. {v} \cup Pools \subseteq res
        BY <3>3 DEF DriverInv, PoolsOutliveFlights
      <4>2. stage # v
        BY <1>4, <3>3, <4>1 DEF DriverUnload
      <4>3. stage \notin Pools
        BY <2>1, <4>1 DEF Unloading, Versions, Pools
      <4>. QED BY <3>1, <4>1, <4>2, <4>3
    <3>4. "sublayers" \notin res' => "sublayers" \notin res
      BY <2>2, <3>1
    <3>. QED BY <2>1, <2>3, <3>1, <3>2, <3>3, <3>4
         DEF DriverInv, PoolsOutliveFlights
  <2>5. CASE stage = "engine"
    <3>1. stage' = "end"
      BY <1>4, <2>5 DEF DriverUnload, DestroyedNext
    <3>2. CASE "engine" \in res
      <4>1. res' = res \ {"engine", "sublayers"} /\ RemoveSubLayers
        BY <1>4, <2>5, <3>2 DEF DriverUnload
      <4>2. ~leftover' => sub' = {}
        BY <4>1 DEF RemoveSubLayers
      <4>3. PoolsOutliveFlights'
        BY <2>1, <4>1 DEF DriverInv, PoolsOutliveFlights, Versions, Pools
      <4>. QED BY <2>1, <2>3, <2>5, <3>1, <4>1, <4>2, <4>3
           DEF Unloading, DriverInv, Versions
    <3>3. CASE "engine" \notin res
      <4>1. res' = res /\ sub' = sub /\ leftover' = leftover
        BY <1>4, <2>5, <3>3 DEF DriverUnload
      <4>. QED BY <2>1, <2>3, <2>5, <3>1, <3>3, <4>1
           DEF Unloading, DriverInv, PoolsOutliveFlights, Versions
    <3>. QED BY <3>2, <3>3
  <2>. QED BY <2>4, <2>5
<1>5. CASE Unloaded
  <2>1. /\ drv = "unloading" /\ stage = "end" /\ Unloading
        /\ drv' = "none" /\ loader' = Nil
        /\ UNCHANGED <<flights, sub, leftover, early>>
    BY <1>5 DEF Unloaded, DriverInv
  <2>2. res' = {} /\ "sublayers" \notin res /\ "nblPool" \notin res
    BY <1>5, <2>1 DEF Unloaded, Unloading, Resources, Versions, Pools
  <2>3. PoolsOutliveFlights'
    BY <2>1, <2>2 DEF DriverInv, PoolsOutliveFlights, Pools
  <2>4. \A p \in Openers :
          dev'[p] \notin Context /\ (pc'[p] = "opened" => p \in early')
    BY <1>5, <2>1 DEF Unloaded, DriverInv
  <2>. QED BY <2>1, <2>2, <2>3, <2>4 DEF DriverInv
<1>6. CASE AdminStop
  BY <1>6 DEF AdminStop, StopDriver, openVars, DriverInv, Loading, Unloading,
     PoolsOutliveFlights
<1>7. CASE \E v \in Versions : InjectComplete(v)
  <2>1. /\ \A v \in Versions : flights'[v] > 0 => flights[v] > 0
        /\ UNCHANGED <<pc, dev, drv, loader, stage, res, sub, leftover, early>>
    BY <1>7 DEF InjectComplete, openVars
  <2>. QED BY <2>1 DEF DriverInv, Loading, Unloading, PoolsOutliveFlights
<1>. QED BY <1>1, <1>2, <1>3, <1>4, <1>5, <1>6, <1>7 DEF DriverStep

(***************************************************************************)
(* DriverInv is an invariant of the driver and its openers.                *)
(***************************************************************************)
THEOREM DriverInvHolds == Spec => []DriverInv
<1>1. DriverInv /\ UNCHANGED vars => DriverInv'
  BY DEF DriverInv, Loading, Unloading, PoolsOutliveFlights, vars, openVars,
         driverVars
<1>2. HandleInv /\ HandleInv' /\ DriverInv /\ [Next]_vars => DriverInv'
  BY <1>1, OpenerDriver, DriverStepDriver DEF Next
<1>. QED BY <1>2, InitDriver, HandleInvHolds, PTL DEF Spec

(***************************************************************************)
(* Every handle that WinDivertOpen returns has what was asked for and its  *)
(* filter started; only an early one may have lost its driver.             *)
(***************************************************************************)
THEOREM OpenedAsAskedHolds == Spec => []OpenedAsAsked
<1>1. HandleInv /\ DriverInv => OpenedAsAsked
  BY ServiceAssumption DEF HandleInv, DriverInv, Configured, OpenedAsAsked
<1>. QED BY <1>1, HandleInvHolds, DriverInvHolds, PTL

(***************************************************************************)
(* Handles have the driver's pools and injection handles for as long as    *)
(* they can send, except for the early ones, whatever fails.               *)
(***************************************************************************)
THEOREM ResourcesHold == Spec => []SendersHaveResources
<1>1. DriverInv => SendersHaveResources
  BY DEF DriverInv, Loading, Resources, SendersHaveResources
<1>. QED BY <1>1, DriverInvHolds, PTL

(***************************************************************************)
(* A packet in the network stack keeps its pools and its injection handle  *)
(* while the driver unloads.                                               *)
(***************************************************************************)
THEOREM PoolsOutliveFlightsHolds == Spec => []PoolsOutliveFlights
<1>1. DriverInv => PoolsOutliveFlights
  BY DEF DriverInv
<1>. QED BY <1>1, DriverInvHolds, PTL

(***************************************************************************)
(* A driver that is not loaded has left nothing that it created, and a     *)
(* sub-layer is registered only by a complete load or where the platform   *)
(* did not remove it, whichever call of DriverEntry failed.                *)
(***************************************************************************)
THEOREM LoadUndoneHolds == Spec => []LoadUndone
<1>1. DriverInv => LoadUndone
  BY DEF DriverInv, LoadUndone
<1>. QED BY <1>1, DriverInvHolds, PTL
=============================================================================
