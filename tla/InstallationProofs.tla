-------------------------- MODULE InstallationProofs --------------------------
(***************************************************************************)
(* What install and uninstall promise, for any number of hook commands,    *)
(* options, faults, kills and changes.  OnlyHooksRelock needs no more than *)
(* what uninstall has stopped.  InstallEnforces rests on the service that  *)
(* install starts last: from then on, whatever is not as the VPN asks is   *)
(* about to be put right.                                                  *)
(***************************************************************************)
EXTENDS Installation, SequenceTheorems, TLAPS

\* What uninstall has stopped does not run, and nothing starts it.
Halted ==
    /\ "timer" \in halted => ~timerOn /\ pc[Service] = "idle"
    /\ halted = {"timer", "refresh"} => pc[Refresh] = "idle"
    /\ inst \in Installing \cup {"lift", "lifting", "routes", "stopUnits"} => halted = {}
    /\ inst = "stopRefresh" => "refresh" \notin halted

\* One process holds a lock file, and it is the present one unless that is known.
Locking ==
    /\ \A p, q \in Proc : Holds(p) /\ Holds(q) /\ file[p] = file[q] => p = q
    /\ \A p \in Proc : pc[p] \in {"wait", "detect", "act"} /\ file[p] # lockFile => missed
    /\ pc[Lifter] # "idle" => inst = "lifting" \/ missed

\* The dispatcher script is written before the units are started.
Written ==
    LET whole == files["dispatcher"] = "whole"
    IN  /\ inst = "write" => whole \/ \E i \in 1 .. Len(todo) : todo[i] = "dispatcher"
        /\ inst \in {"load", "enable", "enabling", "start", "starting"} => whole

\* Where the service has been started, or has ended well.
Ran == result = "installed" \/ (inst = "start" /\ "no-enable" \notin opts)

After == Ran \/ inst \in {"enabling", "starting"}

Returned ==
    /\ Ran => pc[Service] = "idle" /\ served = "ok"
    /\ result = "installed" => inst = "idle"
    /\ pc[Service] # "idle" => served = "none"

\* A command that will do what the VPN asks for now, or at a later time.
Corrects(p) ==
    /\ p \in Hook \cup {Service}
    /\ pc[p] # "idle"
    /\ pc[p] = "act" => saw[p] = vpn

Underway == pending > 0 \/ \E p \in Proc : Corrects(p)

Settled ==
    /\ lock = ~vpn
    /\ \A p \in Proc : pc[p] = "act" => Effect(p) = lock

Enforced ==
    After /\ ~missed /\ served # "failed" =>
        /\ Runnable
        /\ files["dispatcher"] = "whole"
        /\ Underway \/ Settled

IInv == TypeOK /\ Halted /\ Locking /\ Written /\ Returned /\ Enforced

LEMMA Processes ==
    /\ Service \in Proc /\ Refresh \in Proc /\ Lifter \in Proc
    /\ Service # Refresh /\ Service # Lifter /\ Refresh # Lifter
    /\ Hook \subseteq Proc
    /\ \A p \in Hook : p # Service /\ p # Refresh /\ p # Lifter
    /\ \A p \in Proc : p \in Hook \/ p = Service \/ p = Refresh \/ p = Lifter
BY SlotAssumption DEF Proc

USE Processes DEF disk, systemd, job, network, command

LEMMA InitInv == Init => IInv
<1> SUFFICES ASSUME Init PROVE IInv
  OBVIOUS
<1>1. TypeOK
  <2>1. todo \in Seq(File) /\ (todo # <<>> => inst \in {"write", "remove"})
    BY DEF Init
  <2>2. /\ files \in [File -> {"absent", "torn", "whole"}]
        /\ pc \in [Proc -> {"idle", "read", "open", "wait", "detect", "act"}]
        /\ file \in [Proc -> Nat]
        /\ saw \in [Proc -> BOOLEAN]
        /\ spent \in [{"change", "job", "kill"} -> Nat]
    BY DEF Init
  <2> QED
    BY <2>1, <2>2 DEF Init, TypeOK
<1>2. Halted /\ Locking /\ Written
  BY DEF Init, Halted, Locking, Written, Holds, Installing
<1>3. Returned /\ Enforced
  BY DEF Init, Returned, Enforced, After, Ran
<1> QED
  BY <1>1, <1>2, <1>3 DEF IInv

\* The lists that install and uninstall work through.
LEMMA Lists ==
    /\ Assets \in Seq(File) /\ Paths \in Seq(File) /\ <<"config">> \o Assets \in Seq(File)
    /\ \E i \in 1 .. Len(Assets) : Assets[i] = "dispatcher"
    /\ LET all == <<"config">> \o Assets
       IN  \E i \in 1 .. Len(all) : all[i] = "dispatcher"
<1>1. Assets \in Seq(File) /\ Len(Assets) = 5 /\ Assets[5] = "dispatcher"
  BY DEF Assets, File
<1>2. /\ <<"config">> \in Seq(File) /\ Len(<<"config">>) = 1
      /\ <<"bin">> \in Seq(File)
  BY DEF File
<1>3. /\ <<"config">> \o Assets \in Seq(File)
      /\ Paths \in Seq(File)
  BY <1>1, <1>2 DEF Paths
<1>4. /\ Len(<<"config">> \o Assets) = 6
      /\ (<<"config">> \o Assets)[6] = "dispatcher"
  <2> DEFINE all == <<"config">> \o Assets
  <2>1. /\ Len(all) = Len(<<"config">>) + Len(Assets)
        /\ \A i \in 1 .. Len(<<"config">>) + Len(Assets) :
              all[i] = IF i <= Len(<<"config">>) THEN <<"config">>[i]
                                                 ELSE Assets[i - Len(<<"config">>)]
    BY <1>1, <1>2, ConcatProperties
  <2> HIDE DEF all
  <2>2. Len(all) = 6 /\ all[6] = Assets[5]
    BY <1>1, <1>2, <2>1
  <2> QED
    BY <1>1, <2>2 DEF all
<1> QED
  BY <1>1, <1>3, <1>4

LEMMA SpendType ==
    ASSUME spent \in [{"change", "job", "kill"} -> Nat],
           NEW k \in {"change", "job", "kill"}, Spend(k)
    PROVE  spent' \in [{"change", "job", "kill"} -> Nat]
BY DEF Spend

LEMMA LaunchType ==
    ASSUME TypeOK, NEW p \in Proc, Launch(p)
    PROVE  /\ pc' \in [Proc -> {"idle", "read", "open", "wait", "detect", "act"}]
           /\ UNCHANGED <<file, saw>>
BY DEF TypeOK, Launch

LEMMA ExitType ==
    ASSUME TypeOK, NEW p \in Proc, NEW res \in {"ok", "failed"}, Exit(p, res)
    PROVE  /\ pc' \in [Proc -> {"idle", "read", "open", "wait", "detect", "act"}]
           /\ file' \in [Proc -> Nat]
           /\ saw' \in [Proc -> BOOLEAN]
           /\ served' \in {"none", "ok", "failed"}
           /\ missed' \in BOOLEAN
BY DEF TypeOK, Exit

LEMMA StopType ==
    ASSUME TypeOK, NEW p \in Proc, Stop(p)
    PROVE  /\ Exit(p, "failed")
           /\ lock' \in BOOLEAN
<1>1. Effect(p) \in BOOLEAN
  BY DEF Effect
<1> QED
  BY <1>1 DEF TypeOK, Stop

LEMMA StartType ==
    ASSUME TypeOK, StartService
    PROVE  /\ pc' \in [Proc -> {"idle", "read", "open", "wait", "detect", "act"}]
           /\ UNCHANGED <<file, saw>>
           /\ served' \in {"none", "ok", "failed"}
           /\ missed' \in BOOLEAN
BY LaunchType DEF TypeOK, StartService

\* Every step keeps the types.
LEMMA TypeStep ==
    ASSUME TypeOK, [Next]_vars
    PROVE  TypeOK'
<1> USE SpendType, LaunchType, ExitType, OptionAssumption DEF TypeOK
<1>1. ASSUME NEW p \in Proc, Command(p)
      PROVE  TypeOK'
  <2>1. CASE ReadConfig(p)
    BY <2>1 DEF ReadConfig
  <2>5. CASE OpenLockFile(p)
    BY <2>5 DEF OpenLockFile
  <2>6. CASE Acquire(p)
    BY <2>6 DEF Acquire
  <2>4. CASE Detect(p)
    BY <2>4 DEF Detect
  <2>2. CASE ReadConfigFails(p) \/ AcquireFails(p)
    BY <2>2 DEF ReadConfigFails, AcquireFails
  <2>3. CASE Act(p)
    <3>1. Effect(p) \in BOOLEAN
      BY DEF Effect
    <3> QED
      BY <2>3, <3>1 DEF Act
  <2>7. CASE ActFails(p)
    BY <2>7 DEF ActFails
  <2> QED
    BY <1>1, <2>1, <2>2, <2>3, <2>4, <2>5, <2>6, <2>7 DEF Command
<1>2. CASE Around
  <2>1. CASE VpnChange
    BY <2>1 DEF VpnChange
  <2>3. CASE DispatchNothing
    BY <2>3 DEF DispatchNothing
  <2>4. CASE TimerTick
    BY <2>4 DEF TimerTick
  <2>2. ASSUME NEW p \in Hook, Dispatch(p) \/ WakeUp(p)
        PROVE  TypeOK'
    <3>1. CASE Dispatch(p)
      BY <3>1 DEF Dispatch
    <3>2. CASE WakeUp(p)
      BY <3>2 DEF WakeUp
    <3> QED
      BY <2>2, <3>1, <3>2
  <2> QED
    BY <1>2, <2>1, <2>2, <2>3, <2>4 DEF Around
<1>3. CASE Install
  <2>1. CASE BeginInstall
    BY <2>1 DEF BeginInstall, Installing
  <2>2. CASE AssetsWritten \/ UnitsEnabled \/ Started
    BY <2>2 DEF AssetsWritten, UnitsEnabled, Started, Goto, Return, Installing
  <2>7. CASE InstallFails
    BY <2>7 DEF InstallFails, Return
  <2>3. CASE CopyBinary \/ Truncate
    BY <2>3 DEF CopyBinary, Truncate, Installing
  <2>8. CASE WriteFile
    BY <2>8, HeadTailProperties DEF WriteFile
  <2>4. CASE EnsureConfig
    BY <2>4, Lists DEF EnsureConfig, Installing
  <2>5. CASE LoadUnits
    BY <2>5 DEF LoadUnits, DaemonReload, Goto, Installing
  <2>6. CASE EnableUnits \/ Start
    BY <2>6, StartType DEF EnableUnits, Start, Goto, Return, Installing
  <2> QED
    BY <1>3, <2>1, <2>2, <2>3, <2>4, <2>5, <2>6, <2>7, <2>8 DEF Install
<1>4. CASE Uninstall
  <2>1. CASE BeginUninstall \/ LiftLock \/ LockLifted \/ RemoveBypassRoutes
    BY <2>1 DEF BeginUninstall, LiftLock, LockLifted, RemoveBypassRoutes, Goto, Uninstalling
  <2>2. CASE DisableUnits
    BY <2>2, StopType DEF DisableUnits, Uninstalling
  <2>3. CASE StopRefresh
    BY <2>3, StopType, Lists DEF StopRefresh, Uninstalling
  <2>4. CASE RemovePath
    BY <2>4 DEF RemovePath
  <2>5. CASE PathsRemoved
    BY <2>5 DEF PathsRemoved, Uninstalling
  <2>6. CASE PurgeRunDir
    BY <2>6 DEF PurgeRunDir, Goto, Uninstalling
  <2>7. CASE UnloadUnits
    BY <2>7 DEF UnloadUnits, DaemonReload, Return
  <2>8. CASE UninstallFails
    BY <2>8 DEF UninstallFails, Return
  <2> QED
    BY <1>4, <2>1, <2>2, <2>3, <2>4, <2>5, <2>6, <2>7, <2>8 DEF Uninstall
<1>5. CASE Kill
  BY <1>5 DEF Kill, Return
<1>6. CASE UNCHANGED vars
  BY <1>6 DEF vars
<1> QED
  BY <1>1, <1>2, <1>3, <1>4, <1>5, <1>6 DEF Next

\* A step of a command, or of what starts one, is none of install and uninstall.
LEMMA JobKept ==
    ASSUME \/ \E p \in Proc : Command(p)
           \/ Around
           \/ UNCHANGED vars
    PROVE  UNCHANGED <<files, loaded, timerOn, inst, opts, todo, result, halted, lockFile>>
<1>1. ASSUME NEW p \in Proc, Command(p)
      PROVE  UNCHANGED <<files, loaded, timerOn, inst, opts, todo, result, halted, lockFile>>
  BY <1>1 DEF Command, ReadConfig, ReadConfigFails, OpenLockFile, Acquire, AcquireFails, Detect,
       Act, ActFails
<1>2. CASE Around
  BY <1>2 DEF Around, VpnChange, DispatchNothing, TimerTick, Dispatch, WakeUp
<1> QED
  BY <1>1, <1>2 DEF vars

\* Outside of install and uninstall, commands are started for hooks and the
\* timer only, and a command ends without another being touched.
LEMMA OneAtATime ==
    ASSUME TypeOK,
           \/ \E p \in Proc : Command(p)
           \/ Around
           \/ UNCHANGED vars
    PROVE  \/ \E p \in Proc : pc[p] # "idle" /\ \A q \in Proc \ {p} : pc'[q] = pc[q]
           \/ \E p \in Hook : \A q \in Proc \ {p} : pc'[q] = pc[q]
           \/ timerOn /\ \A q \in Proc \ {Refresh} : pc'[q] = pc[q]
           \/ pc' = pc
<1> USE DEF TypeOK
<1>1. ASSUME NEW p \in Proc, Command(p)
      PROVE  pc[p] # "idle" /\ \A q \in Proc \ {p} : pc'[q] = pc[q]
  BY <1>1 DEF Command, ReadConfig, ReadConfigFails, OpenLockFile, Acquire, AcquireFails, Detect,
       Act, ActFails, Exit
<1>2. CASE Around
  <2>1. CASE VpnChange \/ DispatchNothing
    BY <2>1 DEF VpnChange, DispatchNothing
  <2>2. CASE TimerTick
    BY <2>2 DEF TimerTick, Launch
  <2>3. ASSUME NEW p \in Hook, Dispatch(p) \/ WakeUp(p)
        PROVE  \A q \in Proc \ {p} : pc'[q] = pc[q]
    BY <2>3 DEF Dispatch, WakeUp, Launch
  <2> QED
    BY <1>2, <2>1, <2>2, <2>3 DEF Around
<1> QED
  BY <1>1, <1>2 DEF vars

LEMMA HaltedStep ==
    ASSUME TypeOK, Halted, [Next]_vars
    PROVE  Halted'
<1> USE DEF TypeOK, Halted, Installing
<1>1. CASE \/ \E p \in Proc : Command(p)
           \/ Around
           \/ UNCHANGED vars
  <2>1. UNCHANGED <<timerOn, inst, halted>>
    BY <1>1, JobKept
  <2>2. "timer" \in halted => pc'[Service] = "idle"
    BY <1>1, OneAtATime
  <2>3. halted = {"timer", "refresh"} => pc'[Refresh] = "idle"
    BY <1>1, OneAtATime
  <2> QED
    BY <2>1, <2>2, <2>3
<1>2. CASE Install
  <2>1. halted' = {} \/ (inst \in Installing /\ UNCHANGED halted)
    BY <1>2 DEF Install, BeginInstall, CopyBinary, EnsureConfig, Truncate, WriteFile, AssetsWritten,
         LoadUnits, DaemonReload, EnableUnits, UnitsEnabled, Start, Started, InstallFails, Goto, Return
  <2>2. inst' # "stopRefresh"
    BY <1>2 DEF Install, BeginInstall, CopyBinary, EnsureConfig, Truncate, WriteFile, AssetsWritten,
         LoadUnits, DaemonReload, EnableUnits, UnitsEnabled, Start, Started, InstallFails, Goto, Return
  <2> QED
    BY <2>1, <2>2
<1>3. CASE Uninstall
  <2>1. CASE BeginUninstall
    BY <2>1 DEF BeginUninstall
  <2>2. CASE LiftLock \/ LockLifted \/ RemoveBypassRoutes
    BY <2>2 DEF LiftLock, LockLifted, RemoveBypassRoutes, Goto
  <2>3. CASE DisableUnits
    BY <2>3 DEF DisableUnits, Stop, Exit
  <2>4. CASE StopRefresh
    BY <2>4 DEF StopRefresh, Stop, Exit
  <2>5. CASE RemovePath \/ PathsRemoved \/ PurgeRunDir \/ UnloadUnits \/ UninstallFails
    BY <2>5 DEF RemovePath, PathsRemoved, PurgeRunDir, UnloadUnits, DaemonReload, UninstallFails,
         Goto, Return
  <2> QED
    BY <1>3, <2>1, <2>2, <2>3, <2>4, <2>5 DEF Uninstall
<1>4. CASE Kill
  BY <1>4 DEF Kill, Return
<1> QED
  BY <1>1, <1>2, <1>3, <1>4 DEF Next

LEMMA WrittenStep ==
    ASSUME TypeOK, Written, [Next]_vars
    PROVE  Written'
<1> USE DEF TypeOK, Written
<1>1. CASE \/ \E p \in Proc : Command(p)
           \/ Around
           \/ UNCHANGED vars
  BY <1>1, JobKept
<1>2. CASE Install
  <2>1. CASE BeginInstall \/ CopyBinary \/ AssetsWritten
    BY <2>1 DEF BeginInstall, CopyBinary, AssetsWritten
  <2>2. CASE EnsureConfig
    BY <2>2, Lists DEF EnsureConfig
  <2>3. CASE Truncate
    BY <2>3, HeadTailProperties, LenProperties DEF Truncate
  <2>4. CASE WriteFile
    <3>1. inst' = "write" /\ todo' = Tail(todo) /\ todo # <<>>
          /\ files' = [files EXCEPT ![Head(todo)] = "whole"] /\ inst = "write"
      BY <2>4 DEF WriteFile
    <3>2. CASE files["dispatcher"] = "whole" \/ Head(todo) = "dispatcher"
      BY <3>1, <3>2 DEF File
    <3>3. CASE files["dispatcher"] # "whole" /\ Head(todo) # "dispatcher"
      <4>1. PICK i \in 1 .. Len(todo) : todo[i] = "dispatcher"
        BY <3>1, <3>3
      <4>2. i # 1
        BY <3>3, <4>1
      <4>3. i - 1 \in 1 .. Len(Tail(todo)) /\ Tail(todo)[i - 1] = "dispatcher"
        BY <3>1, <4>1, <4>2, HeadTailProperties
      <4> QED
        BY <3>1, <4>3
    <3> QED
      BY <3>2, <3>3
  <2>5. CASE LoadUnits \/ EnableUnits \/ UnitsEnabled \/ Start \/ Started \/ InstallFails
    BY <2>5 DEF LoadUnits, DaemonReload, EnableUnits, UnitsEnabled, Start, Started, InstallFails,
         Goto, Return
  <2> QED
    BY <1>2, <2>1, <2>2, <2>3, <2>4, <2>5 DEF Install
<1>3. CASE Uninstall
  BY <1>3 DEF Uninstall, BeginUninstall, LiftLock, LockLifted, RemoveBypassRoutes, DisableUnits,
       StopRefresh, RemovePath, PathsRemoved, PurgeRunDir, UnloadUnits, DaemonReload,
       UninstallFails, Goto, Return
<1>4. CASE Kill
  BY <1>4 DEF Kill, Return
<1> QED
  BY <1>1, <1>2, <1>3, <1>4 DEF Next

LEMMA ReturnedStep ==
    ASSUME TypeOK, Returned, [Next]_vars
    PROVE  Returned'
<1> USE DEF TypeOK, Returned, Ran
<1>1. CASE \/ \E p \in Proc : Command(p)
           \/ Around
           \/ UNCHANGED vars
  <2>1. UNCHANGED <<inst, opts, result>>
    BY <1>1, JobKept
  <2>2. \/ pc[Service] # "idle"
        \/ pc'[Service] = pc[Service] /\ served' = served
    <3>1. ASSUME NEW p \in Proc, Command(p)
          PROVE  pc[p] # "idle" /\ (p # Service => pc'[Service] = pc[Service] /\ served' = served)
      BY <3>1 DEF Command, ReadConfig, ReadConfigFails, OpenLockFile, Acquire, AcquireFails, Detect,
           Act, ActFails, Exit
    <3>2. CASE Around
      BY <3>2 DEF Around, VpnChange, DispatchNothing, TimerTick, Dispatch, WakeUp, Launch
    <3> QED
      BY <1>1, <3>1, <3>2 DEF vars
  <2>3. pc[Service] # "idle" => pc'[Service] = "idle" \/ served' = served
    <3>1. ASSUME NEW p \in Proc, Command(p)
          PROVE  pc'[p] = "idle" \/ served' = served
      BY <3>1 DEF Command, ReadConfig, ReadConfigFails, OpenLockFile, Acquire, AcquireFails, Detect,
           Act, ActFails, Exit
    <3>2. ASSUME NEW p \in Proc, Command(p), p # Service
          PROVE  served' = served
      BY <3>2 DEF Command, ReadConfig, ReadConfigFails, OpenLockFile, Acquire, AcquireFails, Detect,
           Act, ActFails, Exit
    <3>3. CASE Around
      BY <3>3 DEF Around, VpnChange, DispatchNothing, TimerTick, Dispatch, WakeUp
    <3> QED
      BY <1>1, <3>1, <3>2, <3>3 DEF vars
  <2> QED
    BY <2>1, <2>2, <2>3
<1>2. CASE Install
  <2>1. CASE \/ BeginInstall \/ CopyBinary \/ EnsureConfig \/ Truncate \/ WriteFile
             \/ AssetsWritten \/ LoadUnits
    BY <2>1 DEF BeginInstall, CopyBinary, EnsureConfig, Truncate, WriteFile, AssetsWritten,
         LoadUnits, DaemonReload, Goto
  <2>2. CASE EnableUnits
    BY <2>2 DEF EnableUnits, StartService, Launch, Goto
  <2>3. CASE Start
    BY <2>3 DEF Start, StartService, Launch, Goto, Return
  <2>4. CASE UnitsEnabled \/ Started \/ InstallFails
    BY <2>4 DEF UnitsEnabled, Started, InstallFails, Goto, Return
  <2> QED
    BY <1>2, <2>1, <2>2, <2>3, <2>4 DEF Install
<1>3. CASE Uninstall
  <2>1. CASE DisableUnits \/ StopRefresh
    BY <2>1 DEF DisableUnits, StopRefresh, Stop, Exit
  <2>2. CASE ~DisableUnits /\ ~StopRefresh
    BY <1>3, <2>2 DEF Uninstall, BeginUninstall, LiftLock, LockLifted, RemoveBypassRoutes,
         RemovePath, PathsRemoved, PurgeRunDir, UnloadUnits, DaemonReload, UninstallFails, Launch,
         Goto, Return
  <2> QED
    BY <2>1, <2>2
<1>4. CASE Kill
  BY <1>4 DEF Kill, Return
<1> QED
  BY <1>1, <1>2, <1>3, <1>4 DEF Next

LEMMA LockingStep ==
    ASSUME TypeOK, Locking, [Next]_vars
    PROVE  Locking'
<1> USE DEF TypeOK, Locking, Holds
<1>1. CASE \/ \E p \in Proc : Command(p)
           \/ Around
           \/ UNCHANGED vars
  <2>0. UNCHANGED <<inst, lockFile>>
    BY <1>1, JobKept
  <2>1. ASSUME NEW p \in Proc, Acquire(p)
        PROVE  Locking'
    <3>1. /\ pc[p] = "wait" /\ pc'[p] \in {"act", "detect"} /\ UNCHANGED <<file, missed>>
          /\ \A q \in Proc \ {p} : pc'[q] = pc[q] /\ ~(Holds(q) /\ file[q] = file[p])
      BY <2>1 DEF Acquire, Busy
    <3> QED
      BY <2>0, <3>1
  <2>2. ASSUME NEW p \in Proc, Command(p), ~Acquire(p)
        PROVE  Locking'
    <3>1. /\ \A q \in Proc \ {p} : pc'[q] = pc[q] /\ file'[q] = file[q]
          /\ missed => missed'
      <4>1. CASE ActFails(p)
        BY <4>1 DEF ActFails, Exit
      <4>2. CASE ~ActFails(p)
        BY <2>2, <4>2 DEF Command, ReadConfig, ReadConfigFails, OpenLockFile, AcquireFails, Detect,
             Act, Exit
      <4> QED
        BY <4>1, <4>2
    <3>2. /\ Holds(p)' => Holds(p) /\ file'[p] = file[p]
          /\ pc[p] # "idle"
      BY <2>2 DEF Command, ReadConfig, ReadConfigFails, OpenLockFile, AcquireFails, Detect, Act,
           ActFails, Exit
    <3>3. pc'[p] \in {"wait", "detect", "act"} =>
             \/ file'[p] = lockFile
             \/ pc[p] \in {"wait", "detect", "act"} /\ file'[p] = file[p]
      BY <2>2 DEF Command, ReadConfig, ReadConfigFails, OpenLockFile, AcquireFails, Detect, Act,
           ActFails, Exit
    <3>4. \A q \in Proc : Holds(q)' => Holds(q) /\ file'[q] = file[q]
      BY <3>1, <3>2
    <3>5. (\A q, r \in Proc : Holds(q) /\ Holds(r) /\ file[q] = file[r] => q = r)'
      BY <3>4
    <3>6. (\A q \in Proc : pc[q] \in {"wait", "detect", "act"} /\ file[q] # lockFile => missed)'
      BY <2>0, <3>1, <3>3
    <3>7. (pc[Lifter] # "idle" => inst = "lifting" \/ missed)'
      BY <2>0, <3>1, <3>2
    <3> QED
      BY <3>5, <3>6, <3>7
  <2>3. CASE Around
    <3>1. UNCHANGED <<file, missed>>
      BY <2>3 DEF Around, VpnChange, DispatchNothing, TimerTick, Dispatch, WakeUp, Launch
    <3>2. \A q \in Proc : pc'[q] = pc[q] \/ (pc'[q] = "read" /\ q # Lifter)
      BY <2>3 DEF Around, VpnChange, DispatchNothing, TimerTick, Dispatch, WakeUp, Launch
    <3> QED
      BY <2>0, <3>1, <3>2
  <2> QED
    BY <1>1, <2>1, <2>2, <2>3 DEF vars
<1>2. CASE Install
  <2>1. inst \notin {"lifting", "purge"} /\ UNCHANGED lockFile
    BY <1>2 DEF Install, BeginInstall, CopyBinary, EnsureConfig, Truncate, WriteFile, AssetsWritten,
         LoadUnits, DaemonReload, EnableUnits, UnitsEnabled, Start, Started, InstallFails
  <2>2. UNCHANGED <<command, missed>> \/ StartService
    BY <1>2 DEF Install, BeginInstall, CopyBinary, EnsureConfig, Truncate, WriteFile, AssetsWritten,
         LoadUnits, DaemonReload, EnableUnits, UnitsEnabled, Start, Started, InstallFails
  <2>3. CASE UNCHANGED <<command, missed>>
    BY <2>1, <2>3
  <2>4. CASE UNCHANGED command /\ missed' = TRUE
    BY <2>4
  <2>5. CASE Launch(Service) /\ missed' = (missed /\ Astray)
    <3>1. /\ UNCHANGED file
          /\ \A p \in Proc : pc'[p] = pc[p] \/ (pc'[p] = "read" /\ p = Service)
      BY <2>5 DEF Launch
    <3>2. (\A p, q \in Proc : Holds(p) /\ Holds(q) /\ file[p] = file[q] => p = q)'
      BY <3>1
    <3>3. missed' \/ ~Astray
      BY <2>1, <2>5 DEF Astray
    <3> QED
      BY <2>1, <3>1, <3>2, <3>3 DEF Astray
  <2> QED
    BY <2>2, <2>3, <2>4, <2>5 DEF StartService
<1>3. CASE Uninstall
  <2>1. CASE BeginUninstall \/ LockLifted \/ RemoveBypassRoutes \/ RemovePath \/ PathsRemoved
             \/ UnloadUnits \/ UninstallFails
    BY <2>1 DEF BeginUninstall, LockLifted, RemoveBypassRoutes, RemovePath, PathsRemoved,
         UnloadUnits, DaemonReload, UninstallFails, Goto, Return
  <2>2. CASE LiftLock
    BY <2>2 DEF LiftLock, Launch, Goto
  <2>3. CASE DisableUnits \/ StopRefresh
    <3>1. inst \notin {"lifting"} /\ UNCHANGED lockFile
      BY <2>3 DEF DisableUnits, StopRefresh
    <3>2. /\ \A p \in Proc : pc'[p] = "idle" \/ (pc'[p] = pc[p] /\ file'[p] = file[p])
          /\ missed => missed'
      BY <2>3 DEF DisableUnits, StopRefresh, Stop, Exit
    <3> QED
      BY <3>1, <3>2
  <2>4. CASE PurgeRunDir
    BY <2>4 DEF PurgeRunDir, Goto
  <2> QED
    BY <1>3, <2>1, <2>2, <2>3, <2>4 DEF Uninstall
<1>4. CASE Kill
  BY <1>4 DEF Kill, Return
<1> QED
  BY <1>1, <1>2, <1>3, <1>4 DEF Next

\* Where Enforced has something to say.
Claimed == After /\ ~missed /\ served # "failed"

\* A command that ends its run after it has done what it saw fit.
LEMMA ActEnforces ==
    ASSUME TypeOK, Locking, Returned, Enforced, Claimed, NEW p \in Proc, Act(p)
    PROVE  Underway' \/ Settled'
<1> USE DEF TypeOK
<1>1. /\ pc[p] = "act" /\ pc'[p] = "idle"
      /\ \A q \in Proc \ {p} : pc'[q] = pc[q] /\ saw'[q] = saw[q]
      /\ UNCHANGED <<vpn, pending>>
  BY DEF Act, Exit
<1>2. \A q \in Proc \ {p} : pc[q] # "act"
  BY <1>1 DEF Claimed, Locking, Holds
<1>3. lock' = Effect(p)
  BY DEF Act
<1>4. p # Lifter
  <2>1. inst # "lifting"
    BY DEF Claimed, After, Ran, Returned
  <2> QED
    BY <1>1, <2>1 DEF Locking, Claimed
<1>5. Underway \/ Settled
  BY DEF Enforced, Claimed
<1>6. CASE pending > 0 \/ \E q \in Proc \ {p} : Corrects(q)
  BY <1>1, <1>6 DEF Underway, Corrects
<1>7. CASE Corrects(p)
  <2>1. lock' = ~vpn
    BY <1>1, <1>3, <1>4, <1>7 DEF Corrects, Effect
  <2> QED
    BY <1>1, <1>2, <2>1 DEF Settled
<1>8. CASE Settled
  <2>1. lock' = ~vpn
    BY <1>1, <1>3, <1>8 DEF Settled
  <2> QED
    BY <1>1, <1>2, <2>1 DEF Settled
<1> QED
  BY <1>5, <1>6, <1>7, <1>8 DEF Underway

\* The other steps of commands.
LEMMA CommandEnforces ==
    ASSUME TypeOK, Locking, Returned, Enforced, Claimed, Claimed', NEW p \in Proc, Command(p)
    PROVE  Underway' \/ Settled'
<1> USE DEF TypeOK
<1>1. p # Lifter
  <2>1. inst # "lifting"
    BY DEF Claimed, After, Ran, Returned
  <2>2. pc[p] # "idle"
    BY DEF Command, ReadConfig, ReadConfigFails, OpenLockFile, Acquire, AcquireFails, Detect, Act,
       ActFails
  <2> QED
    BY <2>1, <2>2 DEF Locking, Claimed
<1>2. Underway \/ Settled
  BY DEF Enforced, Claimed
<1>3. CASE ReadConfig(p) \/ OpenLockFile(p) \/ Acquire(p)
  <2>1. /\ UNCHANGED <<vpn, pending, lock, saw>>
        /\ pc[p] # "idle" /\ pc[p] # "act" /\ pc'[p] # "idle" /\ pc'[p] # "act"
        /\ \A q \in Proc \ {p} : pc'[q] = pc[q]
    BY <1>1, <1>3 DEF ReadConfig, OpenLockFile, Acquire
  <2>2. Underway => Underway'
    BY <2>1 DEF Underway, Corrects
  <2>3. Settled => Settled'
    BY <2>1 DEF Settled, Effect
  <2> QED
    BY <1>2, <2>2, <2>3
<1>4. CASE ReadConfigFails(p) \/ AcquireFails(p)
  <2>1. /\ p # Service
        /\ p \notin Hook
    BY <1>4 DEF ReadConfigFails, AcquireFails, Exit, Claimed
  <2>2. /\ UNCHANGED <<vpn, pending, lock>>
        /\ pc'[p] = "idle"
        /\ \A q \in Proc \ {p} : pc'[q] = pc[q] /\ saw'[q] = saw[q]
    BY <1>4 DEF ReadConfigFails, AcquireFails, Exit
  <2>3. Underway => Underway'
    BY <2>1, <2>2 DEF Underway, Corrects
  <2>4. Settled => Settled'
    BY <2>2 DEF Settled, Effect
  <2> QED
    BY <1>2, <2>3, <2>4
<1>5. CASE Detect(p)
  <2>1. /\ UNCHANGED <<vpn, pending, lock>>
        /\ pc[p] = "detect" /\ pc'[p] = "act" /\ saw'[p] = vpn
        /\ \A q \in Proc \ {p} : pc'[q] = pc[q] /\ saw'[q] = saw[q]
    BY <1>5 DEF Detect
  <2>2. CASE p = Refresh
    <3>1. Underway => Underway'
      BY <2>1, <2>2 DEF Underway, Corrects
    <3>2. Settled => Settled'
      <4>1. ASSUME Settled
            PROVE  Effect(p)' = lock'
        BY <1>1, <2>1, <2>2, <4>1 DEF Settled, Effect
      <4>2. ASSUME Settled, NEW q \in Proc \ {p}, pc'[q] = "act"
            PROVE  Effect(q)' = lock'
        BY <2>1, <4>2 DEF Settled, Effect
      <4> QED
        BY <2>1, <4>1, <4>2 DEF Settled
    <3> QED
      BY <1>2, <3>1, <3>2
  <2>3. CASE p # Refresh
    <3>1. Corrects(p)'
      BY <1>1, <2>1, <2>3 DEF Corrects
    <3> QED
      BY <3>1 DEF Underway
  <2> QED
    BY <2>2, <2>3
<1>6. CASE Act(p)
  BY <1>6, ActEnforces
<1>7. CASE ActFails(p)
  <2>1. p = Refresh
    BY <1>1, <1>7 DEF ActFails, Exit, Claimed
  <2>2. /\ pc[p] = "act" /\ ~saw[p] /\ pc'[p] = "idle" /\ lock' \in {lock, TRUE}
        /\ UNCHANGED <<vpn, pending>>
        /\ \A q \in Proc \ {p} : pc'[q] = pc[q] /\ saw'[q] = saw[q]
    BY <1>7, <2>1 DEF ActFails, Exit
  <2>3. Underway => Underway'
    BY <2>1, <2>2 DEF Underway, Corrects
  <2>4. Settled => Settled'
    <3>1. ASSUME Settled
          PROVE  lock' = lock
      <4>1. Effect(p) = lock
        BY <2>2, <3>1 DEF Settled
      <4>2. Effect(p)
        BY <2>1, <2>2 DEF Effect
      <4>3. lock = TRUE
        BY <4>1, <4>2
      <4> QED
        BY <2>2, <4>3
    <3>2. ASSUME Settled, NEW q \in Proc, pc'[q] = "act"
          PROVE  Effect(q)' = lock'
      BY <2>2, <3>1, <3>2 DEF Settled, Effect
    <3> QED
      BY <2>2, <3>1, <3>2 DEF Settled
  <2> QED
    BY <1>2, <2>3, <2>4
<1> QED
  BY <1>3, <1>4, <1>5, <1>6, <1>7 DEF Command

LEMMA AroundEnforces ==
    ASSUME TypeOK, Enforced, Claimed, Around
    PROVE  Underway' \/ Settled'
<1> USE DEF TypeOK
<1>1. Underway \/ Settled
  BY DEF Enforced, Claimed
<1>2. CASE VpnChange
  BY <1>2 DEF VpnChange, Underway
<1>3. CASE DispatchNothing
  BY <1>3 DEF DispatchNothing, Enforced, Claimed
<1>4. ASSUME NEW p \in Hook, Dispatch(p) \/ WakeUp(p)
      PROVE  Underway'
  <2>1. pc'[p] = "read"
    BY <1>4 DEF Dispatch, WakeUp, Launch
  <2>2. Corrects(p)'
    BY <2>1 DEF Corrects
  <2> QED
    BY <2>2 DEF Underway
<1>5. CASE TimerTick
  <2>1. /\ UNCHANGED <<vpn, pending, lock, saw>>
        /\ pc[Refresh] = "idle" /\ pc'[Refresh] = "read"
        /\ \A q \in Proc \ {Refresh} : pc'[q] = pc[q]
    BY <1>5 DEF TimerTick, Launch
  <2>2. Underway => Underway'
    BY <2>1 DEF Underway, Corrects
  <2>3. Settled => Settled'
    BY <2>1 DEF Settled, Effect
  <2> QED
    BY <1>1, <2>2, <2>3
<1> QED
  BY <1>2, <1>3, <1>4, <1>5 DEF Around

\* A new run of the service puts right what was missed before.
LEMMA StartEnforces ==
    ASSUME TypeOK, StartService, ~missed', served' # "failed"
    PROVE  Runnable /\ Underway'
<1>1. Runnable /\ Launch(Service)
  BY DEF StartService
<1>2. pc'[Service] = "read"
  BY <1>1 DEF Launch, TypeOK
<1>3. Corrects(Service)'
  BY <1>2 DEF Corrects
<1> QED
  BY <1>1, <1>3 DEF Underway

LEMMA EnforcedStep ==
    ASSUME IInv, [Next]_vars
    PROVE  Enforced'
<1> USE DEF IInv
<1> SUFFICES ASSUME Claimed'
             PROVE  /\ Runnable' /\ files'["dispatcher"] = "whole"
                    /\ Underway' \/ Settled'
  BY DEF Enforced, Claimed
<1>1. CASE (\E p \in Proc : Command(p)) \/ Around \/ UNCHANGED vars
  <2>1. UNCHANGED <<files, inst, opts, result>>
    BY <1>1, JobKept
  <2>2. After
    BY <2>1 DEF Claimed, After, Ran
  <2>3. ~missed /\ served # "failed"
    <3>1. ASSUME NEW p \in Proc, Command(p)
          PROVE  ~missed /\ served # "failed"
      <4>1. pc[p] # "idle"
        BY <3>1 DEF Command, ReadConfig, ReadConfigFails, OpenLockFile, Acquire, AcquireFails,
             Detect, Act, ActFails
      <4>2. p # Service => served' = served
        BY <3>1 DEF Command, ReadConfig, ReadConfigFails, OpenLockFile, Acquire, AcquireFails,
             Detect, Act, ActFails, Exit
      <4>3. missed' = missed \/ \E res \in {"ok", "failed"} : Exit(p, res)
        BY <3>1 DEF Command, ReadConfig, ReadConfigFails, OpenLockFile, Acquire, AcquireFails,
             Detect, Act, ActFails
      <4>4. missed => missed'
        BY <4>3 DEF Exit
      <4> QED
        BY <4>1, <4>2, <4>4 DEF Claimed, Returned
    <3>2. CASE Around
      BY <3>2 DEF Around, VpnChange, DispatchNothing, TimerTick, Dispatch, WakeUp, Claimed
    <3>3. CASE UNCHANGED vars
      BY <3>3 DEF vars, Claimed
    <3> QED
      BY <1>1, <3>1, <3>2, <3>3
  <2>4. Claimed
    BY <2>2, <2>3 DEF Claimed
  <2>5. Runnable' /\ files'["dispatcher"] = "whole"
    BY <2>1, <2>4 DEF Enforced, Claimed, Runnable
  <2>6. Underway' \/ Settled'
    <3>1. CASE UNCHANGED vars
      BY <2>4, <3>1 DEF vars, Enforced, Claimed, Underway, Corrects, Settled, Effect
    <3> QED
      BY <1>1, <2>4, <3>1, CommandEnforces, AroundEnforces
  <2> QED
    BY <2>5, <2>6
<1>2. ASSUME UNCHANGED <<files, command, served, missed, vpn, pending, lock>>, After
      PROVE  /\ Runnable' /\ files'["dispatcher"] = "whole"
             /\ Underway' \/ Settled'
  BY <1>2 DEF Enforced, Claimed, Runnable, Underway, Corrects, Settled, Effect
<1>3. CASE Install
  <2>1. inst \notin {"idle"} => result # "installed"
    BY DEF Returned
  <2>2. CASE \/ BeginInstall \/ CopyBinary \/ EnsureConfig \/ Truncate \/ WriteFile
             \/ AssetsWritten \/ LoadUnits \/ InstallFails
    <3>1. ~After'
      BY <2>1, <2>2 DEF BeginInstall, CopyBinary, EnsureConfig, Truncate, WriteFile, AssetsWritten,
           LoadUnits, DaemonReload, InstallFails, Goto, Return, After, Ran
    <3> QED
      BY <3>1 DEF Claimed
  <2>3. CASE EnableUnits
    <3>1. CASE "no-enable" \in opts
      <4>1. ~After'
        BY <2>1, <2>3, <3>1 DEF EnableUnits, Goto, After, Ran
      <4> QED
        BY <4>1 DEF Claimed
    <3>2. CASE "no-enable" \notin opts
      <4>1. StartService /\ UNCHANGED files /\ inst = "enable"
        BY <2>3, <3>2 DEF EnableUnits
      <4> QED
        BY <4>1, StartEnforces DEF Claimed, Written, Runnable
    <3> QED
      BY <3>1, <3>2
  <2>4. CASE UnitsEnabled
    <3>1. CASE served = "ok"
      <4>1. UNCHANGED <<files, command, served, missed, vpn, pending, lock>> /\ After
        BY <2>4, <3>1 DEF UnitsEnabled, After
      <4> QED
        BY <1>2, <4>1
    <3>2. CASE served # "ok"
      <4>1. ~After'
        BY <2>4, <3>2 DEF UnitsEnabled, Return, After, Ran
      <4> QED
        BY <4>1 DEF Claimed
    <3> QED
      BY <3>1, <3>2
  <2>5. CASE Start
    <3>1. CASE "no-start" \in opts
      <4>1. UNCHANGED <<files, command, served, missed, vpn, pending, lock>> /\ inst = "start"
        BY <2>5, <3>1 DEF Start
      <4>2. After
        BY <2>5, <3>1 DEF Start, Return, Claimed, After, Ran
      <4> QED
        BY <1>2, <4>1, <4>2
    <3>2. CASE "no-start" \notin opts
      <4>1. StartService /\ UNCHANGED files /\ inst = "start"
        BY <2>5, <3>2 DEF Start
      <4> QED
        BY <4>1, StartEnforces DEF Claimed, Written, Runnable
    <3> QED
      BY <3>1, <3>2
  <2>6. CASE Started
    <3>1. UNCHANGED <<files, command, served, missed, vpn, pending, lock>> /\ After
      BY <2>6 DEF Started, After
    <3> QED
      BY <1>2, <3>1
  <2> QED
    BY <1>3, <2>2, <2>3, <2>4, <2>5, <2>6 DEF Install
<1>4. CASE Uninstall
  <2>1. ~After'
    BY <1>4 DEF Uninstall, BeginUninstall, LiftLock, LockLifted, RemoveBypassRoutes, DisableUnits,
         StopRefresh, RemovePath, PathsRemoved, PurgeRunDir, UnloadUnits, DaemonReload,
         UninstallFails, Goto, Return, After, Ran, Returned
  <2> QED
    BY <2>1 DEF Claimed
<1>5. CASE Kill
  <2>1. ~After'
    BY <1>5 DEF Kill, Return, After, Ran
  <2> QED
    BY <2>1 DEF Claimed
<1> QED
  BY <1>1, <1>3, <1>4, <1>5 DEF Next

LEMMA Inductive == IInv /\ [Next]_vars => IInv'
BY TypeStep, HaltedStep, LockingStep, WrittenStep, ReturnedStep, EnforcedStep DEF IInv

LEMMA Always == Spec => []IInv
BY InitInv, Inductive, PTL DEF Spec

\* Every variable keeps its type.
THEOREM TypeCorrect == Spec => []TypeOK
<1>1. IInv => TypeOK
  BY DEF IInv
<1> QED
  BY <1>1, Always, PTL

\* After an install that reported success the protection agrees with the VPN
\* once nothing runs, unless something was missed that it cannot make up for: a
\* hook's enforce that gave up, a start that joined an older run of the service, a
\* command that outlived a purge, or the lift of a killed uninstall.  This holds
\* for any number of hook commands, changes, kills and faults (install.go Install).
THEOREM InstallCorrect == Spec => []InstallEnforces
<1>1. IInv => InstallEnforces
  <2> SUFFICES ASSUME IInv, result = "installed", Quiet, ~missed
               PROVE  lock = ~vpn
    BY DEF InstallEnforces
  <2>1. served = "ok" /\ After
    BY DEF IInv, Returned, Ran, After
  <2>2. Underway \/ Settled
    BY <2>1 DEF IInv, Enforced
  <2>3. ~Underway
    BY DEF Quiet, Underway, Corrects
  <2> QED
    BY <2>2, <2>3 DEF Settled
<1> QED
  BY <1>1, Always, PTL

\* What uninstall has stopped cannot bring the protection back, for any number
\* of hook commands, changes, kills and faults (install.go Uninstall).
THEOREM OnlyHooksCan == Spec => OnlyHooksRelock
<1> DEFINE Relock == halted = {"timer", "refresh"} /\ ~lock /\ lock' =>
                         \E p \in Hook : pc[p] = "act" /\ pc'[p] = "idle"
<1>1. IInv /\ [Next]_vars => [Relock]_vars
  <2> SUFFICES ASSUME IInv, [Next]_vars, halted = {"timer", "refresh"}, ~lock, lock'
               PROVE  \E p \in Hook : pc[p] = "act" /\ pc'[p] = "idle"
    OBVIOUS
  <2>1. /\ pc[Service] = "idle" /\ pc[Refresh] = "idle"
        /\ inst \notin {"stopUnits", "stopRefresh"}
    BY DEF IInv, Halted
  <2>2. PICK p \in Proc : Act(p) \/ ActFails(p)
    <3>1. CASE Install
      BY <3>1 DEF Install, BeginInstall, CopyBinary, EnsureConfig, Truncate, WriteFile,
           AssetsWritten, LoadUnits, DaemonReload, EnableUnits, UnitsEnabled, Start, Started,
           InstallFails
    <3>2. CASE Uninstall
      BY <2>1, <3>2 DEF Uninstall, BeginUninstall, LiftLock, LockLifted, RemoveBypassRoutes,
           DisableUnits, StopRefresh, RemovePath, PathsRemoved, PurgeRunDir, UnloadUnits,
           DaemonReload, UninstallFails
    <3>3. CASE Kill \/ Around \/ UNCHANGED vars
      BY <3>3 DEF Kill, Around, VpnChange, DispatchNothing, TimerTick, Dispatch, WakeUp, vars
    <3>4. ASSUME NEW p \in Proc, Command(p), ~Act(p), ~ActFails(p)
          PROVE  FALSE
      BY <3>4 DEF Command, ReadConfig, ReadConfigFails, OpenLockFile, Acquire, AcquireFails, Detect
    <3> QED
      BY <3>1, <3>2, <3>3, <3>4 DEF Next
  <2>3. pc[p] = "act" /\ pc'[p] = "idle"
    BY <2>2 DEF Act, ActFails, Exit, IInv, TypeOK
  <2>4. p # Lifter
    BY <2>2 DEF Act, ActFails, Effect
  <2> QED
    BY <2>1, <2>3, <2>4
<1> QED
  BY <1>1, Always, PTL DEF Spec, OnlyHooksRelock
=============================================================================
