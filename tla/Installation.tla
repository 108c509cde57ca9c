---------------------------- MODULE Installation ----------------------------
(***************************************************************************)
(* vpn-killswitch install and uninstall (system.Install, system.Uninstall) *)
(* step by step, while what they install is in use: systemd runs the       *)
(* service and the refresh timer, NetworkManager the dispatcher script,    *)
(* and each of these starts commands that fight for the run lock.          *)
(*                                                                         *)
(* A command is abstracted to the steps that matter here: it reads the     *)
(* configuration, opens and takes the lock file, looks at the VPN and sets *)
(* or lifts the protection as a whole.  Killswitch opens these steps.      *)
(* Events are the vpn-up and vpn-down of the dispatcher, not debounced.    *)
(***************************************************************************)
EXTENDS Integers, Sequences

CONSTANTS
    Service,     \* the process of vpn-killswitch.service: enforce
    Refresh,     \* the process of vpn-killswitch-refresh.service: lock refresh
    Lifter,      \* the lock disable that uninstall runs
    Hook,        \* slots for the enforce of dispatcher script and sleep hook
    Prefix,      \* targets of the bypass routes
    Options,     \* sets of options install may be given: subsets of OptionKinds
    Faults,      \* what may go wrong in this instance, see FaultKinds
    MaxChanges,  \* bound: changes of the VPN, timer ticks and wake-ups
    MaxJobs,     \* bound: runs of install and uninstall
    MaxKills     \* bound: killed runs of install and uninstall

OptionKinds == {"no-copy", "no-enable", "no-start"}

FaultKinds ==
    {"write",       \* a file cannot be created, written or removed
     "systemctl",   \* systemctl fails
     "lockTimeout"} \* a command finds the lock busy for ten seconds

Units == {"service", "refreshSvc", "timer"}

\* BuildAssets, in its order.  The files for tmpfiles and logrotate, last in both
\* lists, start nothing and are left out.
Assets == <<"service", "refreshSvc", "timer", "sleepHook", "dispatcher">>

\* What Uninstall removes, in its order
Paths == <<"bin">> \o Assets

File == {"bin", "config", "service", "refreshSvc", "timer", "sleepHook", "dispatcher"}

Proc == Hook \cup {Service, Refresh, Lifter}

ASSUME SlotAssumption ==
    /\ Service # Refresh /\ Service # Lifter /\ Refresh # Lifter
    /\ {Service, Refresh, Lifter} \cap Hook = {}
ASSUME OptionAssumption == Options \subseteq SUBSET OptionKinds
ASSUME FaultAssumption == Faults \subseteq FaultKinds
ASSUME BoundAssumption == MaxChanges \in Nat /\ MaxJobs \in Nat /\ MaxKills \in Nat

VARIABLES
    files,     \* each installed file: absent, torn (truncated for writing) or whole
    loaded,    \* unit files systemd has read
    timerOn,   \* the timer unit is active
    inst,      \* where install or uninstall is
    opts,      \* its options
    todo,      \* files it has yet to write or remove
    result,    \* how the last one ended; staged is an install that started nothing
    halted,    \* units uninstall has stopped
    vpn,       \* the target connection is active
    pending,   \* VPN events NetworkManager has not handed out yet
    lock,      \* the protection is in place
    routes,    \* bypass routes in the main table
    recorded,  \* targets of the routes in the state file
    lockFile,  \* which lock file run_dir holds: purge removes it, the next command makes one
    pc,        \* where each command is
    file,      \* the lock file it opened
    saw,       \* the VPN status it detected
    served,    \* how the last run of the service ended
    missed,    \* history: the enforce of an event was given up, a start joined a run of
               \* the service that was there before, or a command outlived a purge or kill
    spent      \* how much of each bound is used up

disk == <<files, recorded, lockFile>>
systemd == <<loaded, timerOn, served>>
job == <<inst, opts, todo, result, halted>>
network == <<vpn, pending, routes>>
command == <<pc, file, saw>>
vars == <<disk, systemd, job, network, command, lock, missed, spent>>

Installing == {"copy", "config", "write", "load", "enable", "enabling", "start", "starting"}
Uninstalling == {"lift", "lifting", "routes", "stopUnits", "stopRefresh", "remove", "purge", "unload"}

TypeOK ==
    /\ files \in [File -> {"absent", "torn", "whole"}]
    /\ loaded \in SUBSET Units
    /\ timerOn \in BOOLEAN
    /\ inst \in {"idle"} \cup Installing \cup Uninstalling
    /\ opts \in SUBSET (OptionKinds \cup {"purge"})
    /\ todo \in Seq(File)
    /\ todo # <<>> => inst \in {"write", "remove"}
    /\ result \in {"none", "staged", "installed", "uninstalled", "error"}
    /\ halted \in SUBSET {"timer", "refresh"}
    /\ vpn \in BOOLEAN
    /\ pending \in Nat
    /\ lock \in BOOLEAN
    /\ routes \in SUBSET Prefix
    /\ recorded \in SUBSET Prefix
    /\ lockFile \in Nat
    /\ pc \in [Proc -> {"idle", "read", "open", "wait", "detect", "act"}]
    /\ file \in [Proc -> Nat]
    /\ saw \in [Proc -> BOOLEAN]
    /\ served \in {"none", "ok", "failed"}
    /\ missed \in BOOLEAN
    /\ spent \in [{"change", "job", "kill"} -> Nat]

Init ==
    /\ files = [f \in File |-> "absent"]
    /\ loaded = {}
    /\ timerOn = FALSE
    /\ inst = "idle"
    /\ opts = {}
    /\ todo = <<>>
    /\ result = "none"
    /\ halted = {}
    /\ vpn \in BOOLEAN
    /\ pending = 0
    /\ lock = FALSE
    /\ routes = {}
    /\ recorded = {}
    /\ lockFile = 0
    /\ pc = [p \in Proc |-> "idle"]
    /\ file = [p \in Proc |-> 0]
    /\ saw = [p \in Proc |-> FALSE]
    /\ served = "none"
    /\ missed = FALSE
    /\ spent = [k \in {"change", "job", "kill"} |-> 0]

Bound(k) == CASE k = "change" -> MaxChanges
              [] k = "job" -> MaxJobs
              [] k = "kill" -> MaxKills

Spend(k) ==
    /\ spent[k] < Bound(k)
    /\ spent' = [spent EXCEPT ![k] = @ + 1]
-----------------------------------------------------------------------------
(* The commands.                                                           *)

Runnable == files["bin"] = "whole"

Launch(p) ==
    /\ pc[p] = "idle"
    /\ Runnable
    /\ pc' = [pc EXCEPT ![p] = "read"]
    /\ UNCHANGED <<file, saw>>

\* The process of p ends; systemd keeps the exit status of its service, and a
\* hook that gives up has missed its event.
Exit(p, res) ==
    /\ pc' = [pc EXCEPT ![p] = "idle"]
    /\ file' = [file EXCEPT ![p] = 0]
    /\ saw' = [saw EXCEPT ![p] = FALSE]
    /\ served' = IF p = Service THEN res ELSE served
    /\ missed' = (missed \/ (p \in Hook /\ res = "failed"))

ReadConfig(p) ==
    /\ pc[p] = "read"
    /\ files["config"] = "whole"
    /\ pc' = [pc EXCEPT ![p] = "open"]
    /\ UNCHANGED <<disk, systemd, job, network, file, saw, lock, missed, spent>>

ReadConfigFails(p) ==
    /\ pc[p] = "read"
    /\ files["config"] # "whole"
    /\ Exit(p, "failed")
    /\ UNCHANGED <<disk, loaded, timerOn, job, network, lock, spent>>

\* lockfile.Acquire creates run_dir and the lock file if there is none, and
\* tries to lock the file it opened, which a purge may remove meanwhile.
OpenLockFile(p) ==
    /\ pc[p] = "open"
    /\ pc' = [pc EXCEPT ![p] = "wait"]
    /\ file' = [file EXCEPT ![p] = lockFile]
    /\ UNCHANGED <<disk, systemd, job, network, saw, lock, missed, spent>>

Holds(p) == pc[p] \in {"detect", "act"}

Busy(p) == \E q \in Proc \ {p} : Holds(q) /\ file[q] = file[p]

Acquire(p) ==
    /\ pc[p] = "wait"
    /\ ~Busy(p)
    /\ pc' = [pc EXCEPT ![p] = IF p = Lifter THEN "act" ELSE "detect"]
    /\ UNCHANGED <<disk, systemd, job, network, file, saw, lock, missed, spent>>

AcquireFails(p) ==
    /\ pc[p] = "wait"
    /\ Busy(p)
    /\ "lockTimeout" \in Faults
    /\ Exit(p, "failed")
    /\ UNCHANGED <<disk, loaded, timerOn, job, network, lock, spent>>

\* enforce applies the bypass routes before it looks at the VPN.
Detect(p) ==
    /\ pc[p] = "detect"
    /\ pc' = [pc EXCEPT ![p] = "act"]
    /\ saw' = [saw EXCEPT ![p] = vpn]
    /\ IF p = Refresh
       THEN UNCHANGED <<routes, recorded>>
       ELSE routes' = Prefix /\ recorded' = Prefix
    /\ UNCHANGED <<files, lockFile, systemd, job, vpn, pending, file, lock, missed, spent>>

\* lock disable lifts, lock refresh only sets, enforce does either.
Effect(p) ==
    /\ p # Lifter
    /\ saw[p] => p = Refresh /\ lock

Act(p) ==
    /\ pc[p] = "act"
    /\ lock' = Effect(p)
    /\ Exit(p, "ok")
    /\ UNCHANGED <<disk, loaded, timerOn, job, network, spent>>

\* lock.Enable fails, as it does when nft refuses the script of a second enforce
\* behind our own hosts block, and leaves the protection as it was; or enforce
\* locks because the bypass has failed.
ActFails(p) ==
    /\ pc[p] = "act"
    /\ p # Lifter
    /\ saw[p] => p # Refresh
    /\ lock' \in {lock, TRUE}
    /\ Exit(p, "failed")
    /\ UNCHANGED <<disk, loaded, timerOn, job, network, spent>>

Command(p) ==
    \/ ReadConfig(p) \/ ReadConfigFails(p) \/ OpenLockFile(p)
    \/ Acquire(p) \/ AcquireFails(p) \/ Detect(p) \/ Act(p) \/ ActFails(p)
-----------------------------------------------------------------------------
(* What starts them.                                                       *)

VpnChange ==
    /\ Spend("change")
    /\ vpn' = ~vpn
    /\ pending' = pending + 1
    /\ UNCHANGED <<disk, systemd, job, routes, command, lock, missed>>

\* NetworkManager runs the dispatcher script for vpn-up and vpn-down.
Dispatch(p) ==
    /\ pending > 0
    /\ pending' = pending - 1
    /\ files["dispatcher"] = "whole"
    /\ Launch(p)
    /\ UNCHANGED <<disk, systemd, job, vpn, routes, lock, missed, spent>>

\* Nothing runs if there is no script, only the beginning of one, or no program.
DispatchNothing ==
    /\ pending > 0
    /\ pending' = pending - 1
    /\ files["dispatcher"] # "whole" \/ ~Runnable
    /\ UNCHANGED <<disk, systemd, job, vpn, routes, command, lock, missed, spent>>

WakeUp(p) ==
    /\ files["sleepHook"] = "whole"
    /\ Spend("change")
    /\ Launch(p)
    /\ UNCHANGED <<disk, systemd, job, network, lock, missed>>

TimerTick ==
    /\ timerOn
    /\ "refreshSvc" \in loaded
    /\ Spend("change")
    /\ Launch(Refresh)
    /\ UNCHANGED <<disk, systemd, job, network, lock, missed>>

Around ==
    \/ VpnChange \/ DispatchNothing \/ TimerTick
    \/ \E p \in Hook : Dispatch(p) \/ WakeUp(p)
-----------------------------------------------------------------------------
(* system.Install.                                                         *)

\* Mutant: an install that fails leaves its list behind.
ReturnHalfway(res) ==
    /\ inst' = "idle"
    /\ opts' = {}
    /\ result' = res
    /\ UNCHANGED <<todo, halted>>

Return(res) ==
    /\ inst' = "idle"
    /\ opts' = {}
    /\ todo' = <<>>
    /\ result' = res
    /\ UNCHANGED halted

BeginInstall ==
    /\ inst = "idle"
    /\ Spend("job")
    /\ inst' = "copy"
    /\ opts' \in Options
    /\ result' = "none"
    /\ halted' = {}
    /\ UNCHANGED <<disk, systemd, todo, network, command, lock, missed>>

\* The copy is made beside the old binary and renamed over it.
CopyBinary ==
    /\ inst = "copy"
    /\ inst' = "config"
    /\ files' = IF "no-copy" \in opts THEN files ELSE [files EXCEPT !["bin"] = "whole"]
    /\ UNCHANGED <<recorded, lockFile, systemd, opts, todo, result, halted, network,
                   command, lock, missed, spent>>

\* EnsureExample writes no config.toml where there is one.
EnsureConfig ==
    /\ inst = "config"
    /\ inst' = "write"
    /\ todo' = IF files["config"] = "absent" THEN <<"config">> \o Assets ELSE Assets
    /\ UNCHANGED <<disk, systemd, opts, result, halted, network, command, lock, missed, spent>>

\* os.WriteFile opens the file with O_TRUNC, then writes it.
Truncate ==
    /\ inst = "write"
    /\ todo # <<>>
    /\ files[Head(todo)] # "torn"
    /\ files' = [files EXCEPT ![Head(todo)] = "torn"]
    /\ UNCHANGED <<recorded, lockFile, systemd, job, network, command, lock, missed, spent>>

WriteFile ==
    /\ inst = "write"
    /\ todo # <<>>
    /\ files[Head(todo)] = "torn"
    /\ files' = [files EXCEPT ![Head(todo)] = "whole"]
    /\ todo' = Tail(todo)
    /\ UNCHANGED <<recorded, lockFile, systemd, inst, opts, result, halted, network,
                   command, lock, missed, spent>>

AssetsWritten ==
    /\ inst = "write"
    /\ todo = <<>>
    /\ inst' = "load"
    /\ UNCHANGED <<disk, systemd, opts, todo, result, halted, network, command, lock, missed, spent>>

DaemonReload(from, to) ==
    /\ inst = from
    /\ loaded' = {u \in Units : files[u] = "whole"}
    /\ to
    /\ UNCHANGED <<disk, timerOn, served, network, command, lock, missed, spent>>

Goto(next) ==
    /\ inst' = next
    /\ UNCHANGED <<opts, todo, result, halted>>

LoadUnits == DaemonReload("load", Goto("enable"))

\* A command is left over that nothing keeps from acting after a new one: it
\* has a lock file that is gone, or is the lock disable of a killed uninstall.
Astray ==
    \/ \E p \in Proc : pc[p] \in {"wait", "detect", "act"} /\ file[p] # lockFile
    \/ pc[Lifter] # "idle"

\* systemctl start waits for the oneshot service.  If it runs already, the
\* start joins that run; a new run makes up for what was missed before.
StartService ==
    IF pc[Service] # "idle"
    THEN missed' = TRUE /\ UNCHANGED <<command, served>>
    ELSE IF Runnable /\ "service" \in loaded
    THEN Launch(Service) /\ served' = "none" /\ missed' = (missed /\ Astray)
    ELSE served' = "failed" /\ UNCHANGED <<command, missed>>

\* systemctl enable --now starts both units.
EnableUnits ==
    /\ inst = "enable"
    /\ IF "no-enable" \in opts
       THEN Goto("start") /\ UNCHANGED <<timerOn, command, served, missed>>
       ELSE Goto("enabling") /\ timerOn' = TRUE /\ StartService
    /\ UNCHANGED <<disk, loaded, network, lock, spent>>

UnitsEnabled ==
    /\ inst = "enabling"
    /\ pc[Service] = "idle"
    /\ IF served = "ok" THEN Goto("start") ELSE Return("error")
    /\ UNCHANGED <<disk, systemd, network, command, lock, missed, spent>>

Start ==
    /\ inst = "start"
    /\ IF "no-start" \in opts
       THEN /\ Return(IF "no-enable" \in opts THEN "staged" ELSE "installed")
            /\ UNCHANGED <<command, served, missed>>
       ELSE Goto("starting") /\ StartService
    /\ UNCHANGED <<disk, loaded, timerOn, network, lock, spent>>

\* Mutant: the error of systemctl start is ignored, as that of disable is.
StartedIgnoringErrors ==
    /\ inst = "starting"
    /\ pc[Service] = "idle"
    /\ Return("installed")
    /\ UNCHANGED <<disk, systemd, network, command, lock, missed, spent>>

Started ==
    /\ inst = "starting"
    /\ pc[Service] = "idle"
    /\ Return(IF served = "ok" THEN "installed" ELSE "error")
    /\ UNCHANGED <<disk, systemd, network, command, lock, missed, spent>>

InstallFails ==
    /\ \/ inst \in {"copy", "config", "write"} /\ "write" \in Faults
       \/ inst \in {"load", "enable", "start"} /\ "systemctl" \in Faults
    /\ Return("error")
    /\ UNCHANGED <<disk, systemd, network, command, lock, missed, spent>>

Install ==
    \/ BeginInstall \/ CopyBinary \/ EnsureConfig \/ Truncate \/ WriteFile \/ AssetsWritten
    \/ LoadUnits \/ EnableUnits \/ UnitsEnabled \/ Start \/ Started \/ InstallFails
-----------------------------------------------------------------------------
(* system.Uninstall.                                                       *)

BeginUninstall ==
    /\ inst = "idle"
    /\ Spend("job")
    /\ inst' = "lift"
    /\ opts' \in {{}, {"purge"}}
    /\ result' = "none"
    /\ halted' = {}
    /\ UNCHANGED <<disk, systemd, todo, network, command, lock, missed>>

\* The binary runs lock disable; whether it can and succeeds does not matter.
LiftLock ==
    /\ inst = "lift"
    /\ pc[Lifter] = "idle"
    /\ IF Runnable THEN Goto("lifting") /\ Launch(Lifter) ELSE Goto("routes") /\ UNCHANGED command
    /\ UNCHANGED <<disk, systemd, network, lock, missed, spent>>

LockLifted ==
    /\ inst = "lifting"
    /\ pc[Lifter] = "idle"
    /\ Goto("routes")
    /\ UNCHANGED <<disk, systemd, network, command, lock, missed, spent>>

\* removeBypassRoutes appends "/32" to the first field of a line, where
\* WriteState has put a target that has its prefix length already.
DelArgument(t) == <<t, "/32">>

RemoveBypassRoutes ==
    /\ inst = "routes"
    /\ routes' = routes \ {DelArgument(t) : t \in recorded}
    /\ Goto("stopUnits")
    /\ UNCHANGED <<disk, systemd, vpn, pending, command, lock, missed, spent>>

\* systemd kills the command of a unit it stops: the protection is then as it
\* was before or after the command's last step.
Stop(p) ==
    /\ Exit(p, "failed")
    /\ lock' \in IF pc[p] = "act" THEN {lock, Effect(p)} ELSE {lock}

\* Mutant: systemctl disable without --now.
DisableOnly ==
    /\ inst = "stopUnits"
    /\ inst' = "stopRefresh"
    /\ halted' = halted \cup {"timer"}
    /\ UNCHANGED <<disk, systemd, opts, todo, result, network, command, lock, missed, spent>>

DisableUnits ==
    /\ inst = "stopUnits"
    /\ inst' = "stopRefresh"
    /\ \/ /\ {"timer", "service"} \subseteq loaded
          /\ timerOn' = FALSE
          /\ Stop(Service)
          /\ halted' = halted \cup {"timer"}
       \/ /\ ~({"timer", "service"} \subseteq loaded) \/ "systemctl" \in Faults
          /\ UNCHANGED <<timerOn, served, command, lock, missed, halted>>
    /\ UNCHANGED <<disk, loaded, opts, todo, result, network, spent>>

StopRefresh ==
    /\ inst = "stopRefresh"
    /\ inst' = "remove"
    /\ todo' = Paths
    /\ \/ /\ "refreshSvc" \in loaded
          /\ Stop(Refresh)
          /\ halted' = halted \cup {"refresh"}
       \/ /\ "refreshSvc" \notin loaded \/ "systemctl" \in Faults
          /\ UNCHANGED <<served, command, lock, missed, halted>>
    /\ UNCHANGED <<disk, loaded, timerOn, opts, result, network, spent>>

RemovePath ==
    /\ inst = "remove"
    /\ todo # <<>>
    /\ files' = [files EXCEPT ![Head(todo)] = "absent"]
    /\ todo' = Tail(todo)
    /\ UNCHANGED <<recorded, lockFile, systemd, inst, opts, result, halted, network,
                   command, lock, missed, spent>>

\* --purge removes /etc/vpn-killswitch, then /run/vpn-killswitch with the state
\* file and the lock file, which a running command may hold.
PathsRemoved ==
    /\ inst = "remove"
    /\ todo = <<>>
    /\ IF "purge" \in opts
       THEN inst' = "purge" /\ files' = [files EXCEPT !["config"] = "absent"]
       ELSE inst' = "unload" /\ UNCHANGED files
    /\ UNCHANGED <<recorded, lockFile, systemd, opts, todo, result, halted, network,
                   command, lock, missed, spent>>

PurgeRunDir ==
    /\ inst = "purge"
    /\ Goto("unload")
    /\ recorded' = {}
    /\ lockFile' = lockFile + 1
    /\ missed' = (missed \/ \E p \in Proc : pc[p] \in {"wait", "detect", "act"})
    /\ UNCHANGED <<files, systemd, network, command, lock, spent>>

UnloadUnits == DaemonReload("unload", Return("uninstalled"))

UninstallFails ==
    /\ \/ inst \in {"remove", "purge"} /\ "write" \in Faults
       \/ inst = "unload" /\ "systemctl" \in Faults
    /\ Return("error")
    /\ UNCHANGED <<disk, systemd, network, command, lock, missed, spent>>

Uninstall ==
    \/ BeginUninstall \/ LiftLock \/ LockLifted \/ RemoveBypassRoutes \/ DisableUnits
    \/ StopRefresh \/ RemovePath \/ PathsRemoved \/ PurgeRunDir \/ UnloadUnits \/ UninstallFails

\* The terminal is closed; the commands it started go on.
Kill ==
    /\ inst # "idle"
    /\ Spend("kill")
    /\ Return("error")
    /\ missed' = (missed \/ pc[Lifter] # "idle")
    /\ UNCHANGED <<disk, systemd, network, command, lock>>

Next ==
    \/ Install \/ Uninstall \/ Kill \/ Around
    \/ \E p \in Proc : Command(p)

Spec == Init /\ [][Next]_vars
-----------------------------------------------------------------------------
(* What must hold in every behaviour.                                      *)

Quiet == pending = 0 /\ \A p \in Proc : pc[p] = "idle"

\* Once install has reported success and nothing runs, the protection agrees
\* with the VPN, unless something was missed that the service it starts last
\* cannot make up for: the enforce of a hook that gave up, a run of the service
\* from before that the start joined, a command whose lock file a purge removed,
\* or the lock disable of a killed uninstall that still ran.  It does make up
\* for events lost while the dispatcher script was missing or truncated, for an
\* older installation, for a killed or failed install and for commands of hooks
\* and timer that overlap with it (install.go Install).
InstallEnforces == result = "installed" /\ Quiet /\ ~missed => lock = ~vpn

\* After uninstall has stopped the units, only a command that a hook had
\* started can bring the protection back; service and timer cannot (install.go
\* Uninstall).
OnlyHooksRelock ==
    [][halted = {"timer", "refresh"} /\ ~lock /\ lock' =>
          \E p \in Hook : pc[p] = "act" /\ pc'[p] = "idle"]_vars

\* uninstall removes the bypass routes its state file lists (install.go
\* removeBypassRoutes).
UninstallRemovesRoutes == [][inst = "routes" /\ inst' = "stopUnits" => routes' \cap recorded = {}]_vars
=============================================================================
