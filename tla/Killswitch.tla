----------------------------- MODULE Killswitch -----------------------------
(***************************************************************************)
(* The core of vpn-killswitch: the processes that systemd, NetworkManager, *)
(* the timer and the user start, each running one command of the CLI, and  *)
(* the state they fight over: the flock in run_dir, the managed nft table, *)
(* the managed block of the hosts file and config.toml.                    *)
(*                                                                         *)
(* A process is a slot of Proc that runs one command from "read" to "exit" *)
(* and is then free again.  A step ends where the program calls out (nft,  *)
(* nmcli, DNS, a file), because that is where another process, the VPN or  *)
(* a crash may get in between.  A domain has at most one address of each   *)
(* family, which stands for all of them; a script without an address of    *)
(* one family is none that nft accepts.  bypass.Apply is one step here, of *)
(* which only the outcome matters to the lock; module Bypass opens it.     *)
(***************************************************************************)
EXTENDS Naturals

CONSTANTS
    Proc,             \* process slots
    NoProc,           \* the flock is free
    Domain,           \* domains that may be listed in killswitch.domains
    IPv4, IPv6,       \* the domains that have an address of the family
    ManageHosts,      \* killswitch.manage_hosts
    Debounced,        \* VPN events arrive as up/down (wireguard), not vpn-up/vpn-down
    Faults,           \* what may go wrong in this instance, see FaultKinds
    UserCommands,     \* commands a user or the tray may start
    MaxVpnChanges,    \* bound: times the VPN connects or disconnects
    MaxUserCommands,  \* bound: user commands and unrelated network events
    MaxCrashes,       \* bound: killed processes and reboots
    MaxDisturbances   \* bound: all of these together

FaultKinds ==
    {"config",       \* config.toml cannot be read or is invalid
     "lockOpen",     \* the lock file cannot be created or opened
     "lockTimeout",  \* the flock stays busy for the 10 seconds of Acquire
     "bypass",       \* bypass.Apply returns an error
     "nmcli",        \* nmcli fails: the VPN status is unknown
     "dns",          \* some addresses are missing from the answers
     "script",       \* the temporary nft script cannot be written
     "nftDelete",    \* nft delete table fails
     "nftLoad",      \* nft -f fails although the script is well formed
     "hosts"}        \* reading or writing the hosts file fails

Enforcers == {"enforce", "tray"}
Refreshers == {"refresh", "timer"}
Lockers == Enforcers \cup Refreshers \cup {"enable"}
Commands == Lockers \cup {"disable", "apply", "edit"}

Family == {"ipv4", "ipv6"}
Address == (IPv4 \X {"ipv4"}) \cup (IPv6 \X {"ipv6"})
Addresses(d) == {a \in Address : a[1] = d}

ASSUME ProcAssumption == NoProc \notin Proc
ASSUME FamilyAssumption == IPv4 \cup IPv6 = Domain
ASSUME BooleanAssumption == ManageHosts \in BOOLEAN /\ Debounced \in BOOLEAN
ASSUME FaultAssumption == Faults \subseteq FaultKinds
ASSUME CommandAssumption == UserCommands \subseteq Commands \ {"timer"}
ASSUME BoundAssumption ==
    /\ MaxVpnChanges \in Nat /\ MaxUserCommands \in Nat /\ MaxCrashes \in Nat
    /\ MaxDisturbances \in Nat

VARIABLES
    vpn,      \* the target connection is active
    pending,  \* dispatcher and boot events not yet handled, by kind
    marker,   \* dispatcher.marker is younger than debounce_seconds
    spent,    \* how much of each bound is used up
    reported, \* history variable: what commands have reported of the lock since the
              \* last decision to lift it, "locked" if lock.Enable has succeeded,
              \* "failed" if later than that a command could not lock (an error of
              \* the bypass alone is none of these)
    config,   \* killswitch.domains in config.toml
    flock,    \* holder of <run_dir>/lock, or NoProc
    table,    \* the managed nft table exists
    blocked,  \* the addresses its sets hold
    hosts,    \* domains listed in the managed hosts block
    pc,       \* where each process is
    cmd,      \* the command it runs
    cfg,      \* killswitch.domains as it read them
    status,   \* the VPN status it detected
    resolved, \* the usable public addresses it resolved them to
    err,      \* it will return an error
    outcome   \* Result.LockApplied, Result.LockDisabled or neither

world == <<vpn, pending, marker, spent>>
envVars == <<world, reported>>
protection == <<table, blocked, hosts>>
memory == <<cmd, cfg, status, resolved, err, outcome>>
vars == <<envVars, config, flock, protection, pc, memory>>

EventKinds == {"direct", "debounced"}
Disturbances == {"vpn", "user", "crash"}
Outside == {"idle", "read", "acquire"}
Critical == {"bypass", "detect", "resolve", "nftDelete", "nftLoad",
             "writeHosts", "disableNft", "stripHosts", "exit"}

TypeOK ==
    /\ vpn \in BOOLEAN
    /\ pending \in [EventKinds -> Nat]
    /\ marker \in BOOLEAN
    /\ spent \in [Disturbances -> Nat]
    /\ reported \in SUBSET {"locked", "failed"}
    /\ config \in SUBSET Domain
    /\ flock \in Proc \cup {NoProc}
    /\ table \in BOOLEAN
    /\ blocked \in SUBSET Address
    /\ hosts \in SUBSET Domain
    /\ pc \in [Proc -> Outside \cup Critical]
    /\ cmd \in [Proc -> Commands \cup {"none"}]
    /\ cfg \in [Proc -> SUBSET Domain]
    /\ status \in [Proc -> {"none", "active", "inactive", "unknown"}]
    /\ resolved \in [Proc -> SUBSET Address]
    /\ err \in [Proc -> BOOLEAN]
    /\ outcome \in [Proc -> {"none", "applied", "disabled"}]

\* After boot: no nft table, nobody running, vpn-killswitch.service about to
\* run "enforce systemd".
BootEvent == [k \in EventKinds |-> IF k = "direct" THEN 1 ELSE 0]

Init ==
    /\ vpn = FALSE
    /\ pending = BootEvent
    /\ marker = FALSE
    /\ spent = [k \in Disturbances |-> 0]
    /\ reported = {}
    /\ config = Domain
    /\ flock = NoProc
    /\ table = FALSE
    /\ blocked = {}
    /\ hosts = {}
    /\ pc = [p \in Proc |-> "idle"]
    /\ cmd = [p \in Proc |-> "none"]
    /\ cfg = [p \in Proc |-> {}]
    /\ status = [p \in Proc |-> "none"]
    /\ resolved = [p \in Proc |-> {}]
    /\ err = [p \in Proc |-> FALSE]
    /\ outcome = [p \in Proc |-> "none"]
-----------------------------------------------------------------------------
(* The environment: the VPN, other network events, the passing of time.    *)

Bound(k) == CASE k = "vpn" -> MaxVpnChanges
              [] k = "user" -> MaxUserCommands
              [] k = "crash" -> MaxCrashes

Spend(k) ==
    /\ spent[k] < Bound(k)
    /\ spent["vpn"] + spent["user"] + spent["crash"] < MaxDisturbances
    /\ spent' = [spent EXCEPT ![k] = @ + 1]

Notify(k) == pending' = [pending EXCEPT ![k] = @ + 1]

Consume(k) ==
    /\ pending[k] > 0
    /\ pending' = [pending EXCEPT ![k] = @ - 1]

VpnChange ==
    /\ Spend("vpn")
    /\ vpn' = ~vpn
    /\ Notify(IF Debounced THEN "debounced" ELSE "direct")
    /\ UNCHANGED <<marker, reported, config, flock, protection, pc, memory>>

\* up, down, connectivity-change or dhcp*-change of some other interface
NetworkEvent ==
    /\ Spend("user")
    /\ Notify("debounced")
    /\ UNCHANGED <<vpn, marker, reported, config, flock, protection, pc, memory>>

MarkerExpires ==
    /\ marker
    /\ marker' = FALSE
    /\ UNCHANGED <<vpn, pending, spent, reported, config, flock, protection, pc, memory>>
-----------------------------------------------------------------------------
(* Starting a process.                                                     *)

Launch(p, c) ==
    /\ pc[p] = "idle"
    /\ pc' = [pc EXCEPT ![p] = "read"]
    /\ cmd' = [cmd EXCEPT ![p] = c]
    /\ UNCHANGED <<config, flock, protection, cfg, status, resolved, err, outcome>>

\* vpn-up, vpn-down; also vpn-killswitch.service at boot
DispatchDirect(p) ==
    /\ Consume("direct")
    /\ Launch(p, "enforce")
    /\ UNCHANGED <<vpn, marker, spent, reported>>

DispatchDebounced(p) ==
    /\ Consume("debounced")
    /\ ~marker
    /\ marker' = TRUE
    /\ Launch(p, "enforce")
    /\ UNCHANGED <<vpn, spent, reported>>

DispatchDropped ==
    /\ Consume("debounced")
    /\ marker
    /\ UNCHANGED <<vpn, marker, spent, reported, config, flock, protection, pc, memory>>

\* vpn-killswitch-refresh.timer; systemd never runs two instances of the unit
TimerTick(p) ==
    /\ \A q \in Proc : cmd[q] # "timer"
    /\ Launch(p, "timer")
    /\ UNCHANGED envVars

\* a user, the tray or the sleep hook
UserCommand(p) ==
    /\ Spend("user")
    /\ \E c \in UserCommands : Launch(p, c)
    /\ UNCHANGED <<vpn, pending, marker, reported>>
-----------------------------------------------------------------------------
(* Steps of a process.                                                     *)

Goto(p, step) == pc' = [pc EXCEPT ![p] = step]

\* The exit code of a command that had to see to the lock and could not
Complain(p) ==
    reported' = IF cmd[p] \in Lockers THEN reported \cup {"failed"} ELSE reported

Fail(p) ==
    /\ err' = [err EXCEPT ![p] = TRUE]
    /\ Complain(p)
    /\ Goto(p, "exit")

\* The process is gone and its memory with it.
Vanish(p) ==
    /\ Goto(p, "idle")
    /\ cmd' = [cmd EXCEPT ![p] = "none"]
    /\ cfg' = [cfg EXCEPT ![p] = {}]
    /\ status' = [status EXCEPT ![p] = "none"]
    /\ resolved' = [resolved EXCEPT ![p] = {}]
    /\ err' = [err EXCEPT ![p] = FALSE]
    /\ outcome' = [outcome EXCEPT ![p] = "none"]

\* config.Read, before the lock is taken
ReadConfig(p) ==
    /\ pc[p] = "read"
    /\ cmd[p] \notin {"tray", "edit"}
    /\ cfg' = [cfg EXCEPT ![p] = config]
    /\ Goto(p, "acquire")
    /\ UNCHANGED <<envVars, config, flock, protection, cmd, status, resolved, err, outcome>>

ReadConfigFails(p) ==
    /\ pc[p] = "read"
    /\ "config" \in Faults
    /\ Complain(p)
    /\ Vanish(p)
    /\ UNCHANGED <<world, config, flock, protection>>

\* config apply-tray --enforce: the new lists are on disk before the lock is taken
ApplyTray(p) ==
    /\ pc[p] = "read"
    /\ cmd[p] = "tray"
    /\ config' \in SUBSET Domain
    /\ cfg' = [cfg EXCEPT ![p] = config']
    /\ Goto(p, "acquire")
    /\ UNCHANGED <<envVars, flock, protection, cmd, status, resolved, err, outcome>>

\* config add-lock, remove-lock, apply-tray without --enforce: never takes the lock
EditConfig(p) ==
    /\ pc[p] = "read"
    /\ cmd[p] = "edit"
    /\ config' \in SUBSET Domain
    /\ Vanish(p)
    /\ UNCHANGED <<envVars, flock, protection>>

FirstStep(c) ==
    CASE c \in Enforcers \cup {"apply"} -> "bypass"
      [] c \in Refreshers -> "detect"
      [] c = "enable" -> "resolve"
      [] c = "disable" -> "disableNft"

\* Mutant: every process opens a lock file of its own.
AcquireOwnFile(p) ==
    /\ pc[p] = "acquire"
    /\ flock' = p
    /\ Goto(p, FirstStep(cmd[p]))
    /\ UNCHANGED <<envVars, config, protection, memory>>

\* A lift that begins makes earlier reports void.
Begin(step) == reported' = IF step = "disableNft" THEN {} ELSE reported

Acquire(p) ==
    /\ pc[p] = "acquire"
    /\ flock = NoProc
    /\ flock' = p
    /\ Goto(p, FirstStep(cmd[p]))
    /\ Begin(FirstStep(cmd[p]))
    /\ UNCHANGED <<world, config, protection, memory>>

Unobtainable ==
    \/ "lockTimeout" \in Faults /\ flock # NoProc
    \/ "lockOpen" \in Faults

\* Mutants: a lock that cannot be had is only a warning; whoever finds the lock
\* busy leaves the work to its holder and reports nothing.
AcquireFailsSoftly(p) ==
    /\ pc[p] = "acquire"
    /\ Unobtainable
    /\ Goto(p, FirstStep(cmd[p]))
    /\ UNCHANGED <<envVars, config, flock, protection, memory>>
AcquireFailsQuietly(p) ==
    /\ pc[p] = "acquire"
    /\ Unobtainable
    /\ Vanish(p)
    /\ UNCHANGED <<envVars, config, flock, protection>>

\* ExitLockAcquire: the command is not retried
AcquireFails(p) ==
    /\ pc[p] = "acquire"
    /\ Unobtainable
    /\ Complain(p)
    /\ Vanish(p)
    /\ UNCHANGED <<world, config, flock, protection>>

BypassApply(p) ==
    /\ pc[p] = "bypass"
    /\ Goto(p, IF cmd[p] \in Enforcers THEN "detect" ELSE "exit")
    /\ UNCHANGED <<envVars, config, flock, protection, memory>>

\* enforce.Run turns a bypass error into a fail-closed lock.Enable
BypassApplyFails(p) ==
    /\ pc[p] = "bypass"
    /\ "bypass" \in Faults
    /\ err' = [err EXCEPT ![p] = TRUE]
    /\ Goto(p, IF cmd[p] \in Enforcers THEN "resolve" ELSE "exit")
    /\ UNCHANGED <<envVars, config, flock, protection, cmd, cfg, status, resolved, outcome>>

\* Mutant: the state column of nmcli is passed on as it is.
DetectedRaw ==
    {IF vpn THEN "activated" ELSE "inactive"}
        \cup (IF "nmcli" \in Faults THEN {"unknown"} ELSE {})

\* vpn.Detect
Detected ==
    {IF vpn THEN "active" ELSE "inactive"}
        \cup (IF "nmcli" \in Faults THEN {"unknown"} ELSE {})

\* Mutants: an unknown status is treated as active; a refresh that finds the
\* table in place leaves it alone; an active VPN needs no lift.
AfterDetectUnknownOpens(c, s) ==
    IF s = "inactive" THEN "resolve"
    ELSE IF c \in Enforcers THEN "disableNft" ELSE "exit"
AfterDetectKeepsTable(c, s) ==
    IF s # "active" /\ (c \in Enforcers \/ ~table) THEN "resolve"
    ELSE IF s = "active" /\ c \in Enforcers THEN "disableNft" ELSE "exit"
AfterDetectActiveKeeps(c, s) ==
    IF s # "active" THEN "resolve" ELSE "exit"

\* enforce.Run and RefreshLock after the detection
AfterDetect(c, s) ==
    IF s # "active" THEN "resolve"
    ELSE IF c \in Enforcers THEN "disableNft" ELSE "exit"

Detect(p) ==
    /\ pc[p] = "detect"
    /\ \E s \in Detected :
          /\ status' = [status EXCEPT ![p] = s]
          /\ Goto(p, AfterDetect(cmd[p], s))
          /\ Begin(AfterDetect(cmd[p], s))
    /\ UNCHANGED <<world, config, flock, protection, cmd, cfg, resolved, err, outcome>>

\* net.Resolver with PreferGo answers a name the hosts file lists from the
\* hosts file: 0.0.0.0 and ::, so no address of the domain is among the answers.
LookupIPAddr(d) == IF d \in hosts THEN {} ELSE Addresses(d)

Answers(p) == UNION {LookupIPAddr(d) : d \in cfg[p]}

ResolveDomains(p) ==
    /\ pc[p] = "resolve"
    /\ \E got \in SUBSET Answers(p) :
          /\ got = Answers(p) \/ "dns" \in Faults
          /\ resolved' = [resolved EXCEPT ![p] = got]
    /\ Goto(p, "nftDelete")
    /\ UNCHANGED <<envVars, config, flock, protection, cmd, cfg, status, err, outcome>>

\* ApplyNFT returns before it touches the table
ScriptFails(p) ==
    /\ pc[p] = "nftDelete"
    /\ "script" \in Faults
    /\ Fail(p)
    /\ UNCHANGED <<world, config, flock, protection, cmd, cfg, status, resolved, outcome>>

\* nft delete table, whose error both callers ignore
DeleteTable ==
    \/ table' = FALSE /\ blocked' = {}
    \/ "nftDelete" \in Faults /\ UNCHANGED <<table, blocked>>

NftDelete(p) ==
    /\ pc[p] = "nftDelete"
    /\ DeleteTable
    /\ Goto(p, "nftLoad")
    /\ UNCHANGED <<envVars, config, flock, hosts, memory>>

\* BuildScript prints "elements = { }" for a family without addresses, which is
\* no set to nft.
Accepts(p) == \A f \in Family : \E a \in resolved[p] : a[2] = f

\* nft -f adds the script's elements to a table that is still there
LoadTable(p) ==
    /\ table' = TRUE
    /\ blocked' = blocked \cup resolved[p]

NftLoad(p) ==
    /\ pc[p] = "nftLoad"
    /\ Accepts(p)
    /\ LoadTable(p)
    /\ Goto(p, "writeHosts")
    /\ UNCHANGED <<envVars, config, flock, hosts, memory>>

\* nft refuses the script as a whole, and Enable returns without looking at the
\* hosts file.
NftRefuses(p) ==
    /\ pc[p] = "nftLoad"
    /\ ~Accepts(p)
    /\ Fail(p)
    /\ UNCHANGED <<world, config, flock, protection, cmd, cfg, status, resolved, outcome>>

\* An error, or the runner's timeout after the script took effect
NftLoadFails(p) ==
    /\ pc[p] = "nftLoad"
    /\ Accepts(p)
    /\ "nftLoad" \in Faults
    /\ LoadTable(p) \/ UNCHANGED <<table, blocked>>
    /\ Fail(p)
    /\ UNCHANGED <<world, config, flock, hosts, cmd, cfg, status, resolved, outcome>>

\* What the managed block lists after hosts.Manager Enable or Disable
Block(p) == IF pc[p] = "writeHosts" /\ ManageHosts THEN cfg[p] ELSE {}

\* os.WriteFile truncates, then writes: cut short, it leaves a prefix
TornHosts(p) == {hosts} \cup SUBSET Block(p)

WriteHosts(p) ==
    /\ pc[p] = "writeHosts"
    /\ hosts' = Block(p)
    /\ outcome' = [outcome EXCEPT ![p] = "applied"]
    /\ reported' = {"locked"}
    /\ Goto(p, "exit")
    /\ UNCHANGED <<world, config, flock, table, blocked, cmd, cfg, status, resolved, err>>

\* Mutant: only the hosts block is removed.
DisableNftSkipped(p) ==
    /\ pc[p] = "disableNft"
    /\ Goto(p, "stripHosts")
    /\ UNCHANGED <<envVars, config, flock, protection, memory>>

DisableNft(p) ==
    /\ pc[p] = "disableNft"
    /\ DeleteTable
    /\ Goto(p, "stripHosts")
    /\ UNCHANGED <<envVars, config, flock, hosts, memory>>

StripHosts(p) ==
    /\ pc[p] = "stripHosts"
    /\ hosts' = Block(p)
    /\ outcome' = [outcome EXCEPT ![p] = "disabled"]
    /\ Goto(p, "exit")
    /\ UNCHANGED <<envVars, config, flock, table, blocked, cmd, cfg, status, resolved, err>>

HostsFails(p) ==
    /\ pc[p] \in {"writeHosts", "stripHosts"}
    /\ "hosts" \in Faults
    /\ hosts' \in TornHosts(p)
    /\ Fail(p)
    /\ UNCHANGED <<world, config, flock, table, blocked, cmd, cfg, status, resolved, outcome>>

\* The deferred release, and the end of the process
Release(p) ==
    /\ pc[p] = "exit"
    /\ flock' = NoProc
    /\ Vanish(p)
    /\ UNCHANGED <<envVars, config, protection>>

\* SIGKILL: the kernel drops the flock of a dead process
Crash(p) ==
    /\ pc[p] # "idle"
    /\ Spend("crash")
    /\ flock' = IF flock = p THEN NoProc ELSE flock
    /\ hosts' \in IF pc[p] \in {"writeHosts", "stripHosts"} THEN TornHosts(p) ELSE {hosts}
    /\ Vanish(p)
    /\ UNCHANGED <<vpn, pending, marker, reported, config, table, blocked>>

\* nft state, run_dir and every process are lost; /etc survives
Reboot ==
    /\ Spend("crash")
    /\ vpn' = FALSE
    /\ pending' = BootEvent
    /\ marker' = FALSE
    /\ reported' = {}
    /\ flock' = NoProc
    /\ table' = FALSE
    /\ blocked' = {}
    /\ pc' = [p \in Proc |-> "idle"]
    /\ cmd' = [p \in Proc |-> "none"]
    /\ cfg' = [p \in Proc |-> {}]
    /\ status' = [p \in Proc |-> "none"]
    /\ resolved' = [p \in Proc |-> {}]
    /\ err' = [p \in Proc |-> FALSE]
    /\ outcome' = [p \in Proc |-> "none"]
    /\ UNCHANGED <<config, hosts>>
-----------------------------------------------------------------------------
Dispatch(p) == DispatchDirect(p) \/ DispatchDebounced(p)

Configure(p) == ReadConfig(p) \/ ReadConfigFails(p) \/ ApplyTray(p) \/ EditConfig(p)

Enable(p) ==
    \/ ResolveDomains(p) \/ ScriptFails(p) \/ NftDelete(p)
    \/ NftLoad(p) \/ NftRefuses(p) \/ NftLoadFails(p) \/ WriteHosts(p)

Disable(p) == DisableNft(p) \/ StripHosts(p)

Step(p) ==
    \/ Configure(p)
    \/ Acquire(p) \/ AcquireFails(p)
    \/ BypassApply(p) \/ BypassApplyFails(p)
    \/ Detect(p)
    \/ Enable(p) \/ Disable(p) \/ HostsFails(p)
    \/ Release(p)

Next ==
    \/ VpnChange \/ NetworkEvent \/ MarkerExpires \/ DispatchDropped \/ Reboot
    \/ \E p \in Proc :
          Dispatch(p) \/ TimerTick(p) \/ UserCommand(p) \/ Step(p) \/ Crash(p)

Spec == Init /\ [][Next]_vars

\* The kernel schedules every process, lockfile.Acquire tries again every
\* 100 ms and so does not miss a free flock for ever, systemd's timer keeps
\* ticking and NetworkManager hands every event to the dispatcher script.
Fairness ==
    /\ \A p \in Proc : WF_vars(Step(p)) /\ SF_vars(Acquire(p))
    /\ WF_vars(\E p \in Proc : TimerTick(p))
    /\ WF_vars(DispatchDropped \/ \E p \in Proc : Dispatch(p))
    /\ WF_vars(MarkerExpires)

FairSpec == Spec /\ Fairness
-----------------------------------------------------------------------------
(* What must hold in every behaviour.                                      *)

\* What the hosts block and the nft sets do to a domain
Shielded(d) == d \in hosts \/ (table /\ Addresses(d) \subseteq blocked)

HostsWanted(p) == IF ManageHosts THEN cfg[p] ELSE {}

\* The protection p's command is about to report as complete
Locked(p) == table /\ resolved[p] \subseteq blocked /\ hosts = HostsWanted(p)

Lifted == ~table /\ blocked = {} /\ hosts = {}

\* Exit code 0 or lock_applied in the JSON, of a command that had to lock
ReportsLocked(p) ==
    /\ pc[p] = "exit"
    /\ \/ outcome[p] = "applied"
       \/ /\ cmd[p] \in Lockers
          /\ status[p] # "active"
          /\ ~err[p]

ReportsLifted(p) ==
    /\ pc[p] = "exit"
    /\ cmd[p] \in Enforcers \cup {"disable"}
    /\ cmd[p] \in Enforcers => status[p] = "active"
    /\ ~err[p]

\* Exactly the process that holds the flock is between Acquire and the end
\* of the deferred release, whatever was killed or timed out before
\* (cli.go acquireIfNeeded, lockfile.go).
MutualExclusion == \A p \in Proc : pc[p] \in Critical <=> flock = p

\* A command that reports the lock as applied leaves it in place: the table
\* is loaded with everything that resolved and the hosts block lists exactly
\* the domains of its configuration, even if other commands, edits and
\* crashes went on meanwhile (enforce.go Run and RefreshLock, lock.go Enable).
SuccessLocks == \A p \in Proc : ReportsLocked(p) => Locked(p)

\* A command that reports success after it found the VPN active, or after
\* lock disable, leaves neither the table nor the hosts block behind
\* (enforce.go Run, lock.go Disable).
SuccessLifts == \A p \in Proc : ReportsLifted(p) => Lifted

\* The two resources change only in the hands of the holder of the flock,
\* one at a time: the steps of every command together implement SerializedLock.
Serial == INSTANCE SerializedLock
SerialSpec == Serial!Spec

MayOpen(p) ==
    /\ pc[p] \in {"disableNft", "stripHosts"}
    /\ status[p] = "active" \/ cmd[p] = "disable"

\* A shielded domain becomes reachable only in the hands of a process that
\* found the VPN active, or of lock disable: not in the middle of a refresh,
\* not after an error of nmcli, DNS or the bypass (lock.go Enable, enforce.go).
OnlyALiftOpens ==
    [][\A d \in Domain :
          Shielded(d) /\ ~Shielded(d)' => \E p \in Proc : MayOpen(p)]_vars

Quiescent ==
    /\ \A k \in EventKinds : pending[k] = 0
    /\ \A p \in Proc : pc[p] = "idle"

\* When every event has been handled and nothing runs, the protection agrees
\* with the VPN: every configured domain is shielded when it is down, table and
\* hosts block are gone when it is up, in whatever order the commands of
\* overlapping events got the flock.  The refreshes and repeated enforces among
\* them find the domains in our own hosts block and have their script refused
\* (assets.go dispatcher, enforce.go Run and RefreshLock, lock.go ApplyNFT).
QuiescentAgrees ==
    Quiescent => IF vpn THEN Lifted ELSE \A d \in config : Shielded(d)

OpenIsReported == "failed" \in reported /\ "locked" \notin reported

\* As long as nothing kills a command, a VPN that is down finds every
\* configured domain shielded once the events are handled, unless the commands
\* that ended since the decision for the last lift have all failed to lock and
\* said so: no failure of nmcli, DNS or the bypass, no script that nft refuses
\* and no wait for the flock in vain leaves a domain open unreported, or undoes a
\* lock that was reported (enforce.go Run, vpn.go Detect, lock.go Enable,
\* lockfile.go Acquire).
QuiescentFailsClosed ==
    Quiescent /\ ~vpn => (\A d \in config : Shielded(d)) \/ OpenIsReported

\* The answers are complete
ResolveAll(p) == ResolveDomains(p) /\ resolved'[p] = Answers(p)

\* Among the refreshes that never end, some get complete answers.
ResolverRecovers == SF_vars(\E p \in Proc : ResolveAll(p))

\* Killed commands, reboots, lost events, lock timeouts, failures of DNS,
\* apply-trays that overlap and a manual lock disable are all repaired once the
\* VPN stays down, provided that DNS answers in full now and then: the timer's
\* refresh ends with every configured domain that has addresses of both families
\* shielded, for good.  A domain of one family may stay open: alone it makes no
\* script that nft accepts (assets.go refreshTimer, enforce.go RefreshLock,
\* nft/script.go BuildScript).
HealsWhenDown ==
    <>[]~vpn /\ ResolverRecovers
        => <>[](\A d \in config \cap IPv4 \cap IPv6 : Shielded(d))

\* Once the VPN stays up, the protection is lifted for good.
LiftsWhenUp == <>[]vpn => <>[]Lifted
=============================================================================
