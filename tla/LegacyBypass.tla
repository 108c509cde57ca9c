---------------------------- MODULE LegacyBypass ----------------------------
(***************************************************************************)
(* The older program vpn-bypass, which only keeps bypass routes: its       *)
(* systemd service applies domains.txt, started by a timer, a              *)
(* NetworkManager hook and install, while a user applies it too, edits it, *)
(* installs the program and uninstalls it.  All of them meet at one lock.  *)
(*                                                                         *)
(* A domain stands for the /32 prefix it resolves to.  A Link is a normal  *)
(* gateway with its device; which one Detect prefers is left open.  The    *)
(* table holds at most one route to a prefix.  Only the holder of the lock *)
(* applies or edits, so its memory is kept in one place.                   *)
(***************************************************************************)
EXTENDS Naturals, Sequences

CONSTANTS
    Service,      \* the process of vpn-bypass-routes.service: vpn-bypass apply
    User,         \* commands given by hand, one at a time
    Domain,       \* the domains that domains.txt may list
    Link,         \* normal gateways, each with its device
    NoRoute,      \* no route to this prefix
    MaxCommands,  \* bound: commands given by hand
    MaxChanges,   \* bound: VPN events, links and routes of other programs changing
    MaxFaults     \* bound: failures of ip, DNS, systemctl and files; kills; reboots

Proc == {Service, User}

Units == {"service", "timer"}

\* What install writes, in its order
Assets == <<"binary", "config", "service", "timer", "hook">>

File == {"binary", "config", "service", "timer", "hook"}

ASSUME ProcAssumption == Service # User
ASSUME LinkAssumption == NoRoute \notin Link
ASSUME BoundAssumption == MaxCommands \in Nat /\ MaxChanges \in Nat /\ MaxFaults \in Nat

VARIABLES
    up,       \* links that are up
    table,    \* the main table: the link of the route to each prefix
    state,    \* the routes routes.v4 lists
    domains,  \* the domains domains.txt lists
    files,    \* installed files
    loaded,   \* unit files systemd has read
    timerOn,  \* the timer is enabled and active
    served,   \* how the last run of the service ended
    pc,       \* where each process is
    cmd,      \* the command it runs
    gw,       \* the gateway that the apply under the lock found
    todo,     \* routes it has yet to delete or add
    asked,    \* domains it read; of a remove, those it will write
    wanted,   \* domains it resolved
    result,   \* its outcome so far
    owner,    \* history: who installed the route to each prefix
    steady,   \* history: the link of gw has been up since it was found
    mishap,   \* history: an apply was killed, left a recorded route or wrote no state
    spent     \* how much of each bound is used up

disk == <<domains, files>>
systemd == <<loaded, timerOn, served>>
network == <<up, table, owner>>
memory == <<gw, todo, asked, wanted, result>>
vars == <<disk, systemd, network, memory, state, pc, cmd, steady, mishap, spent>>

Route == [target : Domain, link : Link]

RoutesVia(targets, link) == {[target |-> d, link |-> link] : d \in targets}

Commands == {"apply", "add", "remove", "install", "uninstall"}

Applying == {"delete", "add", "done"}

TypeOK ==
    /\ up \in SUBSET Link
    /\ table \in [Domain -> Link \cup {NoRoute}]
    /\ state \in SUBSET Route
    /\ domains \in SUBSET Domain
    /\ files \in SUBSET File
    /\ loaded \in SUBSET Units
    /\ timerOn \in BOOLEAN
    /\ served \in {"none", "ok", "error"}
    /\ pc \in [Proc -> {"idle", "wait", "begin", "gateway", "rewrite", "reload", "enable",
                        "start", "starting", "remove", "unload", "unhook"} \cup Applying]
    /\ cmd \in [Proc -> Commands]
    /\ gw \in Link \cup {NoRoute}
    /\ todo \in SUBSET Route
    /\ asked \in SUBSET Domain
    /\ wanted \in SUBSET Domain
    /\ result \in {"ok", "error"}
    /\ owner \in [Domain -> {"none", "bypass", "foreign"}]
    /\ steady \in BOOLEAN
    /\ mishap \in BOOLEAN
    /\ spent \in [{"command", "change", "fault"} -> Nat]

Init ==
    /\ up = {}
    /\ table = [d \in Domain |-> NoRoute]
    /\ state = {}
    /\ domains = {}
    /\ files = {}
    /\ loaded = {}
    /\ timerOn = FALSE
    /\ served = "none"
    /\ pc = [p \in Proc |-> "idle"]
    /\ cmd = [p \in Proc |-> "apply"]
    /\ gw = NoRoute
    /\ todo = {}
    /\ asked = {}
    /\ wanted = {}
    /\ result = "ok"
    /\ owner = [d \in Domain |-> "none"]
    /\ steady = FALSE
    /\ mishap = FALSE
    /\ spent = [k \in {"command", "change", "fault"} |-> 0]

Bound(k) == CASE k = "command" -> MaxCommands
              [] k = "change" -> MaxChanges
              [] k = "fault" -> MaxFaults

Spend(k) ==
    /\ spent[k] < Bound(k)
    /\ spent' = [spent EXCEPT ![k] = @ + 1]
-----------------------------------------------------------------------------
(* cli.Run and the lock.                                                   *)

\* Mutant: add does not take the lock.
RequiresLockButAdd == {"apply", "remove", "install", "uninstall"}

\* requiresLock and runInstall
RequiresLock == {"apply", "add", "remove", "install", "uninstall"}

\* Mutant: install keeps the lock while it starts the service.
LockedUntilActive ==
    {"begin", "gateway", "rewrite", "remove", "unload", "unhook"} \cup Applying
        \cup {"reload", "enable", "start", "starting"}

\* install releases it before it activates the units.
Locked == {"begin", "gateway", "rewrite", "remove", "unload", "unhook"} \cup Applying

Goto(p, next) == pc' = [pc EXCEPT ![p] = next]

Launch(p, c) ==
    /\ pc[p] = "idle"
    /\ Goto(p, IF c \in RequiresLock THEN "wait" ELSE "begin")
    /\ cmd' = [cmd EXCEPT ![p] = c]

\* The process ends; systemd keeps the outcome of its service, and nothing
\* depends on that of a command of the user.
Exit(p, res) ==
    /\ Goto(p, "idle")
    /\ cmd' = [cmd EXCEPT ![p] = "apply"]
    /\ served' = IF p = Service THEN res ELSE served

\* The memory of a process that lets go of the lock is forgotten.
Forget == gw' = NoRoute /\ todo' = {} /\ asked' = {} /\ wanted' = {} /\ result' = "ok"

Busy(p) == \E q \in Proc \ {p} : pc[q] \in Locked

Acquire(p) ==
    /\ pc[p] = "wait"
    /\ ~Busy(p)
    /\ Goto(p, "begin")
    /\ UNCHANGED <<disk, systemd, network, memory, state, cmd, steady, mishap, spent>>

\* The lock has been busy for thirty seconds.
AcquireFails(p) ==
    /\ pc[p] = "wait"
    /\ Busy(p)
    /\ Exit(p, "error")
    /\ UNCHANGED <<disk, loaded, timerOn, network, memory, state, steady, mishap, spent>>

Begins(p, c) == pc[p] = "begin" /\ cmd[p] = c
-----------------------------------------------------------------------------
(* vpn-bypass apply: runApply and routes.Apply.                            *)

ReadDomains(p) ==
    /\ Begins(p, "apply")
    /\ "config" \in files
    /\ asked' = domains
    /\ Goto(p, "gateway")
    /\ UNCHANGED <<disk, systemd, network, gw, todo, wanted, result, state, cmd, steady, mishap, spent>>

ReadDomainsFails(p) ==
    /\ Begins(p, "apply")
    /\ "config" \notin files
    /\ Exit(p, "error")
    /\ UNCHANGED <<disk, loaded, timerOn, network, memory, state, steady, mishap, spent>>

\* gateway.Detect, then ReadState, which nobody else changes meanwhile.
DetectGateway(p) ==
    /\ pc[p] = "gateway"
    /\ \E l \in up : gw' = l
    /\ todo' = state
    /\ steady' = TRUE
    /\ Goto(p, "delete")
    /\ UNCHANGED <<disk, systemd, network, asked, wanted, result, state, cmd, mishap, spent>>

\* Mutant: the error of Detect is overlooked.
DetectGatewayUnchecked(p) ==
    /\ pc[p] = "gateway"
    /\ up = {}
    /\ Goto(p, "delete")
    /\ UNCHANGED <<disk, systemd, network, memory, state, cmd, steady, mishap, spent>>

DetectGatewayFails(p) ==
    /\ pc[p] = "gateway"
    /\ IF up = {} THEN UNCHANGED spent ELSE Spend("fault")
    /\ Exit(p, "error")
    /\ Forget
    /\ UNCHANGED <<disk, loaded, timerOn, network, state, steady, mishap>>

\* Mutant: ip route del without via and dev.
DeleteByTarget(p) ==
    /\ pc[p] = "delete"
    /\ \E r \in todo :
          /\ todo' = todo \ {r}
          /\ table' = [table EXCEPT ![r.target] = NoRoute]
          /\ owner' = [owner EXCEPT ![r.target] = "none"]
    /\ UNCHANGED <<disk, systemd, up, gw, asked, wanted, result, state, pc, cmd, steady, mishap, spent>>

\* ip route del fails if there is no such route; a failure is only logged.
DeleteRoute(p) ==
    /\ pc[p] = "delete"
    /\ \E r \in todo :
          /\ todo' = todo \ {r}
          /\ IF table[r.target] = r.link
             THEN \/ /\ table' = [table EXCEPT ![r.target] = NoRoute]
                     /\ owner' = [owner EXCEPT ![r.target] = "none"]
                     /\ UNCHANGED <<mishap, spent>>
                  \/ Spend("fault") /\ mishap' = TRUE /\ UNCHANGED <<table, owner>>
             ELSE UNCHANGED <<table, owner, mishap, spent>>
    /\ UNCHANGED <<disk, systemd, up, gw, asked, wanted, result, state, pc, cmd, steady>>

\* Domains that do not resolve are only logged.
Resolve(p) ==
    /\ pc[p] = "delete"
    /\ todo = {}
    /\ \E found \in SUBSET asked :
          /\ IF found = asked THEN UNCHANGED spent ELSE Spend("fault")
          /\ found = {} => asked = {}
          /\ wanted' = found
          /\ todo' = RoutesVia(found, gw)
    /\ Goto(p, "add")
    /\ UNCHANGED <<disk, systemd, network, gw, asked, result, state, cmd, steady, mishap>>

\* "no domains resolved to IPv4": the old routes are deleted, and stay recorded.
ResolveFails(p) ==
    /\ pc[p] = "delete"
    /\ todo = {}
    /\ asked # {}
    /\ Spend("fault")
    /\ result' = "error"
    /\ Goto(p, "done")
    /\ UNCHANGED <<disk, systemd, network, gw, todo, asked, wanted, state, cmd, steady, mishap>>

\* Mutant: ip route add instead of replace.
AddIfAbsent(p) ==
    /\ pc[p] = "add"
    /\ \E r \in todo :
          /\ todo' = todo \ {r}
          /\ IF r.link \in up /\ table[r.target] = NoRoute
             THEN /\ table' = [table EXCEPT ![r.target] = r.link]
                  /\ owner' = [owner EXCEPT ![r.target] = "bypass"]
                  /\ UNCHANGED result
             ELSE result' = "error" /\ UNCHANGED <<table, owner>>
    /\ UNCHANGED <<disk, systemd, up, gw, asked, wanted, state, pc, cmd, steady, mishap, spent>>

\* ip route replace fails without the link, and possibly with it.
AddRoute(p) ==
    /\ pc[p] = "add"
    /\ \E r \in todo :
          /\ todo' = todo \ {r}
          /\ \/ /\ r.link \in up
                /\ table' = [table EXCEPT ![r.target] = r.link]
                /\ owner' = [owner EXCEPT ![r.target] = "bypass"]
                /\ UNCHANGED <<result, spent>>
             \/ /\ IF r.link \in up THEN Spend("fault") ELSE UNCHANGED spent
                /\ result' = "error"
                /\ UNCHANGED <<table, owner>>
    /\ UNCHANGED <<disk, systemd, up, gw, asked, wanted, state, pc, cmd, steady, mishap>>

\* Routes that could not be added are written too.
WriteState(p) ==
    /\ pc[p] = "add"
    /\ todo = {}
    /\ state' = RoutesVia(wanted, gw)
    /\ Goto(p, "done")
    /\ UNCHANGED <<disk, systemd, network, memory, cmd, steady, mishap, spent>>

WriteStateFails(p) ==
    /\ pc[p] = "add"
    /\ todo = {}
    /\ Spend("fault")
    /\ result' = "error"
    /\ mishap' = TRUE
    /\ Goto(p, "done")
    /\ UNCHANGED <<disk, systemd, network, gw, todo, asked, wanted, state, cmd, steady>>

ApplyDone(p) ==
    /\ pc[p] = "done"
    /\ Exit(p, result)
    /\ Forget
    /\ UNCHANGED <<disk, loaded, timerOn, network, state, steady, mishap, spent>>

Apply(p) ==
    \/ ReadDomains(p) \/ ReadDomainsFails(p) \/ DetectGateway(p) \/ DetectGatewayFails(p)
    \/ DeleteRoute(p) \/ Resolve(p) \/ ResolveFails(p) \/ AddRoute(p)
    \/ WriteState(p) \/ WriteStateFails(p) \/ ApplyDone(p)
-----------------------------------------------------------------------------
(* vpn-bypass add and remove.                                              *)

AddDomain ==
    /\ Begins(User, "add")
    /\ \E d \in Domain : domains' = domains \cup {d}
    /\ files' = files \cup {"config"}
    /\ Exit(User, "ok")
    /\ UNCHANGED <<loaded, timerOn, network, memory, state, steady, mishap, spent>>

\* os.WriteFile empties the list before it writes the domains that are left.
RemoveDomain ==
    /\ Begins(User, "remove")
    /\ \E d \in domains : asked' = domains \ {d}
    /\ domains' = {}
    /\ Goto(User, "rewrite")
    /\ UNCHANGED <<files, systemd, network, gw, todo, wanted, result, state, cmd, steady, mishap, spent>>

RemoveNothing ==
    /\ Begins(User, "remove")
    /\ domains # Domain
    /\ Exit(User, "ok")
    /\ UNCHANGED <<disk, loaded, timerOn, network, memory, state, steady, mishap, spent>>

WriteDomains ==
    /\ pc[User] = "rewrite"
    /\ domains' = asked
    /\ Exit(User, "ok")
    /\ Forget
    /\ UNCHANGED <<files, loaded, timerOn, network, state, steady, mishap, spent>>

Edit == AddDomain \/ RemoveDomain \/ RemoveNothing \/ WriteDomains
-----------------------------------------------------------------------------
(* vpn-bypass install and uninstall.                                       *)

UserFails ==
    /\ Spend("fault")
    /\ Exit(User, "error")
    /\ UNCHANGED <<disk, loaded, timerOn, network, memory, state, steady, mishap>>

\* installFiles writes one file after the other, without the binary for
\* --no-copy; a failure or a kill leaves the first n.  Then the lock is released.
InstallFiles ==
    /\ Begins(User, "install")
    /\ \E n \in 0 .. Len(Assets), first \in {1, 2} :
          /\ files' = files \cup {Assets[i] : i \in first .. n}
          /\ IF n = Len(Assets)
             THEN Goto(User, "reload") /\ UNCHANGED <<cmd, served, spent>>
             ELSE Spend("fault") /\ Exit(User, "error")
    /\ UNCHANGED <<domains, loaded, timerOn, network, memory, state, steady, mishap>>

\* systemd.Activate
DaemonReload(from) ==
    /\ pc[User] = from
    /\ loaded' = files \cap Units
    /\ Goto(User, IF from = "reload" THEN "enable" ELSE "unhook")
    /\ UNCHANGED <<disk, timerOn, served, network, memory, state, cmd, steady, mishap, spent>>

EnableTimer ==
    /\ pc[User] = "enable"
    /\ "timer" \in loaded
    /\ timerOn' = TRUE
    /\ Goto(User, "start")
    /\ UNCHANGED <<disk, loaded, served, network, memory, state, cmd, steady, mishap, spent>>

Startable == "binary" \in files /\ "service" \in loaded

\* systemctl start joins a run of the service that is there.
StartUnit ==
    /\ pc[User] = "start"
    /\ IF pc[Service] = "idle" /\ Startable
       THEN /\ pc' = [pc EXCEPT ![User] = "starting", ![Service] = "wait"]
            /\ served' = "none"
       ELSE /\ Goto(User, "starting")
            /\ served' = IF pc[Service] = "idle" THEN "error" ELSE served
    /\ UNCHANGED <<disk, loaded, timerOn, network, memory, state, cmd, steady, mishap, spent>>

Started ==
    /\ pc[User] = "starting"
    /\ pc[Service] = "idle"
    /\ Exit(User, served)
    /\ UNCHANGED <<disk, loaded, timerOn, network, memory, state, steady, mishap, spent>>

\* The error of systemctl disable is ignored.
DisableTimer ==
    /\ Begins(User, "uninstall")
    /\ \/ "timer" \in loaded /\ timerOn' = FALSE /\ UNCHANGED spent
       \/ "timer" \notin loaded /\ UNCHANGED <<timerOn, spent>>
       \/ Spend("fault") /\ UNCHANGED timerOn
    /\ Goto(User, "remove")
    /\ UNCHANGED <<disk, loaded, served, network, memory, state, cmd, steady, mishap>>

\* systemd.Uninstall removes neither the binary nor routes, --purge domains.txt.
RemoveFiles ==
    /\ pc[User] = "remove"
    /\ \E gone \in {{"service", "timer"}, {"service", "timer", "config"}} :
          /\ files' = files \ gone
          /\ domains' = IF "config" \in gone THEN {} ELSE domains
    /\ Goto(User, "unload")
    /\ UNCHANGED <<systemd, network, memory, state, cmd, steady, mishap, spent>>

RemoveHook ==
    /\ pc[User] = "unhook"
    /\ files' = files \ {"hook"}
    /\ Exit(User, "ok")
    /\ UNCHANGED <<domains, loaded, timerOn, network, memory, state, steady, mishap, spent>>

SetUp ==
    \/ InstallFiles \/ DaemonReload("reload") \/ EnableTimer \/ StartUnit \/ Started
    \/ DisableTimer \/ RemoveFiles \/ DaemonReload("unload") \/ RemoveHook
    \/ pc[User] \in {"reload", "enable", "start", "remove", "unload", "unhook"} /\ UserFails
-----------------------------------------------------------------------------
(* What happens around them.                                               *)

GiveCommand ==
    /\ Spend("command")
    /\ \E c \in Commands : Launch(User, c)
    /\ UNCHANGED <<disk, systemd, network, memory, state, steady, mishap>>

StartService ==
    /\ Startable
    /\ Launch(Service, "apply")
    /\ served' = "none"
    /\ UNCHANGED <<disk, loaded, timerOn, network, memory, state, steady, mishap>>

TimerTick ==
    /\ timerOn
    /\ StartService
    /\ UNCHANGED spent

\* The hook starts the service for vpn-up and vpn-down; one that runs already
\* is joined, which changes nothing.
Hook ==
    /\ "hook" \in files
    /\ Spend("change")
    /\ StartService

LinkUp(l) ==
    /\ l \notin up
    /\ Spend("change")
    /\ up' = up \cup {l}
    /\ UNCHANGED <<disk, systemd, table, owner, memory, state, pc, cmd, steady, mishap>>

\* The kernel drops the routes of a link that goes down.
LinkDown(l) ==
    /\ l \in up
    /\ Spend("change")
    /\ up' = up \ {l}
    /\ table' = [d \in Domain |-> IF table[d] = l THEN NoRoute ELSE table[d]]
    /\ owner' = [d \in Domain |-> IF table[d] = l THEN "none" ELSE owner[d]]
    /\ steady' = (steady /\ gw # l)
    /\ UNCHANGED <<disk, systemd, memory, state, pc, cmd, mishap>>

ForeignRoute(d, l) ==
    /\ table[d] = NoRoute
    /\ l \in up
    /\ Spend("change")
    /\ table' = [table EXCEPT ![d] = l]
    /\ owner' = [owner EXCEPT ![d] = "foreign"]
    /\ UNCHANGED <<disk, systemd, up, memory, state, pc, cmd, steady, mishap>>

Kill(p) ==
    /\ pc[p] # "idle"
    /\ Spend("fault")
    /\ Exit(p, "error")
    /\ IF pc[p] \in Locked THEN Forget ELSE UNCHANGED memory
    /\ mishap' = (mishap \/ pc[p] \in Applying)
    /\ UNCHANGED <<disk, loaded, timerOn, network, state, steady>>

\* /run with the state file is empty after a boot.
Reboot ==
    /\ Spend("fault")
    /\ pc' = [p \in Proc |-> "idle"]
    /\ cmd' = [p \in Proc |-> "apply"]
    /\ Forget
    /\ table' = [d \in Domain |-> NoRoute]
    /\ owner' = [d \in Domain |-> "none"]
    /\ state' = {}
    /\ loaded' = files \cap Units
    /\ timerOn' = (timerOn /\ "timer" \in files)
    /\ served' = "none"
    /\ mishap' = FALSE
    /\ UNCHANGED <<disk, up, steady>>

Around ==
    \/ GiveCommand \/ TimerTick \/ Hook \/ Reboot
    \/ \E l \in Link : LinkUp(l) \/ LinkDown(l)
    \/ \E d \in Domain, l \in Link : ForeignRoute(d, l)
    \/ \E p \in Proc : Kill(p)

Command(p) == Acquire(p) \/ AcquireFails(p) \/ Apply(p)

Next ==
    \/ Edit \/ SetUp \/ Around
    \/ \E p \in Proc : Command(p)

Spec == Init /\ [][Next]_vars

\* Commands run on, and the timer elapses again and again.
FairSpec ==
    /\ Spec
    /\ WF_vars(Command(User) \/ Edit \/ SetUp)
    /\ WF_vars(Command(Service))
    /\ WF_vars(TimerTick)
-----------------------------------------------------------------------------
(* What must hold in every behaviour.                                      *)

\* The routes as the abstract route manager sees them: an apply is under way
\* from the time it has read its record until it ends.
Routes == INSTANCE RouteManager
    WITH Target <- Domain, Claim <- Domain, recorded <- state,
         busy <- \E p \in Proc : pc[p] \in Applying, lost <- mishap

\* vpn-bypass deletes no route but those of its record and loses track of none
\* that it installed, unless it is killed or a file cannot be written
\* (routes/apply.go Apply).
RoutesSpec == Routes!Spec

\* An apply that succeeds worked on the list as it is now, although the user
\* edits it, and what resolved is routed around the VPN, unless the gateway
\* was lost on the way (cli.go runApply under the lock).
SuccessIsCurrent ==
    \A p \in Proc : pc[p] = "done" /\ result = "ok" =>
        /\ asked = domains
        /\ steady => \A d \in wanted : table[d] = gw /\ owner[d] = "bypass"

\* The service that install starts and waits for gets the lock and finds its
\* list: install has written the files and released the lock before (cli.go
\* runInstall).
InstallServes ==
    [][pc[User] = "starting" /\ pc[Service] \in {"wait", "begin"} /\ pc'[Service] = "idle" =>
          spent'["fault"] > spent["fault"]]_vars

Working ==
    /\ timerOn
    /\ "service" \in loaded
    /\ {"binary", "config"} \subseteq files
    /\ up # {}

\* As long as the timer works and some gateway is up, the listed domains are
\* routed around the VPN again and again, whatever failed before and whoever
\* put a route of its own there (install.go TimerContent, ip.go AddRoute).
KeepsRouted == []<>(Working => \A d \in domains : owner[d] = "bypass" /\ table[d] \in up)
=============================================================================
