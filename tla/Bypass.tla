------------------------------- MODULE Bypass -------------------------------
(***************************************************************************)
(* bypass.Apply, the step of enforce that Killswitch takes as one: it      *)
(* deletes the routes its state file records, resolves the bypass domains  *)
(* and adds the new routes one ip command at a time, then replaces the     *)
(* state file.  The run lock keeps two applies apart, so there is one      *)
(* process; links, default routes, other programs' routes and the          *)
(* configuration change while it runs, and it may be killed.  uninstall    *)
(* removes the recorded routes without the run lock.                       *)
(*                                                                         *)
(* A Link is a gateway with its device.  The main table holds at most one  *)
(* route to a target, as ip route replace treats routes of one metric.     *)
(***************************************************************************)
EXTENDS Naturals, Sequences

CONSTANTS
    Target,         \* IPv4 prefixes
    Link,           \* gateways, each with its device
    Virtual,        \* those on a device of gateway.excludedPatterns
    NoRoute,        \* no route to this target
    DomainTargets,  \* the /32 targets of bypass.domains; {} if no domain is listed
    IPTargets,      \* the prefixes bypass.ips may be expanded to
    Faults,         \* what may go wrong in this instance, see FaultKinds
    MaxChanges,     \* bound: events of the environment
    MaxCrashes      \* bound: killed applies and reboots

FaultKinds ==
    {"dns",    \* some bypass domains do not resolve
     "del",    \* ip route del fails although the route is there
     "add",    \* ip route replace fails
     "state"}  \* the state file cannot be read or replaced

ASSUME LinkAssumption == Virtual \subseteq Link /\ NoRoute \notin Link
ASSUME TargetAssumption == DomainTargets \subseteq Target /\ IPTargets \subseteq Target
\* removeBypassRoutes appends "/32" to the first field of a line, where
\* WriteState has put a target that has its prefix length already.
DelArgument(t) == <<t, "/32">>

ASSUME PrefixAssumption == \A t \in Target : DelArgument(t) \notin Target
ASSUME FaultAssumption == Faults \subseteq FaultKinds
ASSUME BoundAssumption == MaxChanges \in Nat /\ MaxCrashes \in Nat

VARIABLES
    defaults,  \* ip -4 route show default, in the order it prints
    kernel,    \* the main table: the link of the route to each target
    state,     \* the routes state_path records; {} if it does not exist
    ips,       \* the prefixes of bypass.ips in config.toml
    pc,        \* where Apply is
    gw,        \* the gateway it found
    todo,      \* routes it has yet to delete or add
    wanted,    \* targets of the prefixes it read, then of all new routes
    result,    \* Apply's error, once known
    gone,      \* vpn-killswitch was uninstalled
    spent,     \* how much of each bound is used up
    owner,     \* history: who installed the route to each target
    steady,    \* history: the gateway's link has been up since it was found
    mishap     \* history: an apply was killed, a route of its state file was not
               \* deleted although it was there, or the new state file not written

environment == <<defaults, ips, spent, gone>>
memory == <<gw, todo, wanted, result>>
history == <<owner, steady, mishap>>
vars == <<environment, kernel, state, pc, memory, history>>

Route == [target : Target, link : Link]

RoutesVia(targets, link) == {[target |-> t, link |-> link] : t \in targets}

TypeOK ==
    /\ defaults \in Seq(Link)
    /\ kernel \in [Target -> Link \cup {NoRoute}]
    /\ state \in SUBSET Route
    /\ ips \in SUBSET IPTargets
    /\ pc \in {"idle", "gateway", "read", "delete", "add", "done"}
    /\ gw \in Link \cup {NoRoute}
    /\ todo \in SUBSET Route
    /\ wanted \in SUBSET Target
    /\ result \in {"none", "ok", "error"}
    /\ gone \in BOOLEAN
    /\ spent \in [{"change", "crash"} -> Nat]
    /\ owner \in [Target -> {"none", "bypass", "foreign"}]
    /\ steady \in BOOLEAN
    /\ mishap \in BOOLEAN

Init ==
    /\ defaults = <<>>
    /\ kernel = [t \in Target |-> NoRoute]
    /\ state = {}
    /\ ips = IPTargets
    /\ pc = "idle"
    /\ gw = NoRoute
    /\ todo = {}
    /\ wanted = {}
    /\ result = "none"
    /\ gone = FALSE
    /\ spent = [k \in {"change", "crash"} |-> 0]
    /\ owner = [t \in Target |-> "none"]
    /\ steady = FALSE
    /\ mishap = FALSE
-----------------------------------------------------------------------------
(* bypass.Apply.                                                           *)

Start ==
    /\ pc = "idle"
    /\ ~gone
    /\ pc' = "gateway"
    /\ wanted' = ips
    /\ UNCHANGED <<environment, kernel, state, gw, todo, result, history>>

Return(res) ==
    /\ pc' = "done"
    /\ result' = res
    /\ todo' = {}

\* gateway.Detect: the first default route that is not on a virtual device
Normal == {i \in DOMAIN defaults : defaults[i] \notin Virtual}

DetectGateway ==
    /\ pc = "gateway"
    /\ \E i \in Normal :
          /\ \A j \in Normal : i <= j
          /\ gw' = defaults[i]
    /\ pc' = "read"
    /\ steady' = TRUE
    /\ UNCHANGED <<environment, kernel, state, todo, wanted, result, owner, mishap>>

\* Mutant: the error of Detect is overlooked.
DetectGatewayUnchecked ==
    /\ pc = "gateway"
    /\ Normal = {}
    /\ pc' = "read"
    /\ UNCHANGED <<environment, kernel, state, memory, history>>

DetectGatewayFails ==
    /\ pc = "gateway"
    /\ Normal = {}
    /\ Return("error")
    /\ UNCHANGED <<environment, kernel, state, gw, wanted, history>>

\* Mutant: a new state file is started without the old routes.
ReadNothing ==
    /\ pc = "read"
    /\ todo' = {}
    /\ pc' = "delete"
    /\ UNCHANGED <<environment, kernel, state, gw, wanted, result, history>>

ReadState ==
    /\ pc = "read"
    /\ todo' = state
    /\ pc' = "delete"
    /\ UNCHANGED <<environment, kernel, state, gw, wanted, result, history>>

ReadStateFails ==
    /\ pc = "read"
    /\ "state" \in Faults
    /\ Return("error")
    /\ UNCHANGED <<environment, kernel, state, gw, wanted, history>>

\* Mutant: ip route del without the gateway deletes whatever route is there.
DeleteByTarget(r) ==
    /\ pc = "delete"
    /\ kernel' = [kernel EXCEPT ![r.target] = NoRoute]
    /\ owner' = [owner EXCEPT ![r.target] = "none"]
    /\ todo' = todo \ {r}
    /\ UNCHANGED <<environment, state, pc, gw, wanted, result, steady, mishap>>

\* ip route del fails, which is only logged, when no such route is there
DeleteRoute(r) ==
    /\ pc = "delete"
    /\ \/ /\ kernel[r.target] = r.link
          /\ kernel' = [kernel EXCEPT ![r.target] = NoRoute]
          /\ owner' = [owner EXCEPT ![r.target] = "none"]
          /\ UNCHANGED mishap
       \/ /\ kernel[r.target] # r.link \/ "del" \in Faults
          /\ mishap' = (mishap \/ kernel[r.target] = r.link)
          /\ UNCHANGED <<kernel, owner>>
    /\ todo' = todo \ {r}
    /\ UNCHANGED <<environment, state, pc, gw, wanted, result, steady>>

\* BuildRoutes, and the check that some domain resolved
BuildRoutes ==
    /\ pc = "delete"
    /\ todo = {}
    /\ \E answers \in SUBSET DomainTargets :
          /\ answers = DomainTargets \/ "dns" \in Faults
          /\ IF DomainTargets # {} /\ answers = {}
             THEN Return("error") /\ UNCHANGED wanted
             ELSE /\ wanted' = wanted \cup answers
                  /\ todo' = RoutesVia(wanted', gw)
                  /\ pc' = "add"
                  /\ UNCHANGED result
    /\ UNCHANGED <<environment, kernel, state, gw, history>>

Up(l) == \E i \in DOMAIN defaults : defaults[i] = l

\* Mutant: a route that cannot be added is only logged.
AddRouteLogged(r) ==
    /\ pc = "add"
    /\ \/ /\ Up(r.link)
          /\ kernel' = [kernel EXCEPT ![r.target] = r.link]
          /\ owner' = [owner EXCEPT ![r.target] = "bypass"]
       \/ /\ ~Up(r.link) \/ "add" \in Faults
          /\ UNCHANGED <<kernel, owner>>
    /\ todo' = todo \ {r}
    /\ UNCHANGED <<environment, state, pc, gw, wanted, result, steady, mishap>>

\* ip route replace; an error is counted, and reported at the end
AddRoute(r) ==
    /\ pc = "add"
    /\ \/ /\ Up(r.link)
          /\ kernel' = [kernel EXCEPT ![r.target] = r.link]
          /\ owner' = [owner EXCEPT ![r.target] = "bypass"]
          /\ UNCHANGED result
       \/ /\ ~Up(r.link) \/ "add" \in Faults
          /\ result' = "error"
          /\ UNCHANGED <<kernel, owner>>
    /\ todo' = todo \ {r}
    /\ UNCHANGED <<environment, state, pc, gw, wanted, steady, mishap>>

\* The routes that failed are recorded with the others.
WriteState ==
    /\ pc = "add"
    /\ todo = {}
    /\ state' = RoutesVia(wanted, gw)
    /\ Return(IF result = "error" THEN "error" ELSE "ok")
    /\ UNCHANGED <<environment, kernel, gw, wanted, history>>

WriteStateFails ==
    /\ pc = "add"
    /\ todo = {}
    /\ "state" \in Faults
    /\ Return("error")
    /\ mishap' = TRUE
    /\ UNCHANGED <<environment, kernel, state, gw, wanted, owner, steady>>

Forget ==
    /\ pc' = "idle"
    /\ gw' = NoRoute
    /\ todo' = {}
    /\ wanted' = {}
    /\ result' = "none"
    /\ steady' = FALSE

Finish ==
    /\ pc = "done"
    /\ Forget
    /\ UNCHANGED <<environment, kernel, state, owner, mishap>>

Apply ==
    \/ Start \/ DetectGateway \/ DetectGatewayFails \/ ReadState \/ ReadStateFails
    \/ \E r \in todo : DeleteRoute(r) \/ AddRoute(r)
    \/ BuildRoutes \/ WriteState \/ WriteStateFails \/ Finish
-----------------------------------------------------------------------------
(* What goes on around it.                                                 *)

Spend(k, bound) ==
    /\ spent[k] < bound
    /\ spent' = [spent EXCEPT ![k] = @ + 1]

\* A network or a VPN connects; the metric decides where its default route is.
LinkUp(l) ==
    /\ ~Up(l)
    /\ Spend("change", MaxChanges)
    /\ defaults' = <<l>> \o defaults \/ defaults' = Append(defaults, l)
    /\ UNCHANGED <<ips, gone, kernel, state, pc, memory, history>>

\* The kernel drops every route through a link that goes down.
LinkDown(l) ==
    /\ Up(l)
    /\ Spend("change", MaxChanges)
    /\ \E i \in DOMAIN defaults :
          /\ defaults[i] = l
          /\ defaults' = SubSeq(defaults, 1, i - 1) \o SubSeq(defaults, i + 1, Len(defaults))
    /\ kernel' = [t \in Target |-> IF kernel[t] = l THEN NoRoute ELSE kernel[t]]
    /\ owner' = [t \in Target |-> IF kernel[t] = l THEN "none" ELSE owner[t]]
    /\ steady' = (steady /\ gw # l)
    /\ UNCHANGED <<ips, gone, state, pc, memory, mishap>>

\* Another program, such as a VPN client, adds a route of its own.
ForeignRoute(t, l) ==
    /\ Up(l)
    /\ kernel[t] = NoRoute
    /\ Spend("change", MaxChanges)
    /\ kernel' = [kernel EXCEPT ![t] = l]
    /\ owner' = [owner EXCEPT ![t] = "foreign"]
    /\ UNCHANGED <<defaults, ips, gone, state, pc, memory, steady, mishap>>

EditIPs ==
    /\ Spend("change", MaxChanges)
    /\ ips' \in SUBSET IPTargets
    /\ UNCHANGED <<defaults, gone, kernel, state, pc, memory, history>>

Crash ==
    /\ pc # "idle"
    /\ Spend("crash", MaxCrashes)
    /\ Forget
    /\ mishap' = TRUE
    /\ UNCHANGED <<defaults, ips, gone, kernel, state, owner>>

\* state_path is under /run
Reboot ==
    /\ Spend("crash", MaxCrashes)
    /\ defaults' = <<>>
    /\ kernel' = [t \in Target |-> NoRoute]
    /\ owner' = [t \in Target |-> "none"]
    /\ state' = {}
    /\ Forget
    /\ mishap' = FALSE
    /\ UNCHANGED <<ips, gone>>

\* system.Uninstall, the routes; with --purge the state file goes as well
Uninstall ==
    /\ ~gone
    /\ Spend("change", MaxChanges)
    /\ LET deleted == {t \in Target :
                          \E r \in state : DelArgument(r.target) = t /\ r.link = kernel[t]}
       IN  /\ kernel' = [t \in Target |-> IF t \in deleted THEN NoRoute ELSE kernel[t]]
           /\ owner' = [t \in Target |-> IF t \in deleted THEN "none" ELSE owner[t]]
    /\ state' \in {state, {}}
    /\ gone' = TRUE
    /\ UNCHANGED <<defaults, ips, pc, memory, steady, mishap>>

Around ==
    \/ \E l \in Link : LinkUp(l) \/ LinkDown(l) \/ \E t \in Target : ForeignRoute(t, l)
    \/ EditIPs \/ Crash \/ Reboot \/ Uninstall

Next == Apply \/ Around

Spec == Init /\ [][Next]_vars
-----------------------------------------------------------------------------
(* What must hold in every behaviour.                                      *)

Ours(t) == owner[t] = "bypass"

\* Between two applies every route they installed is in the state file, so the
\* next apply can delete it: also after applies that failed half way because
\* the gateway was gone, nothing resolved, the state file could not be read or
\* a route not be added (bypass.go Apply, state.go WriteState).  A mishap spoils
\* this for good, until a reboot.
Recorded ==
    pc = "idle" /\ ~gone /\ ~mishap =>
        \A t \in Target : Ours(t) => [target |-> t, link |-> kernel[t]] \in state

Succeeded == pc = "done" /\ result = "ok" /\ ~gone

\* An apply that reports success has replaced the routes of the last one, which
\* may have gone through another gateway or to addresses no longer wanted: the
\* only routes left of ours are to wanted targets through the normal gateway
\* it found, and they are recorded (bypass.go Apply, gateway.go Detect).
SuccessIsExact ==
    Succeeded /\ ~mishap =>
        \A t \in Target : Ours(t) => /\ t \in wanted
                                     /\ kernel[t] = gw /\ gw \notin Virtual
                                     /\ [target |-> t, link |-> gw] \in state

\* An apply that reports success has every wanted target on a route past the
\* VPN, unless the gateway's link went down on the way; this survives every
\* failure and killed applies before it (bypass.go Apply, gateway.go Detect).
SuccessRoutes ==
    Succeeded /\ steady => \A t \in wanted : kernel[t] = gw /\ kernel[t] \notin Virtual

\* The routes recorded, and while an apply deletes them those it has read: the
\* state file may be removed under it by uninstall --purge.
RecordedNow == IF pc = "delete" THEN state \cup todo ELSE state

\* Every apply, whatever fails in it, keeps what RouteManager promises to the
\* other users of the routing table: it deletes only routes that equal a
\* recorded one, installs only to its own targets, and ends with all its
\* routes on record (bypass.go Apply, state.go).
Routes == INSTANCE RouteManager WITH
              Claim <- DomainTargets \cup IPTargets,
              table <- kernel,
              recorded <- RecordedNow,
              busy <- pc # "idle",
              lost <- mishap \/ gone
RoutesSpec == Routes!Spec
=============================================================================
