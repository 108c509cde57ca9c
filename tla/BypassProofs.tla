---------------------------- MODULE BypassProofs ----------------------------
(***************************************************************************)
(* What bypass.Apply promises, for any set of targets, links and bounds.   *)
(* Routed rests on the steps of one apply alone and survives every fault   *)
(* and crash; Accounted relates the routes one apply leaves behind to the  *)
(* next one, and holds until a mishap.                                     *)
(***************************************************************************)
EXTENDS Bypass, SequenceTheorems, TLAPS

Found == pc \in {"read", "delete", "add"} \/ (pc = "done" /\ result = "ok")

\* The plan of an apply goes through the gateway it found.
Planned ==
    /\ Found => gw \in Link \ Virtual
    /\ pc = "add" => todo \subseteq RoutesVia(wanted, gw)

\* While no route failed and the gateway's link stays up, what is not routed
\* yet is still to be added.
Routed ==
    ~gone /\ steady =>
        /\ pc = "add" /\ result # "error" =>
              \A t \in wanted : kernel[t] = gw \/ [target |-> t, link |-> gw] \in todo
        /\ pc = "done" /\ result = "ok" => \A t \in wanted : kernel[t] = gw

IInv == TypeOK /\ Planned /\ Routed

LEMMA InitInv == Init => IInv
<1> SUFFICES ASSUME Init PROVE IInv
  OBVIOUS
<1>1. TypeOK
  BY EmptySeq DEF Init, TypeOK
<1>2. Planned /\ Routed
  BY DEF Init, Planned, Routed, Found
<1> QED
  BY <1>1, <1>2 DEF IInv

\* The default routes stay a sequence of links.
LEMMA DefaultsType ==
    ASSUME TypeOK, NEW l \in Link, LinkUp(l) \/ LinkDown(l)
    PROVE  defaults' \in Seq(Link)
<1>1. CASE LinkUp(l)
  <2>1. <<l>> \in Seq(Link)
    OBVIOUS
  <2>2. <<l>> \o defaults \in Seq(Link) /\ Append(defaults, l) \in Seq(Link)
    BY <2>1, ConcatProperties, AppendProperties DEF TypeOK
  <2> QED
    BY <1>1, <2>2 DEF LinkUp
<1>2. CASE LinkDown(l)
  <2>1. PICK i \in DOMAIN defaults :
               defaults' = SubSeq(defaults, 1, i - 1)
                              \o SubSeq(defaults, i + 1, Len(defaults))
    BY <1>2 DEF LinkDown
  <2>2. /\ SubSeq(defaults, 1, i - 1) \in Seq(Link)
        /\ SubSeq(defaults, i + 1, Len(defaults)) \in Seq(Link)
    BY DEF TypeOK
  <2> QED
    BY <2>1, <2>2, ConcatProperties
<1> QED
  BY <1>1, <1>2

\* Every step keeps the types.
LEMMA TypeStep ==
    ASSUME TypeOK, Planned, [Next]_vars
    PROVE  TypeOK'
<1> USE LinkAssumption, TargetAssumption, BoundAssumption
        DEF TypeOK, environment, memory, history, Route, RoutesVia, Return, Forget, Spend
<1>1. CASE Start \/ ReadState \/ ReadStateFails \/ Finish
  BY <1>1 DEF Start, ReadState, ReadStateFails, Finish
<1>2. CASE DetectGateway \/ DetectGatewayFails
  <2>1. ASSUME NEW i \in Normal PROVE defaults[i] \in Link
    BY DEF Normal
  <2> QED
    BY <1>2, <2>1 DEF DetectGateway, DetectGatewayFails
<1>3. ASSUME NEW r \in todo, DeleteRoute(r) \/ AddRoute(r)
      PROVE  TypeOK'
  BY <1>3 DEF DeleteRoute, AddRoute
<1>4. CASE BuildRoutes
  <2>1. gw \in Link \/ pc' # "add"
    BY <1>4 DEF BuildRoutes, Planned, Found
  <2> QED
    BY <1>4, <2>1 DEF BuildRoutes
<1>5. CASE WriteState \/ WriteStateFails
  <2>1. CASE WriteState
    BY <2>1 DEF WriteState, Planned, Found
  <2>2. CASE WriteStateFails
    BY <2>2 DEF WriteStateFails
  <2> QED
    BY <1>5, <2>1, <2>2
<1>6. ASSUME NEW l \in Link, LinkUp(l) \/ LinkDown(l)
      PROVE  TypeOK'
  <2>1. defaults' \in Seq(Link)
    BY <1>6, DefaultsType
  <2>2. CASE LinkUp(l)
    BY <2>1, <2>2 DEF LinkUp
  <2>3. CASE LinkDown(l)
    <3>1. /\ kernel' \in [Target -> Link \cup {NoRoute}]
          /\ owner' \in [Target -> {"none", "bypass", "foreign"}]
          /\ steady' \in BOOLEAN
          /\ spent' \in [{"change", "crash"} -> Nat]
      BY <2>3 DEF LinkDown
    <3> QED
      BY <2>1, <2>3, <3>1 DEF LinkDown
  <2> QED
    BY <1>6, <2>2, <2>3
<1>7. ASSUME NEW l \in Link, NEW t \in Target, ForeignRoute(t, l)
      PROVE  TypeOK'
  BY <1>7 DEF ForeignRoute
<1>8. CASE EditIPs \/ Crash \/ Reboot
  <2>1. CASE EditIPs
    BY <2>1 DEF EditIPs
  <2>2. CASE Crash
    <3>1. spent' \in [{"change", "crash"} -> Nat]
      BY <2>2 DEF Crash
    <3> QED
      BY <2>2, <3>1 DEF Crash
  <2>3. CASE Reboot
    <3>1. /\ defaults' \in Seq(Link)
          /\ kernel' \in [Target -> Link \cup {NoRoute}]
          /\ owner' \in [Target -> {"none", "bypass", "foreign"}]
      BY <2>3, EmptySeq DEF Reboot
    <3>2. spent' \in [{"change", "crash"} -> Nat]
      BY <2>3 DEF Reboot
    <3> QED
      BY <2>3, <3>1, <3>2 DEF Reboot
  <2> QED
    BY <1>8, <2>1, <2>2, <2>3
<1>9. CASE Uninstall
  BY <1>9 DEF Uninstall
<1>10. CASE UNCHANGED vars
  BY <1>10 DEF vars
<1> QED
  BY <1>1, <1>2, <1>3, <1>4, <1>5, <1>6, <1>7, <1>8, <1>9, <1>10 DEF Next, Apply, Around

\* The steps of an apply keep to its plan and leave nothing out of it.
LEMMA PlanStep ==
    ASSUME IInv, [Next]_vars
    PROVE  Planned' /\ Routed'
<1> USE LinkAssumption
        DEF IInv, TypeOK, Planned, Routed, Found, environment, memory, history, RoutesVia, Return, Forget
<1>1. CASE Start \/ ReadState \/ ReadStateFails \/ Finish
  BY <1>1 DEF Start, ReadState, ReadStateFails, Finish
<1>2. CASE DetectGateway \/ DetectGatewayFails
  <2>1. ASSUME NEW i \in Normal PROVE defaults[i] \in Link \ Virtual
    BY DEF Normal
  <2> QED
    BY <1>2, <2>1 DEF DetectGateway, DetectGatewayFails
<1>3. ASSUME NEW r \in todo, DeleteRoute(r)
      PROVE  Planned' /\ Routed'
  BY <1>3 DEF DeleteRoute
<1>4. ASSUME NEW r \in todo, AddRoute(r)
      PROVE  Planned' /\ Routed'
  <2>1. r \in RoutesVia(wanted, gw)
    BY <1>4 DEF AddRoute
  <2>2. Planned'
    BY <1>4 DEF AddRoute
  <2>3. Routed'
    BY <1>4, <2>1 DEF AddRoute, Route
  <2> QED
    BY <2>2, <2>3
<1>5. CASE BuildRoutes
  BY <1>5 DEF BuildRoutes
<1>6. CASE WriteState \/ WriteStateFails
  <2>1. CASE WriteState
    <3>1. Planned'
      BY <2>1 DEF WriteState
    <3>2. Routed'
      BY <2>1 DEF WriteState
    <3> QED
      BY <3>1, <3>2
  <2>2. CASE WriteStateFails
    BY <2>2 DEF WriteStateFails
  <2> QED
    BY <1>6, <2>1, <2>2
<1>7. ASSUME NEW l \in Link, LinkUp(l) \/ LinkDown(l)
      PROVE  Planned' /\ Routed'
  <2>1. CASE LinkUp(l)
    BY <2>1 DEF LinkUp
  <2>2. CASE LinkDown(l)
    <3>1. Planned'
      BY <2>2 DEF LinkDown
    <3>2. Routed'
      BY <2>2 DEF LinkDown
    <3> QED
      BY <3>1, <3>2
  <2> QED
    BY <1>7, <2>1, <2>2
<1>8. ASSUME NEW l \in Link, NEW t \in Target, ForeignRoute(t, l)
      PROVE  Planned' /\ Routed'
  BY <1>8 DEF ForeignRoute
<1>9. CASE EditIPs \/ Crash \/ Reboot \/ Uninstall
  BY <1>9 DEF EditIPs, Crash, Reboot, Uninstall
<1>10. CASE UNCHANGED vars
  BY <1>10 DEF vars
<1> QED
  BY <1>1, <1>2, <1>3, <1>4, <1>5, <1>6, <1>7, <1>8, <1>9, <1>10 DEF Next, Apply, Around

\* The three parts of IInv hold in every reachable state.
THEOREM Invariance == Spec => []IInv
<1>1. IInv /\ [Next]_vars => IInv'
  BY TypeStep, PlanStep DEF IInv
<1> QED
  BY InitInv, <1>1, PTL DEF Spec

\* Every variable keeps its type, whatever fails or changes during an apply.
THEOREM TypeCorrect == Spec => []TypeOK
<1>1. IInv => TypeOK
  BY DEF IInv
<1> QED
  BY Invariance, <1>1, PTL

\* An apply that reports success has every wanted target on a route past the
\* VPN (bypass.go Apply), under every fault, crash and change of the network.
THEOREM RoutesInPlace == Spec => []SuccessRoutes
<1>1. IInv => SuccessRoutes
  BY DEF IInv, Planned, Found, Routed, SuccessRoutes, Succeeded
<1> QED
  BY Invariance, <1>1, PTL
-----------------------------------------------------------------------------
(* What one apply leaves to the next.                                      *)

Entry(t) == [target |-> t, link |-> kernel[t]]

\* Wherever an apply is, each route of ours is in the state file, still to be
\* deleted, or one of the new ones.
Accounted ==
    ~gone /\ ~mishap => \A t \in Target : Ours(t) =>
        /\ pc \in {"idle", "gateway", "read", "done"} => Entry(t) \in state
        /\ pc = "delete" => Entry(t) \in todo
        /\ pc = "add" \/ (pc = "done" /\ result = "ok") => t \in wanted /\ kernel[t] = gw

LEMMA AccountedStep ==
    ASSUME IInv, Accounted, [Next]_vars
    PROVE  Accounted'
<1> USE LinkAssumption
        DEF IInv, TypeOK, Accounted, Ours, Entry, environment, memory, history, Return, Forget
<1>1. CASE Crash \/ Reboot
  BY <1>1 DEF Crash, Reboot
<1>2. CASE Start \/ DetectGateway \/ DetectGatewayFails \/ ReadState \/ ReadStateFails \/ Finish
  BY <1>2 DEF Start, DetectGateway, DetectGatewayFails, ReadState, ReadStateFails, Finish
<1>3. ASSUME NEW r \in todo, DeleteRoute(r)
      PROVE  Accounted'
  <2>1. CASE mishap'
    BY <2>1 DEF Accounted
  <2>2. CASE ~mishap'
    <3>1. ~mishap /\ gone' = gone /\ pc = "delete" /\ pc' = pc /\ todo' = todo \ {r}
      BY <1>3, <2>2 DEF DeleteRoute
    <3>2. \A t \in Target : Ours(t)' =>
             Ours(t) /\ kernel'[t] = kernel[t] /\ Entry(t) # r
      <4>1. CASE /\ kernel' = [kernel EXCEPT ![r.target] = NoRoute]
                 /\ owner' = [owner EXCEPT ![r.target] = "none"]
        BY <4>1 DEF Route
      <4>2. CASE /\ mishap' = (mishap \/ kernel[r.target] = r.link)
                 /\ UNCHANGED <<kernel, owner>>
        <5>1. kernel[r.target] # r.link
          BY <2>2, <4>2
        <5> QED
          BY <4>2, <5>1
      <4> QED
        BY <1>3, <4>1, <4>2 DEF DeleteRoute
    <3> QED
      BY <3>1, <3>2
  <2> QED
    BY <2>1, <2>2
<1>4. ASSUME NEW r \in todo, AddRoute(r)
      PROVE  Accounted'
  <2>1. r \in RoutesVia(wanted, gw)
    BY <1>4 DEF AddRoute, Planned
  <2>2. r.target \in wanted /\ r.link = gw
    BY <2>1 DEF RoutesVia
  <2> QED
    BY <1>4, <2>2 DEF AddRoute, Route
<1>5. CASE BuildRoutes
  BY <1>5 DEF BuildRoutes
<1>6. CASE WriteState \/ WriteStateFails
  BY <1>6 DEF WriteState, WriteStateFails, RoutesVia
<1>7. ASSUME NEW l \in Link, LinkUp(l) \/ LinkDown(l)
      PROVE  Accounted'
  BY <1>7 DEF LinkUp, LinkDown
<1>8. ASSUME NEW l \in Link, NEW t \in Target, ForeignRoute(t, l)
      PROVE  Accounted'
  BY <1>8 DEF ForeignRoute
<1>9. CASE EditIPs \/ Uninstall
  BY <1>9 DEF EditIPs, Uninstall
<1>10. CASE UNCHANGED vars
  BY <1>10 DEF vars
<1> QED
  BY <1>1, <1>2, <1>3, <1>4, <1>5, <1>6, <1>7, <1>8, <1>9, <1>10 DEF Next, Apply, Around

\* Accounted holds in every reachable state.
LEMMA AlwaysAccounted == Spec => [](IInv /\ Accounted)
<1>1. Init => IInv /\ Accounted
  BY InitInv DEF Init, Accounted, Ours
<1>2. IInv /\ Accounted /\ [Next]_vars => (IInv /\ Accounted)'
  BY TypeStep, PlanStep, AccountedStep DEF IInv
<1> QED
  BY <1>1, <1>2, PTL DEF Spec

\* Between two applies the state file lists every route of ours until a mishap,
\* also when an apply gave up because no domain resolved or a route could not
\* be added (bypass.go Apply): nothing is left behind that the next apply could
\* not find.
THEOREM RoutesRecorded == Spec => []Recorded
<1>1. Accounted => Recorded
  BY DEF Accounted, Recorded, Entry
<1> QED
  BY AlwaysAccounted, <1>1, PTL

\* An apply that reports success leaves no route of ours but the wanted ones,
\* recorded and past the VPN, whatever the previous apply used (bypass.go Apply).
THEOREM RoutesExact == Spec => []SuccessIsExact
<1>1. IInv /\ Accounted => SuccessIsExact
  BY DEF IInv, Planned, Found, Accounted, Entry, SuccessIsExact, Succeeded
<1> QED
  BY AlwaysAccounted, <1>1, PTL
-----------------------------------------------------------------------------
(* Bypass implements RouteManager.                                         *)

Claim == DomainTargets \cup IPTargets

\* Nothing but targets of the configuration is wanted or recorded.
Claimed ==
    /\ wanted \subseteq Claim
    /\ \A r \in RecordedNow : r.target \in Claim

LEMMA ClaimedStep ==
    ASSUME TypeOK, Claimed, [Next]_vars
    PROVE  Claimed'
<1> USE DEF Claimed, Claim, RecordedNow, RoutesVia, Return, Forget, environment, memory, history
<1>1. CASE Start
  BY <1>1 DEF Start, TypeOK
<1>2. CASE DetectGateway \/ DetectGatewayFails \/ ReadState \/ ReadStateFails \/ Finish
  BY <1>2 DEF DetectGateway, DetectGatewayFails, ReadState, ReadStateFails, Finish
<1>3. ASSUME NEW r \in todo, DeleteRoute(r) \/ AddRoute(r)
      PROVE  Claimed'
  BY <1>3 DEF DeleteRoute, AddRoute
<1>4. CASE BuildRoutes
  BY <1>4 DEF BuildRoutes
<1>5. CASE WriteState \/ WriteStateFails
  BY <1>5 DEF WriteState, WriteStateFails
<1>6. ASSUME NEW l \in Link, NEW t \in Target, ForeignRoute(t, l)
      PROVE  Claimed'
  BY <1>6 DEF ForeignRoute
<1>7. ASSUME NEW l \in Link, LinkUp(l) \/ LinkDown(l)
      PROVE  Claimed'
  BY <1>7 DEF LinkUp, LinkDown
<1>8. CASE EditIPs \/ Crash \/ Reboot \/ Uninstall
  BY <1>8 DEF EditIPs, Crash, Reboot, Uninstall
<1>9. CASE UNCHANGED vars
  BY <1>9 DEF vars
<1> QED
  BY <1>1, <1>2, <1>3, <1>4, <1>5, <1>6, <1>7, <1>8, <1>9 DEF Next, Apply, Around

\* A route that is deleted is one that is recorded.
LEMMA DeleteImplements ==
    ASSUME TypeOK, Claimed, NEW r \in todo, DeleteRoute(r)
    PROVE  [Routes!Next]_(Routes!vars)
<1> USE DEF TypeOK, DeleteRoute, RecordedNow, Routes!vars
<1>1. pc = "delete" /\ pc' = pc /\ gone' = gone /\ state' = state /\ todo' = todo \ {r}
  BY DEF environment
<1>2. CASE kernel[r.target] = r.link /\ kernel' # kernel
  <2>1. r \in Route /\ r.target \in Target
    BY DEF Route
  <2>2. Routes!Entry(r.target) = r
    BY <1>2, <2>1 DEF Routes!Entry, Route
  <2>3. RecordedNow' \in {RecordedNow, RecordedNow \ {r}}
    BY <1>1
  <2>4. Routes!Delete(r.target)
    BY <1>1, <1>2, <2>1, <2>2, <2>3 DEF Routes!Delete
  <2> QED
    BY <2>1, <2>4 DEF Routes!Next
<1>3. CASE kernel' = kernel /\ owner' = owner /\ mishap' = mishap
  <2>1. RecordedNow' \subseteq RecordedNow
    BY <1>1
  <2>2. RecordedNow' \in SUBSET {q \in Routes!Route : q.target \in DomainTargets \cup IPTargets}
    BY <2>1 DEF Claimed, Claim, Routes!Route, Route
  <2>3. Routes!Record
    BY <1>1, <1>3, <2>2 DEF Routes!Record
  <2> QED
    BY <2>3 DEF Routes!Next
<1>4. CASE kernel' = kernel /\ owner' = owner /\ mishap'
  <2>1. RecordedNow' \subseteq RecordedNow
    BY <1>1
  <2>2. Routes!Lose
    BY <1>1, <1>4, <2>1 DEF Routes!Lose
  <2> QED
    BY <2>2 DEF Routes!Next
<1>5. CASE kernel[r.target] = r.link /\ kernel' = kernel /\ mishap' = mishap
           /\ owner' = [owner EXCEPT ![r.target] = "none"]
           /\ kernel' = [kernel EXCEPT ![r.target] = NoRoute]
  <2>1. r.target \in Target /\ r.link \in Link
    BY DEF Route
  <2>2. kernel[r.target] = NoRoute
    BY <1>5, <2>1
  <2> QED
    BY <1>5, <2>1, <2>2, LinkAssumption
<1> QED
  BY <1>2, <1>3, <1>4, <1>5

\* Every other step of an apply begins, installs, records or ends one.
LEMMA ApplyImplements ==
    ASSUME IInv, Accounted, Claimed, Apply
    PROVE  [Routes!Next]_(Routes!vars)
<1> USE DEF environment, memory, history, Return, Forget, RecordedNow, Routes!vars
<1>1. CASE Start
  <2>1. Routes!Begin
    BY <1>1 DEF Start, Routes!Begin
  <2> QED
    BY <2>1 DEF Routes!Next
<1>2. CASE DetectGateway \/ DetectGatewayFails \/ ReadState \/ ReadStateFails \/ BuildRoutes
  BY <1>2 DEF DetectGateway, DetectGatewayFails, ReadState, ReadStateFails, BuildRoutes
<1>3. ASSUME NEW r \in todo, DeleteRoute(r)
      PROVE  [Routes!Next]_(Routes!vars)
  BY <1>3, DeleteImplements DEF IInv
<1>4. ASSUME NEW r \in todo, AddRoute(r)
      PROVE  [Routes!Next]_(Routes!vars)
  <2>1. pc = "add" /\ pc' = pc /\ gone' = gone /\ mishap' = mishap /\ state' = state
    BY <1>4 DEF AddRoute
  <2>2. r.target \in wanted /\ r.target \in Target /\ r.link \in Link
    BY <2>1 DEF IInv, TypeOK, Planned, RoutesVia, Route
  <2>3. CASE kernel' = kernel /\ owner' = owner
    BY <2>1, <2>3
  <2>4. CASE /\ kernel' = [kernel EXCEPT ![r.target] = r.link]
             /\ owner' = [owner EXCEPT ![r.target] = "bypass"]
    <3>1. Routes!Install(r.target, r.link)
      BY <2>1, <2>2, <2>4 DEF Routes!Install, Claimed, Claim
    <3> QED
      BY <2>2, <3>1 DEF Routes!Next
  <2> QED
    BY <1>4, <2>3, <2>4 DEF AddRoute
<1>5. CASE WriteState
  <2>1. gw \in Link
    BY <1>5 DEF WriteState, IInv, Planned, Found
  <2>2. RoutesVia(wanted, gw) \subseteq {q \in Routes!Route : q.target \in DomainTargets \cup IPTargets}
    BY <2>1 DEF RoutesVia, Routes!Route, Claimed, Claim, IInv, TypeOK
  <2>3. Routes!Record
    BY <1>5, <2>2 DEF WriteState, Routes!Record
  <2> QED
    BY <2>3 DEF Routes!Next
<1>6. CASE WriteStateFails
  <2>1. Routes!Lose
    BY <1>6 DEF WriteStateFails, Routes!Lose
  <2> QED
    BY <2>1 DEF Routes!Next
<1>7. CASE Finish
  <2>1. mishap \/ gone \/ \A t \in Target : owner[t] = "bypass" => Routes!Entry(t) \in state
    BY <1>7 DEF Finish, Accounted, Ours, Entry, Routes!Entry
  <2>2. Routes!End
    BY <1>7, <2>1 DEF Finish, Routes!End
  <2> QED
    BY <2>2 DEF Routes!Next
<1> QED
  BY <1>1, <1>2, <1>3, <1>4, <1>5, <1>6, <1>7 DEF Apply

\* What goes on around an apply touches routes as RouteManager allows.
LEMMA AroundImplements ==
    ASSUME TypeOK, Around
    PROVE  [Routes!Next]_(Routes!vars)
<1> USE DEF environment, memory, history, Forget, RecordedNow, Routes!vars
<1>1. ASSUME NEW l \in Link, LinkUp(l)
      PROVE  [Routes!Next]_(Routes!vars)
  BY <1>1 DEF LinkUp
<1>2. ASSUME NEW l \in Link, LinkDown(l)
      PROVE  [Routes!Next]_(Routes!vars)
  <2>1. Routes!Drop(l)
    BY <1>2 DEF LinkDown, Routes!Drop
  <2> QED
    BY <2>1 DEF Routes!Next
<1>3. ASSUME NEW l \in Link, NEW t \in Target, ForeignRoute(t, l)
      PROVE  [Routes!Next]_(Routes!vars)
  <2>1. Routes!Foreign(t, l)
    BY <1>3 DEF ForeignRoute, Routes!Foreign
  <2> QED
    BY <2>1 DEF Routes!Next
<1>4. CASE EditIPs
  BY <1>4 DEF EditIPs
<1>5. CASE Crash
  <2>1. Routes!Lose
    BY <1>5 DEF Crash, Routes!Lose
  <2> QED
    BY <2>1 DEF Routes!Next
<1>6. CASE Reboot
  <2>1. gone \in BOOLEAN /\ mishap \in BOOLEAN
    BY DEF TypeOK
  <2>2. (mishap \/ gone)' \in {mishap \/ gone, FALSE}
    BY <1>6, <2>1 DEF Reboot
  <2>3. RecordedNow' = {}
    BY <1>6 DEF Reboot
  <2>4. Routes!Reboot
    BY <1>6, <2>2, <2>3 DEF Reboot, Routes!Reboot
  <2> QED
    BY <2>4 DEF Routes!Next
<1>7. CASE Uninstall
  <2>1. /\ kernel' = [t \in Target |-> kernel[t]]
        /\ owner' = [t \in Target |-> owner[t]]
    <3>1. {t \in Target : \E r \in state : DelArgument(r.target) = t /\ r.link = kernel[t]} = {}
      BY PrefixAssumption DEF TypeOK, Route
    <3> QED
      BY <1>7, <3>1 DEF Uninstall
  <2>2. kernel' = kernel /\ owner' = owner
    BY <2>1 DEF TypeOK
  <2>3. Routes!Lose
    BY <1>7, <2>2 DEF Uninstall, Routes!Lose
  <2> QED
    BY <2>3 DEF Routes!Next
<1> QED
  BY <1>1, <1>2, <1>3, <1>4, <1>5, <1>6, <1>7 DEF Around

\* Every apply, with whatever fails in it or happens around it, behaves as a
\* RouteManager: routes of other programs are touched only if they equal a
\* recorded one or lead to a target of the configuration, and no route of ours
\* goes off the record (bypass.go Apply, state.go).
THEOREM ImplementsRoutes == Spec => RoutesSpec
<1>1. Init => Routes!Init /\ Claimed
  BY DEF Init, Routes!Init, RecordedNow, Claimed
<1>2. IInv /\ Accounted /\ Claimed /\ [Next]_vars => [Routes!Next]_(Routes!vars)
  <2> SUFFICES ASSUME IInv, Accounted, Claimed, [Next]_vars
               PROVE  [Routes!Next]_(Routes!vars)
    OBVIOUS
  <2>1. CASE UNCHANGED vars
    BY <2>1 DEF vars, environment, memory, history, RecordedNow, Routes!vars
  <2> QED
    BY <2>1, ApplyImplements, AroundImplements DEF Next, IInv
<1>3. IInv /\ Claimed /\ [Next]_vars => Claimed'
  BY ClaimedStep DEF IInv
<1> QED
  BY <1>1, <1>2, <1>3, AlwaysAccounted, PTL DEF Spec, RoutesSpec, Routes!Spec
=============================================================================
