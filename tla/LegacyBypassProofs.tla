-------------------------- MODULE LegacyBypassProofs --------------------------
(***************************************************************************)
(* What vpn-bypass promises, for any set of domains and links and any      *)
(* number of commands, changes and faults.  Everything rests on the lock:  *)
(* with two processes past it, neither the list nor the routes would be    *)
(* those that an apply has in its memory.                                  *)
(***************************************************************************)
EXTENDS LegacyBypass, TLAPS

\* Between the reading of domains.txt and its end an apply holds the list.
Reading == {"gateway"} \cup Applying

Exclusion == \A p, q \in Proc : pc[p] \in Locked /\ pc[q] \in Locked => p = q

\* What the memory of an apply has to do with its surroundings.
Planned ==
    \A p \in Proc :
        /\ pc[p] \in Reading => asked = domains
        /\ pc[p] \in Applying => gw \in Link
        /\ pc[p] = "delete" => todo \subseteq state
        /\ pc[p] = "add" => todo \subseteq RoutesVia(wanted, gw)

InPlace(d) == table[d] = gw /\ owner[d] = "bypass"

\* What is not routed yet is still to be added.
Routed ==
    steady /\ result = "ok" =>
        \A p \in Proc, d \in wanted :
            /\ pc[p] = "add" => InPlace(d) \/ [target |-> d, link |-> gw] \in todo
            /\ pc[p] = "done" => InPlace(d)

Entry(d) == [target |-> d, link |-> table[d]]

Ours == {Entry(d) : d \in {e \in Domain : owner[e] = "bypass"}}

\* The routes of ours are recorded, or to be deleted, or were just added.
Accounted ==
    ~mishap =>
        /\ (\A p \in Proc : pc[p] \notin {"delete", "add"}) => Ours \subseteq state
        /\ \A p \in Proc : pc[p] = "delete" => Ours \subseteq todo
        /\ \A p \in Proc : pc[p] = "add" => Ours \subseteq RoutesVia(wanted, gw)

IInv == TypeOK /\ Exclusion /\ Planned /\ Routed /\ Accounted

\* Steps that leave every apply alone.
Aside ==
    /\ \A p \in Proc : pc[p] \in Reading \/ pc'[p] \in Reading => pc'[p] = pc[p]
    /\ (\E p \in Proc : pc[p] \in Reading) => UNCHANGED <<memory, domains>>
    /\ UNCHANGED <<table, owner, state, mishap, steady>>

LEMMA Processes == Service \in Proc /\ User \in Proc /\ Service # User
BY ProcAssumption DEF Proc

USE Processes, LinkAssumption, BoundAssumption DEF disk, systemd, network, memory

LEMMA InitInv == Init => IInv
<1> SUFFICES ASSUME Init PROVE IInv
  OBVIOUS
<1>1. TypeOK
  BY DEF Init, TypeOK, Applying, Commands
<1>2. Exclusion /\ Planned /\ Routed
  BY DEF Init, Exclusion, Planned, Routed, Reading, Applying, Locked
<1>3. Accounted
  BY DEF Init, Accounted, Ours
<1> QED
  BY <1>1, <1>2, <1>3 DEF IInv

LEMMA SpendType ==
    ASSUME spent \in [{"command", "change", "fault"} -> Nat],
           NEW k \in {"command", "change", "fault"}, Spend(k)
    PROVE  spent' \in [{"command", "change", "fault"} -> Nat]
BY DEF Spend

\* Every step keeps the types.
LEMMA TypeStep ==
    ASSUME TypeOK, Planned, [Next]_vars
    PROVE  TypeOK'
<1> USE SpendType DEF TypeOK, Goto, Exit, Forget, Commands, Applying, Units, File
<1>1. ASSUME NEW p \in Proc, Command(p)
      PROVE  TypeOK'
  <2>1. CASE Acquire(p) \/ AcquireFails(p) \/ ReadDomains(p) \/ ReadDomainsFails(p)
    BY <2>1 DEF Acquire, AcquireFails, ReadDomains, ReadDomainsFails, Begins
  <2>2. CASE DetectGateway(p) \/ DetectGatewayFails(p)
    BY <2>2 DEF DetectGateway, DetectGatewayFails
  <2>3. CASE DeleteRoute(p)
    <3>1. PICK r \in todo :
             /\ todo' = todo \ {r}
             /\ table' \in {table, [table EXCEPT ![r.target] = NoRoute]}
             /\ owner' \in {owner, [owner EXCEPT ![r.target] = "none"]}
      BY <2>3 DEF DeleteRoute
    <3> QED
      BY <2>3, <3>1 DEF DeleteRoute
  <2>4. CASE Resolve(p)
    <3>1. gw \in Link
      BY <2>4 DEF Resolve, Planned
    <3>2. PICK found \in SUBSET asked : wanted' = found /\ todo' = RoutesVia(found, gw)
      BY <2>4 DEF Resolve
    <3>3. RoutesVia(found, gw) \subseteq Route
      BY <3>1 DEF RoutesVia, Route
    <3> QED
      BY <2>4, <3>2, <3>3 DEF Resolve
  <2>5. CASE AddRoute(p)
    <3>1. PICK r \in todo :
             /\ todo' = todo \ {r}
             /\ table' \in {table, [table EXCEPT ![r.target] = r.link]}
             /\ owner' \in {owner, [owner EXCEPT ![r.target] = "bypass"]}
      BY <2>5 DEF AddRoute
    <3>2. r.link \in Link
      BY <3>1 DEF Route
    <3> QED
      BY <2>5, <3>1, <3>2 DEF AddRoute
  <2>6. CASE WriteState(p)
    <3>1. RoutesVia(wanted, gw) \subseteq Route
      BY <2>6 DEF WriteState, Planned, RoutesVia, Route
    <3> QED
      BY <2>6, <3>1 DEF WriteState
  <2>7. CASE ResolveFails(p) \/ WriteStateFails(p) \/ ApplyDone(p)
    BY <2>7 DEF ResolveFails, WriteStateFails, ApplyDone
  <2> QED
    BY <1>1, <2>1, <2>2, <2>3, <2>4, <2>5, <2>6, <2>7 DEF Command, Apply
<1>2. CASE Edit
  BY <1>2 DEF Edit, AddDomain, RemoveDomain, RemoveNothing, WriteDomains, Begins
<1>3. CASE SetUp
  <2>1. CASE InstallFiles
    <3>1. \A i \in 1 .. 5 : Assets[i] \in File
      BY DEF Assets
    <3>2. PICK n \in 0 .. Len(Assets), first \in {1, 2} :
             /\ files' = files \cup {Assets[i] : i \in first .. n}
             /\ IF n = Len(Assets)
                THEN Goto(User, "reload") /\ UNCHANGED <<cmd, served, spent>>
                ELSE Spend("fault") /\ Exit(User, "error")
      BY <2>1 DEF InstallFiles
    <3>3. files' \subseteq File
      <4>1. Len(Assets) = 5
        BY DEF Assets
      <4>2. \A i \in first .. n : Assets[i] \in File
        BY <3>1, <4>1
      <4> HIDE DEF File
      <4> QED
        BY <3>2, <4>2
    <3>4. \/ Goto(User, "reload") /\ UNCHANGED <<cmd, served, spent>>
          \/ Spend("fault") /\ Exit(User, "error")
      BY <3>2
    <3>5. UNCHANGED <<domains, loaded, timerOn, network, memory, state, steady, mishap>>
      BY <2>1 DEF InstallFiles
    <3>6. spent' \in [{"command", "change", "fault"} -> Nat]
      BY <3>4
    <3> QED
      BY <3>3, <3>4, <3>5, <3>6
  <2>2. CASE \/ DaemonReload("reload") \/ DaemonReload("unload") \/ EnableTimer
             \/ StartUnit \/ Started
    BY <2>2 DEF DaemonReload, EnableTimer, StartUnit, Started
  <2>3. CASE DisableTimer \/ RemoveFiles \/ RemoveHook \/ UserFails
    BY <2>3 DEF DisableTimer, RemoveFiles, RemoveHook, UserFails
  <2> QED
    BY <1>3, <2>1, <2>2, <2>3 DEF SetUp
<1>4. CASE GiveCommand \/ TimerTick \/ Hook
  BY <1>4 DEF GiveCommand, TimerTick, Hook, StartService, Launch
<1>5. CASE Reboot
  BY <1>5 DEF Reboot
<1>6. ASSUME NEW l \in Link, LinkUp(l) \/ LinkDown(l)
      PROVE  TypeOK'
  BY <1>6 DEF LinkUp, LinkDown
<1>7. ASSUME NEW d \in Domain, NEW l \in Link, ForeignRoute(d, l)
      PROVE  TypeOK'
  BY <1>7 DEF ForeignRoute
<1>8. ASSUME NEW p \in Proc, Kill(p)
      PROVE  TypeOK'
  BY <1>8 DEF Kill
<1>9. CASE UNCHANGED vars
  BY <1>9 DEF vars
<1> QED
  BY <1>1, <1>2, <1>3, <1>4, <1>5, <1>6, <1>7, <1>8, <1>9 DEF Next, Around

\* Only one process is past the lock.
LEMMA ExclusionStep ==
    ASSUME TypeOK, Exclusion, [Next]_vars
    PROVE  Exclusion'
<1> USE DEF TypeOK, Exclusion, Goto, Exit, Locked, Applying
<1>1. ASSUME NEW p \in Proc, Acquire(p)
      PROVE  Exclusion'
  BY <1>1 DEF Acquire, Busy
<1>2. ASSUME NEW p \in Proc, \A q \in Proc : pc'[q] \in Locked => pc[q] \in Locked
      PROVE  Exclusion'
  BY <1>2
<1>3. ASSUME NEW p \in Proc, AcquireFails(p) \/ Apply(p)
      PROVE  Exclusion'
  BY <1>2, <1>3 DEF AcquireFails, Apply, ReadDomains, ReadDomainsFails, Begins, DetectGateway,
       DetectGatewayFails, DeleteRoute, Resolve, ResolveFails, AddRoute, WriteState,
       WriteStateFails, ApplyDone
<1>4. CASE Edit
  BY <1>2, <1>4 DEF Edit, AddDomain, RemoveDomain, RemoveNothing, WriteDomains, Begins
<1>5. CASE SetUp
  BY <1>2, <1>5 DEF SetUp, InstallFiles, DaemonReload, EnableTimer, StartUnit, Started,
       DisableTimer, RemoveFiles, RemoveHook, UserFails, Begins
<1>6. CASE GiveCommand \/ TimerTick \/ Hook \/ Reboot
  BY <1>2, <1>6 DEF GiveCommand, TimerTick, Hook, StartService, Launch, Reboot, Commands, RequiresLock
<1>7. ASSUME NEW p \in Proc, Kill(p)
      PROVE  Exclusion'
  BY <1>2, <1>7 DEF Kill
<1>8. CASE \/ \E l \in Link : LinkUp(l) \/ LinkDown(l)
           \/ \E d \in Domain, l \in Link : ForeignRoute(d, l)
           \/ UNCHANGED vars
  BY <1>2, <1>8 DEF LinkUp, LinkDown, ForeignRoute, vars
<1> QED
  BY <1>1, <1>3, <1>4, <1>5, <1>6, <1>7, <1>8 DEF Next, Around, Command

\* What does not concern an apply that has read the list leaves it alone.
LEMMA AsideSteps ==
    ASSUME TypeOK, Exclusion,
           \/ Edit \/ SetUp \/ GiveCommand \/ TimerTick \/ Hook
           \/ \E p \in Proc : Acquire(p) \/ AcquireFails(p) \/ ReadDomainsFails(p)
           \/ UNCHANGED vars
    PROVE  Aside
<1> USE DEF TypeOK, Exclusion, Aside, Goto, Exit, Locked, Reading, Applying
<1>1. CASE Edit
  BY <1>1 DEF Edit, AddDomain, RemoveDomain, RemoveNothing, WriteDomains, Begins, Forget
<1>2. CASE SetUp
  BY <1>2 DEF SetUp, InstallFiles, DaemonReload, EnableTimer, StartUnit, Started,
       DisableTimer, RemoveFiles, RemoveHook, UserFails, Begins
<1>3. CASE GiveCommand \/ TimerTick \/ Hook
  BY <1>3 DEF GiveCommand, TimerTick, Hook, StartService, Launch
<1>4. ASSUME NEW p \in Proc, Acquire(p) \/ AcquireFails(p) \/ ReadDomainsFails(p)
      PROVE  Aside
  BY <1>4 DEF Acquire, AcquireFails, ReadDomainsFails, Begins
<1>5. CASE UNCHANGED vars
  BY <1>5 DEF vars
<1> QED
  BY <1>1, <1>2, <1>3, <1>4, <1>5

LEMMA AsideKeeps ==
    ASSUME IInv, Aside
    PROVE  Planned' /\ Routed' /\ Accounted'
<1>1. Planned'
  BY DEF IInv, Planned, Aside, Reading, Applying
<1>2. Routed'
  <2> SUFFICES ASSUME NEW p \in Proc, pc'[p] \in {"add", "done"}
               PROVE  Routed'
    BY DEF Routed
  <2>1. UNCHANGED memory
    BY DEF Aside, Reading, Applying
  <2> QED
    BY <2>1 DEF IInv, Routed, Aside, InPlace, Reading, Applying
<1>3. Accounted'
  <2>1. Ours' = Ours
    BY DEF Aside, Ours, Entry
  <2>2. \A p \in Proc : pc'[p] \in {"delete", "add"} <=> pc[p] \in {"delete", "add"}
    BY DEF Aside, Reading, Applying
  <2>3. ASSUME NEW p \in Proc, pc'[p] \in {"delete", "add"}
        PROVE  UNCHANGED memory /\ pc'[p] = pc[p]
    BY <2>3 DEF Aside, Reading, Applying
  <2> QED
    BY <2>1, <2>2, <2>3 DEF IInv, Accounted, Aside, RoutesVia
<1> QED
  BY <1>1, <1>2, <1>3

\* While one process is past the lock, no other one reads the list or routes.
LEMMA Alone ==
    ASSUME Exclusion, NEW p \in Proc, pc[p] \in Locked
    PROVE  \A q \in Proc \ {p} : pc[q] \notin Reading
BY DEF Exclusion, Locked, Reading, Applying

\* The steps of the one apply under way keep what is said of it.
LEMMA ApplyKeeps ==
    ASSUME IInv, NEW p \in Proc, Apply(p), ~ReadDomainsFails(p)
    PROVE  Planned' /\ Routed' /\ Accounted'
<1> USE DEF IInv, TypeOK, Goto, Exit, Forget
<1>0. /\ pc[p] \in Locked
      /\ \A q \in Proc \ {p} : pc'[q] = pc[q]
  BY DEF Apply, ReadDomains, Begins, DetectGateway, DetectGatewayFails, DeleteRoute, Resolve,
         ResolveFails, AddRoute, WriteState, WriteStateFails, ApplyDone, Locked, Applying
<1>a. \A q \in Proc \ {p} : pc'[q] = pc[q] /\ pc[q] \notin {"gateway", "delete", "add", "done"}
  BY <1>0, Alone DEF Reading, Applying
<1> USE <1>a DEF Planned, Routed, Accounted, Reading, Applying
<1>1. CASE ReadDomains(p)
  <2>1. Ours' = Ours
    BY <1>1 DEF ReadDomains, Ours, Entry
  <2> QED
    BY <1>1, <2>1 DEF ReadDomains, Begins
<1>2. CASE DetectGateway(p)
  <2>1. Ours' = Ours
    BY <1>2 DEF DetectGateway, Ours, Entry
  <2> QED
    BY <1>2, <2>1 DEF DetectGateway
<1>3. CASE DetectGatewayFails(p)
  <2>1. Ours' = Ours
    BY <1>3 DEF DetectGatewayFails, Ours, Entry
  <2> QED
    BY <1>3, <2>1 DEF DetectGatewayFails
<1>4. CASE DeleteRoute(p)
  <2>1. PICK r \in todo :
           /\ todo' = todo \ {r}
           /\ IF table[r.target] = r.link
              THEN \/ /\ table' = [table EXCEPT ![r.target] = NoRoute]
                      /\ owner' = [owner EXCEPT ![r.target] = "none"]
                      /\ UNCHANGED mishap
                   \/ mishap' = TRUE
              ELSE UNCHANGED <<table, owner, mishap>>
    BY <1>4 DEF DeleteRoute
  <2>2. /\ UNCHANGED <<gw, asked, domains, state, pc>>
        /\ pc[p] = "delete"
    BY <1>4 DEF DeleteRoute
  <2>3. Planned' /\ Routed'
    BY <2>1, <2>2
  <2>4. ~mishap' => Ours' \subseteq todo'
    <3> SUFFICES ASSUME ~mishap', NEW d \in Domain, owner'[d] = "bypass"
                 PROVE  Entry(d)' \in todo'
      BY DEF Ours
    <3>1. r.target \in Domain /\ r = [target |-> r.target, link |-> r.link]
      BY <2>1 DEF Route
    <3>2. ~mishap /\ owner[d] = "bypass" /\ table'[d] = table[d]
      BY <2>1, <3>1
    <3>3. Entry(d) \in todo
      BY <2>2, <3>2 DEF Ours
    <3>4. Entry(d) # r
      BY <2>1, <3>1 DEF Entry
    <3> QED
      BY <2>1, <3>2, <3>3, <3>4 DEF Entry
  <2> QED
    BY <2>2, <2>3, <2>4
<1>5. CASE Resolve(p)
  <2>1. PICK found \in SUBSET asked : wanted' = found /\ todo' = RoutesVia(found, gw)
    BY <1>5 DEF Resolve
  <2>2. ~mishap => Ours = {}
    BY <1>5 DEF Resolve
  <2>3. Ours' = Ours
    BY <1>5 DEF Resolve, Ours, Entry
  <2>4. \A d \in wanted' : [target |-> d, link |-> gw] \in todo'
    BY <2>1 DEF RoutesVia
  <2>5. Routed'
    BY <1>5, <2>4 DEF Resolve
  <2>6. Planned' /\ Accounted'
    BY <1>5, <2>1, <2>2, <2>3 DEF Resolve
  <2> QED
    BY <2>5, <2>6
<1>6. CASE ResolveFails(p)
  <2>1. ~mishap => Ours = {}
    BY <1>6 DEF ResolveFails
  <2>2. Ours' = Ours
    BY <1>6 DEF ResolveFails, Ours, Entry
  <2> QED
    BY <1>6, <2>1, <2>2 DEF ResolveFails
<1>7. CASE AddRoute(p)
  <2>1. PICK r \in todo :
           /\ todo' = todo \ {r}
           /\ \/ /\ table' = [table EXCEPT ![r.target] = r.link]
                 /\ owner' = [owner EXCEPT ![r.target] = "bypass"]
                 /\ UNCHANGED result
              \/ result' = "error" /\ UNCHANGED <<table, owner>>
    BY <1>7 DEF AddRoute
  <2>2. /\ UNCHANGED <<gw, asked, wanted, domains, state, pc, steady, mishap>>
        /\ pc[p] = "add"
    BY <1>7 DEF AddRoute
  <2>3. PICK e \in wanted : r = [target |-> e, link |-> gw]
    BY <2>1, <2>2 DEF RoutesVia
  <2>4. Planned'
    BY <2>1, <2>2 DEF RoutesVia
  <2>5. Routed'
    <3> SUFFICES ASSUME steady', result' = "ok", NEW d \in wanted
                 PROVE  InPlace(d)' \/ [target |-> d, link |-> gw] \in todo'
      BY <2>2
    <3>1. CASE d = e
      BY <2>1, <2>2, <2>3, <3>1 DEF InPlace
    <3>2. CASE d # e
      BY <2>1, <2>2, <2>3, <3>2 DEF InPlace
    <3> QED
      BY <3>1, <3>2
  <2>6. Accounted'
    <3> SUFFICES ASSUME ~mishap', NEW d \in Domain, owner'[d] = "bypass"
                 PROVE  Entry(d)' \in RoutesVia(wanted, gw)
      BY <2>2 DEF Ours, RoutesVia
    <3>1. CASE d = e /\ owner' # owner
      BY <2>1, <2>3, <3>1 DEF Entry, RoutesVia
    <3>2. CASE d # e \/ UNCHANGED <<table, owner>>
      <4>1. table'[d] = table[d] /\ owner'[d] = owner[d]
        BY <2>1, <2>3, <3>2
      <4> QED
        BY <2>2, <4>1 DEF Ours, Entry
    <3>3. CASE d = e /\ owner' = owner /\ table' # table
      BY <2>1, <2>3, <3>3 DEF Entry, RoutesVia
    <3> QED
      BY <3>1, <3>2, <3>3
  <2> QED
    BY <2>4, <2>5, <2>6
<1>8. CASE WriteState(p)
  <2>1. Ours' = Ours
    BY <1>8 DEF WriteState, Ours, Entry
  <2> QED
    BY <1>8, <2>1 DEF WriteState, InPlace
<1>9. CASE WriteStateFails(p)
  BY <1>9 DEF WriteStateFails
<1>10. CASE ApplyDone(p)
  <2>1. Ours' = Ours
    BY <1>10 DEF ApplyDone, Ours, Entry
  <2> QED
    BY <1>10, <2>1 DEF ApplyDone
<1> QED
  BY <1>1, <1>2, <1>3, <1>4, <1>5, <1>6, <1>7, <1>8, <1>9, <1>10 DEF Apply

\* So do links, other programs, kills and reboots.
LEMMA AroundKeeps ==
    ASSUME IInv,
           \/ Reboot
           \/ \E l \in Link : LinkUp(l) \/ LinkDown(l)
           \/ \E d \in Domain, l \in Link : ForeignRoute(d, l)
           \/ \E p \in Proc : Kill(p)
    PROVE  Planned' /\ Routed' /\ Accounted'
<1> USE DEF IInv, TypeOK, Planned, Routed, Accounted, Reading, Applying
<1>1. CASE Reboot
  <2>1. Ours' = {}
    BY <1>1 DEF Reboot, Ours
  <2> QED
    BY <1>1, <2>1 DEF Reboot, Forget
<1>2. ASSUME NEW l \in Link, LinkUp(l)
      PROVE  Planned' /\ Routed' /\ Accounted'
  <2>1. Ours' = Ours
    BY <1>2 DEF LinkUp, Ours, Entry
  <2> QED
    BY <1>2, <2>1 DEF LinkUp, InPlace, RoutesVia
<1>3. ASSUME NEW l \in Link, LinkDown(l)
      PROVE  Planned' /\ Routed' /\ Accounted'
  <2>1. Ours' \subseteq Ours
    <3> SUFFICES ASSUME NEW d \in Domain, owner'[d] = "bypass"
                 PROVE  Entry(d)' = Entry(d) /\ owner[d] = "bypass"
      BY DEF Ours
    <3> QED
      BY <1>3 DEF LinkDown, Entry
  <2>2. Routed'
    <3> SUFFICES ASSUME steady', result = "ok", NEW d \in wanted, InPlace(d)
                 PROVE  InPlace(d)'
      BY <1>3 DEF LinkDown
    <3> QED
      BY <1>3 DEF LinkDown, InPlace
  <2> QED
    BY <1>3, <2>1, <2>2 DEF LinkDown, RoutesVia
<1>4. ASSUME NEW d \in Domain, NEW l \in Link, ForeignRoute(d, l)
      PROVE  Planned' /\ Routed' /\ Accounted'
  <2>1. Ours' \subseteq Ours
    <3> SUFFICES ASSUME NEW e \in Domain, owner'[e] = "bypass"
                 PROVE  Entry(e)' = Entry(e) /\ owner[e] = "bypass"
      BY DEF Ours
    <3> QED
      BY <1>4 DEF ForeignRoute, Entry
  <2>2. Routed'
    <3> SUFFICES ASSUME steady, NEW e \in wanted, InPlace(e), NEW p \in Proc,
                        pc[p] \in {"add", "done"}
                 PROVE  InPlace(e)' \/ ~steady'
      BY <1>4 DEF ForeignRoute
    <3> QED
      BY <1>4 DEF ForeignRoute, InPlace
  <2> QED
    BY <1>4, <2>1, <2>2 DEF ForeignRoute, RoutesVia
<1>5. ASSUME NEW p \in Proc, Kill(p)
      PROVE  Planned' /\ Routed' /\ Accounted'
  <2>1. Ours' = Ours
    BY <1>5 DEF Kill, Ours, Entry
  <2>2. \A q \in Proc \ {p} : pc'[q] = pc[q]
    BY <1>5 DEF Kill, Exit, Goto
  <2>3. CASE pc[p] \in Locked
    <3>1. \A q \in Proc \ {p} : pc[q] \notin {"gateway", "delete", "add", "done"}
      BY <2>3, Alone
    <3> QED
      BY <1>5, <2>1, <2>2, <2>3, <3>1 DEF Kill, Exit, Goto
  <2>4. CASE pc[p] \notin Locked
    <3>1. pc[p] \notin {"gateway", "delete", "add", "done"}
      BY <2>4 DEF Locked
    <3> QED
      BY <1>5, <2>1, <2>2, <2>4, <3>1 DEF Kill, Exit, Goto, InPlace, RoutesVia
  <2> QED
    BY <2>3, <2>4
<1> QED
  BY <1>1, <1>2, <1>3, <1>4, <1>5

LEMMA Inductive == IInv /\ [Next]_vars => IInv'
<1> SUFFICES ASSUME IInv, [Next]_vars PROVE IInv'
  OBVIOUS
<1>1. TypeOK' /\ Exclusion'
  BY TypeStep, ExclusionStep DEF IInv
<1>2. CASE \/ Edit \/ SetUp \/ GiveCommand \/ TimerTick \/ Hook
           \/ \E p \in Proc : Acquire(p) \/ AcquireFails(p) \/ ReadDomainsFails(p)
           \/ UNCHANGED vars
  <2>1. Aside
    BY <1>2, AsideSteps DEF IInv
  <2> QED
    BY <1>1, <2>1, AsideKeeps DEF IInv
<1>3. ASSUME NEW p \in Proc, Apply(p), ~ReadDomainsFails(p)
      PROVE  IInv'
  BY <1>1, <1>3, ApplyKeeps DEF IInv
<1>4. CASE \/ Reboot
           \/ \E l \in Link : LinkUp(l) \/ LinkDown(l)
           \/ \E d \in Domain, l \in Link : ForeignRoute(d, l)
           \/ \E p \in Proc : Kill(p)
  BY <1>1, <1>4, AroundKeeps DEF IInv
<1> QED
  BY <1>2, <1>3, <1>4 DEF Next, Around, Command

LEMMA Always == Spec => []IInv
BY InitInv, Inductive, PTL DEF Spec

\* Every variable keeps its type.
THEOREM TypeCorrect == Spec => []TypeOK
<1>1. IInv => TypeOK
  BY DEF IInv
<1> QED
  BY <1>1, Always, PTL

\* An apply that succeeds worked on the list as it is, and what resolved is
\* routed, for any number of domains, links, edits and faults (cli.go runApply).
THEOREM SuccessCurrent == Spec => []SuccessIsCurrent
<1>1. IInv => SuccessIsCurrent
  BY DEF IInv, Planned, Routed, SuccessIsCurrent, InPlace, Reading, Applying
<1> QED
  BY <1>1, Always, PTL

\* The files are there from the end of installFiles to that of install.
Installed == pc[User] \in {"reload", "enable", "start", "starting"} => "config" \in files

LEMMA InstalledStep ==
    ASSUME TypeOK, Installed, [Next]_vars
    PROVE  Installed'
<1> USE DEF TypeOK, Installed, Goto, Exit
<1>1. ASSUME NEW p \in Proc, Command(p)
      PROVE  Installed'
  <2>1. /\ UNCHANGED files
        /\ \A q \in Proc : pc'[q] = pc[q] \/ pc'[q] \notin {"reload", "enable", "start", "starting"}
    BY <1>1 DEF Command, Acquire, AcquireFails, Apply, ReadDomains, ReadDomainsFails, Begins,
         DetectGateway, DetectGatewayFails, DeleteRoute, Resolve, ResolveFails, AddRoute,
         WriteState, WriteStateFails, ApplyDone
  <2> QED
    BY <2>1
<1>2. CASE Edit
  BY <1>2 DEF Edit, AddDomain, RemoveDomain, RemoveNothing, WriteDomains, Begins
<1>3. CASE SetUp
  <2>1. CASE InstallFiles
    <3>1. PICK n \in 0 .. Len(Assets), first \in {1, 2} :
             /\ files' = files \cup {Assets[i] : i \in first .. n}
             /\ n = Len(Assets) \/ pc' = [pc EXCEPT ![User] = "idle"]
      BY <2>1 DEF InstallFiles
    <3>2. Len(Assets) = 5 /\ Assets[2] = "config"
      BY DEF Assets
    <3>3. CASE n = Len(Assets)
      BY <3>1, <3>2, <3>3
    <3>4. CASE n # Len(Assets)
      BY <3>1, <3>4
    <3> QED
      BY <3>3, <3>4
  <2>2. CASE ~InstallFiles
    BY <1>3, <2>2 DEF SetUp, DaemonReload, EnableTimer, StartUnit, Started, DisableTimer,
         RemoveFiles, RemoveHook, UserFails, Begins
  <2> QED
    BY <2>1, <2>2
<1>4. CASE GiveCommand \/ TimerTick \/ Hook \/ Reboot
  BY <1>4 DEF GiveCommand, TimerTick, Hook, StartService, Launch, Reboot
<1>5. ASSUME NEW p \in Proc, Kill(p)
      PROVE  Installed'
  BY <1>5 DEF Kill
<1>6. CASE \/ \E l \in Link : LinkUp(l) \/ LinkDown(l)
           \/ \E d \in Domain, l \in Link : ForeignRoute(d, l)
           \/ UNCHANGED vars
  BY <1>6 DEF LinkUp, LinkDown, ForeignRoute, vars
<1> QED
  BY <1>1, <1>2, <1>3, <1>4, <1>5, <1>6 DEF Next, Around

\* The service that install waits for gets the lock and finds its list, for any
\* number of commands, changes and faults (cli.go runInstall).
THEOREM InstallIsServed == Spec => InstallServes
<1> DEFINE Served ==
        pc[User] = "starting" /\ pc[Service] \in {"wait", "begin"} /\ pc'[Service] = "idle" =>
            spent'["fault"] > spent["fault"]
<1>1. Init => Installed
  BY DEF Init, Installed
<1>2. IInv /\ Installed /\ [Next]_vars => Installed'
  BY InstalledStep DEF IInv
<1>3. IInv /\ Installed /\ [Next]_vars => [Served]_vars
  <2> SUFFICES ASSUME IInv, Installed, [Next]_vars, pc[User] = "starting",
                      pc[Service] \in {"wait", "begin"}, pc'[Service] = "idle"
               PROVE  spent'["fault"] > spent["fault"]
    OBVIOUS
  <2> USE DEF IInv, TypeOK, Goto, Exit
  <2>1. ASSUME Spend("fault")
        PROVE  spent'["fault"] > spent["fault"]
    BY <2>1 DEF Spend
  <2>2. ASSUME NEW p \in Proc, Command(p)
        PROVE  FALSE
    <3>1. ~Busy(Service) /\ "config" \in files
      BY DEF Busy, Locked, Applying, Proc, Installed
    <3>2. p = Service
      BY <2>2 DEF Command, Acquire, AcquireFails, Apply, ReadDomains, ReadDomainsFails, Begins,
           DetectGateway, DetectGatewayFails, DeleteRoute, Resolve, ResolveFails, AddRoute,
           WriteState, WriteStateFails, ApplyDone, Proc, Applying
    <3> QED
      BY <2>2, <3>1, <3>2 DEF Command, Acquire, AcquireFails, Apply, ReadDomains, ReadDomainsFails,
         Begins, DetectGateway, DetectGatewayFails, DeleteRoute, Resolve, ResolveFails, AddRoute,
         WriteState, WriteStateFails, ApplyDone
  <2>3. ASSUME Edit \/ SetUp
        PROVE  FALSE
    BY <2>3 DEF Edit, AddDomain, RemoveDomain, RemoveNothing, WriteDomains, Begins, SetUp,
       InstallFiles, DaemonReload, EnableTimer, StartUnit, Started, DisableTimer, RemoveFiles,
       RemoveHook, UserFails
  <2>4. CASE Reboot
    BY <2>1, <2>4 DEF Reboot
  <2>5. ASSUME NEW p \in Proc, Kill(p)
        PROVE  spent'["fault"] > spent["fault"]
    BY <2>1, <2>5 DEF Kill
  <2>6. ASSUME \/ GiveCommand \/ TimerTick \/ Hook
               \/ \E l \in Link : LinkUp(l) \/ LinkDown(l)
               \/ \E d \in Domain, l \in Link : ForeignRoute(d, l)
               \/ UNCHANGED vars
        PROVE  FALSE
    BY <2>6 DEF GiveCommand, TimerTick, Hook, StartService, Launch, LinkUp, LinkDown, ForeignRoute,
       vars
  <2> QED
    BY <2>2, <2>3, <2>4, <2>5, <2>6 DEF Next, Around
<1> QED
  BY <1>1, <1>2, <1>3, Always, PTL DEF Spec, InstallServes
-----------------------------------------------------------------------------
(* The refinement of RouteManager.                                         *)

LEMMA AsideImplements ==
    ASSUME TypeOK, Aside
    PROVE  UNCHANGED Routes!vars
BY DEF Aside, Routes!vars, Reading, Applying

\* Every step of an apply is one of RouteManager, or none at all.
LEMMA ApplyImplements ==
    ASSUME IInv, NEW p \in Proc, Apply(p), ~ReadDomainsFails(p)
    PROVE  [Routes!Next]_(Routes!vars)
<1> USE DEF IInv, TypeOK, Goto, Exit, Applying, Routes!vars, Routes!Next
<1>0. /\ pc[p] \in Locked
      /\ \A q \in Proc \ {p} : pc'[q] = pc[q]
  BY DEF Apply, ReadDomains, Begins, DetectGateway, DetectGatewayFails, DeleteRoute, Resolve,
         ResolveFails, AddRoute, WriteState, WriteStateFails, ApplyDone, Locked
<1>a. \A q \in Proc \ {p} : pc'[q] = pc[q] /\ pc[q] \notin {"gateway", "delete", "add", "done"}
  BY <1>0, Alone DEF Reading
<1> USE <1>a
<1>1. CASE ReadDomains(p) \/ DetectGatewayFails(p)
  BY <1>1 DEF ReadDomains, Begins, DetectGatewayFails
<1>2. CASE DetectGateway(p)
  <2>1. Routes!Begin
    BY <1>2 DEF DetectGateway, Routes!Begin
  <2> QED
    BY <2>1
<1>3. CASE DeleteRoute(p)
  <2>1. PICK r \in todo :
           IF table[r.target] = r.link
           THEN \/ /\ table' = [table EXCEPT ![r.target] = NoRoute]
                   /\ owner' = [owner EXCEPT ![r.target] = "none"]
                   /\ UNCHANGED mishap
                \/ mishap' = TRUE /\ UNCHANGED <<table, owner>>
           ELSE UNCHANGED <<table, owner, mishap>>
    BY <1>3 DEF DeleteRoute
  <2>2. pc[p] = "delete" /\ UNCHANGED <<state, pc>>
    BY <1>3 DEF DeleteRoute
  <2>3. CASE /\ table[r.target] = r.link
             /\ table' = [table EXCEPT ![r.target] = NoRoute]
             /\ owner' = [owner EXCEPT ![r.target] = "none"]
             /\ UNCHANGED mishap
    <3>1. r \in state /\ r.target \in Domain /\ r = [target |-> r.target, link |-> r.link]
      BY <2>1, <2>2 DEF Planned, Route
    <3>2. Routes!Delete(r.target)
      BY <2>2, <2>3, <3>1 DEF Routes!Delete, Routes!Entry
    <3> QED
      BY <3>1, <3>2
  <2>4. CASE mishap' = TRUE /\ UNCHANGED <<table, owner>>
    <3>1. Routes!Lose
      BY <2>2, <2>4 DEF Routes!Lose
    <3> QED
      BY <3>1
  <2>5. CASE UNCHANGED <<table, owner, mishap>>
    BY <2>2, <2>5
  <2> QED
    BY <2>1, <2>3, <2>4, <2>5
<1>4. CASE Resolve(p) \/ ResolveFails(p)
  BY <1>4 DEF Resolve, ResolveFails
<1>5. CASE AddRoute(p)
  <2>1. PICK r \in todo :
           \/ /\ table' = [table EXCEPT ![r.target] = r.link]
              /\ owner' = [owner EXCEPT ![r.target] = "bypass"]
           \/ UNCHANGED <<table, owner>>
    BY <1>5 DEF AddRoute
  <2>2. pc[p] = "add" /\ UNCHANGED <<state, pc, mishap>>
    BY <1>5 DEF AddRoute
  <2>3. r.target \in Domain /\ r.link \in Link
    BY <2>1 DEF Route
  <2>4. Routes!Install(r.target, r.link) \/ UNCHANGED <<table, owner>>
    BY <2>1, <2>2, <2>3 DEF Routes!Install
  <2> QED
    BY <2>2, <2>3, <2>4
<1>6. CASE WriteState(p)
  <2>1. RoutesVia(wanted, gw) \subseteq {r \in Routes!Route : r.target \in Domain}
    BY <1>6 DEF WriteState, RoutesVia, Planned, Routes!Route
  <2>2. Routes!Record
    BY <1>6, <2>1 DEF WriteState, Routes!Record
  <2> QED
    BY <2>2
<1>7. CASE WriteStateFails(p)
  <2>1. Routes!Lose
    BY <1>7 DEF WriteStateFails, Routes!Lose
  <2> QED
    BY <2>1
<1>8. CASE ApplyDone(p)
  <2>1. mishap \/ \A d \in Domain : owner[d] = "bypass" => Routes!Entry(d) \in state
    BY <1>8 DEF ApplyDone, Accounted, Ours, Entry, Routes!Entry
  <2>2. Routes!End
    BY <1>8, <2>1 DEF ApplyDone, Routes!End
  <2> QED
    BY <2>2
<1> QED
  BY <1>1, <1>2, <1>3, <1>4, <1>5, <1>6, <1>7, <1>8 DEF Apply

LEMMA AroundImplements ==
    ASSUME IInv,
           \/ Reboot
           \/ \E l \in Link : LinkUp(l) \/ LinkDown(l)
           \/ \E d \in Domain, l \in Link : ForeignRoute(d, l)
           \/ \E p \in Proc : Kill(p)
    PROVE  [Routes!Next]_(Routes!vars)
<1> USE DEF IInv, TypeOK, Applying, Routes!vars, Routes!Next
<1>1. CASE Reboot
  <2>1. Routes!Reboot
    BY <1>1 DEF Reboot, Routes!Reboot
  <2> QED
    BY <2>1
<1>2. ASSUME NEW l \in Link, LinkUp(l)
      PROVE  [Routes!Next]_(Routes!vars)
  BY <1>2 DEF LinkUp
<1>3. ASSUME NEW l \in Link, LinkDown(l)
      PROVE  [Routes!Next]_(Routes!vars)
  <2>1. Routes!Drop(l)
    BY <1>3 DEF LinkDown, Routes!Drop
  <2> QED
    BY <2>1
<1>4. ASSUME NEW d \in Domain, NEW l \in Link, ForeignRoute(d, l)
      PROVE  [Routes!Next]_(Routes!vars)
  <2>1. Routes!Foreign(d, l)
    BY <1>4 DEF ForeignRoute, Routes!Foreign
  <2> QED
    BY <2>1
<1>5. ASSUME NEW p \in Proc, Kill(p)
      PROVE  [Routes!Next]_(Routes!vars)
  <2>1. \A q \in Proc \ {p} : pc'[q] = pc[q]
    BY <1>5 DEF Kill, Exit, Goto
  <2>2. pc'[p] = "idle"
    BY <1>5 DEF Kill, Exit, Goto
  <2>3. CASE pc[p] \in Applying
    <3>1. \A q \in Proc \ {p} : pc'[q] \notin Applying
      BY <2>1, <2>3, Alone DEF Locked, Reading
    <3>2. Routes!Lose
      BY <1>5, <2>2, <2>3, <3>1 DEF Kill, Routes!Lose
    <3> QED
      BY <3>2
  <2>4. CASE pc[p] \notin Applying
    BY <1>5, <2>1, <2>2, <2>4 DEF Kill
  <2> QED
    BY <2>3, <2>4
<1> QED
  BY <1>1, <1>2, <1>3, <1>4, <1>5

\* vpn-bypass touches a route of another program only if it equals a recorded
\* one or leads to a domain it may list, and loses none of its own unless it is
\* killed or a file cannot be written (routes/apply.go, routes/state.go).
THEOREM ImplementsRoutes == Spec => RoutesSpec
<1>1. Init => Routes!Init
  BY DEF Init, Routes!Init, Applying
<1>2. IInv /\ [Next]_vars => [Routes!Next]_(Routes!vars)
  <2> SUFFICES ASSUME IInv, [Next]_vars PROVE [Routes!Next]_(Routes!vars)
    OBVIOUS
  <2>1. CASE \/ Edit \/ SetUp \/ GiveCommand \/ TimerTick \/ Hook
             \/ \E p \in Proc : Acquire(p) \/ AcquireFails(p) \/ ReadDomainsFails(p)
             \/ UNCHANGED vars
    <3>1. Aside
      BY <2>1, AsideSteps DEF IInv
    <3> QED
      BY <3>1, AsideImplements DEF IInv
  <2>2. ASSUME NEW p \in Proc, Apply(p), ~ReadDomainsFails(p)
        PROVE  [Routes!Next]_(Routes!vars)
    BY <2>2, ApplyImplements
  <2>3. CASE \/ Reboot
             \/ \E l \in Link : LinkUp(l) \/ LinkDown(l)
             \/ \E d \in Domain, l \in Link : ForeignRoute(d, l)
             \/ \E p \in Proc : Kill(p)
    BY <2>3, AroundImplements
  <2> QED
    BY <2>1, <2>2, <2>3 DEF Next, Around, Command
<1> QED
  BY <1>1, <1>2, Always, PTL DEF Spec, RoutesSpec, Routes!Spec
=============================================================================
