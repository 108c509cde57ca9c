----------------------------- MODULE TrayProofs -----------------------------
(***************************************************************************)
(* Theorems about Tray, for every number of goroutines, menu items, clicks *)
(* and changes.  The argument is one of debts: a goroutine that has set    *)
(* actionRunning owes the menu and the display a refresh, and it is only   *)
(* by taking a.mu that it stops owing it.                                  *)
(***************************************************************************)
EXTENDS Tray, FiniteSetTheorems, TLAPS

Owes(t) == pc[t] \in Unsettled \/ pc[t] = "lock"
NothingOwed == ~Gone /\ \A t \in Task : ~Owes(t)

LoopsOnlyRefresh ==
    \A th \in Loops : pc[th] \in {"idle", "lock", "gone"} \cup Refreshing

\* actionRunning says whether an action is running.
Exclusive ==
    /\ \A t \in Task : pc[t] \in Busy => running
    /\ running => \E t \in Task : pc[t] \in Busy
    /\ \A t, u \in Task : pc[t] \in Busy /\ pc[u] \in Busy => t = u

\* Times on display do not run ahead, and what a holder of a.mu is about to
\* show is not older than what is shown.
InOrder ==
    /\ acted <= version
    /\ shown <= version
    /\ \A th \in Thread : pc[th] = "apply" => got[th] >= shown /\ got[th] <= version

\* With nothing owed, an item that is set wrongly is about to be set right.
MenuOwed ==
    NothingOwed =>
        /\ \A th \in Thread : pc[th] = "redraw" => ~saw[th]
        /\ \A i \in Item :
              \/ enabled[i] = Usable(i)
              \/ \E th \in Thread :
                    \/ pc[th] \in {"status", "apply", "shown"}
                    \/ pc[th] = "redraw" /\ i \in left[th]

\* With nothing owed, an old status on display is about to be replaced.
StatusOwed ==
    NothingOwed =>
        \/ shown >= acted
        \/ \E th \in Thread : \/ pc[th] = "status"
                              \/ pc[th] = "apply" /\ got[th] >= acted

IInv ==
    /\ TypeOK
    /\ LoopsOnlyRefresh
    /\ Exclusive
    /\ InOrder
    /\ MenuOwed
    /\ StatusOwed

USE ThreadAssumption DEF Thread, Loops, Item, Updating, Looking, Busy, Unsettled, Refreshing

LEMMA InitInv == Init => IInv
<1> SUFFICES ASSUME Init PROVE IInv
  OBVIOUS
<1>1. TypeOK
  <2>1. enabled \in [Item -> BOOLEAN]
    BY DEF Init, Usable
  <2> QED
    BY <2>1 DEF Init, TypeOK
<1>2. LoopsOnlyRefresh /\ Exclusive
  BY DEF Init, LoopsOnlyRefresh, Exclusive
<1>3. InOrder /\ StatusOwed
  BY DEF Init, InOrder, StatusOwed
<1>4. MenuOwed
  BY DEF Init, MenuOwed
<1> QED
  BY <1>1, <1>2, <1>3, <1>4 DEF IInv
-----------------------------------------------------------------------------
(* Type correctness, with a.mu held by the one goroutine that refreshes.   *)

LEMMA TypeStep == TypeOK /\ [Next]_vars => TypeOK'
<1> SUFFICES ASSUME TypeOK, [Next]_vars PROVE TypeOK'
  OBVIOUS
<1> USE DEF TypeOK, menuVars, statusVars, Goto
<1>1. ASSUME NEW t \in Task, ClickItem(t) \/ ClickDiagnostic(t) PROVE TypeOK'
  BY <1>1 DEF ClickItem, ClickDiagnostic, Click
<1>2. ASSUME NEW t \in Task, TaskStep(t) PROVE TypeOK'
  <2>1. CASE LoadLists(t) \/ CloseDialog(t) \/ CloseDiagnostic(t)
    BY <2>1 DEF LoadLists, CloseDialog, CloseDiagnostic
  <2>2. CASE BeginAction(t)
    BY <2>2 DEF BeginAction
  <2>3. CASE EndAction(t)
    BY <2>3 DEF EndAction
  <2> QED
    BY <1>2, <2>1, <2>2, <2>3 DEF TaskStep
<1>3. ASSUME NEW t \in Task, CommandActs(t) PROVE TypeOK'
  BY <1>3 DEF CommandActs
<1>4. ASSUME NEW th \in Thread, ThreadStep(th) PROVE TypeOK'
  <2>1. CASE Look(th)
    BY <2>1 DEF Look, UpdateAfter
  <2>2. CASE SetItem(th)
    BY <2>2 DEF SetItem, Set, Usable
  <2>3. CASE SetLastItem(th)
    BY <2>3 DEF SetLastItem, Set, Usable, Then
  <2>4. CASE ReadStatus(th)
    BY <2>4 DEF ReadStatus
  <2>5. CASE ApplyState(th)
    BY <2>5 DEF ApplyState
  <2> QED
    BY <1>4, <2>1, <2>2, <2>3, <2>4, <2>5 DEF ThreadStep
<1>5. ASSUME NEW th \in Thread, LockMu(th) PROVE TypeOK'
  BY <1>5 DEF LockMu
<1>6. CASE ClickRefresh
  BY <1>6 DEF ClickRefresh, Click
<1>7. CASE Quit
  BY <1>7 DEF Quit
<1>8. CASE Tick \/ OthersAct
  BY <1>8 DEF Tick, OthersAct
<1>9. CASE UNCHANGED vars
  BY <1>9 DEF vars
<1> QED
  BY <1>1, <1>2, <1>3, <1>4, <1>5, <1>6, <1>7, <1>8, <1>9 DEF Next
-----------------------------------------------------------------------------
(* One action at a time, times in order.                                   *)

LEMMA LoopsStep == TypeOK /\ LoopsOnlyRefresh /\ [Next]_vars => LoopsOnlyRefresh'
<1> SUFFICES ASSUME TypeOK, LoopsOnlyRefresh, [Next]_vars PROVE LoopsOnlyRefresh'
  OBVIOUS
<1> USE DEF TypeOK, LoopsOnlyRefresh, Goto
<1>1. ASSUME NEW t \in Task, ClickItem(t) \/ ClickDiagnostic(t) \/ TaskStep(t)
      PROVE  LoopsOnlyRefresh'
  BY <1>1 DEF ClickItem, ClickDiagnostic, TaskStep, LoadLists, CloseDialog, CloseDiagnostic,
              BeginAction, EndAction
<1>2. ASSUME NEW th \in Thread, ThreadStep(th) \/ LockMu(th) PROVE LoopsOnlyRefresh'
  BY <1>2 DEF ThreadStep, Look, UpdateAfter, SetItem, SetLastItem, Set, Then, ReadStatus,
              ApplyState, LockMu
<1>3. CASE ClickRefresh \/ Quit \/ Tick
  BY <1>3 DEF ClickRefresh, Quit, Tick
<1>4. ASSUME OthersAct \/ (\E t \in Task : CommandActs(t)) \/ UNCHANGED vars
      PROVE  LoopsOnlyRefresh'
  BY <1>4 DEF OthersAct, CommandActs, vars
<1> QED
  BY <1>1, <1>2, <1>3, <1>4 DEF Next

LEMMA ExclusiveStep ==
    TypeOK /\ LoopsOnlyRefresh /\ Exclusive /\ [Next]_vars => Exclusive'
<1> SUFFICES ASSUME TypeOK, LoopsOnlyRefresh, Exclusive, [Next]_vars PROVE Exclusive'
  OBVIOUS
<1> USE DEF TypeOK, LoopsOnlyRefresh, Exclusive, Goto, menuVars
<1>1. ASSUME NEW t \in Task, ClickItem(t) \/ ClickDiagnostic(t) PROVE Exclusive'
  BY <1>1 DEF ClickItem, ClickDiagnostic, Click
<1>2. ASSUME NEW t \in Task, TaskStep(t) PROVE Exclusive'
  <2>1. CASE LoadLists(t) \/ CloseDialog(t) \/ CloseDiagnostic(t)
    BY <2>1 DEF LoadLists, CloseDialog, CloseDiagnostic
  <2>2. CASE BeginAction(t)
    BY <2>2 DEF BeginAction
  <2>3. CASE EndAction(t)
    BY <2>3 DEF EndAction
  <2> QED
    BY <1>2, <2>1, <2>2, <2>3 DEF TaskStep
<1>3. ASSUME NEW th \in Thread, ThreadStep(th) \/ LockMu(th) PROVE Exclusive'
  <2>1. CASE Look(th)
    BY <2>1 DEF Look, UpdateAfter
  <2>2. CASE SetLastItem(th)
    BY <2>2 DEF SetLastItem, Set, Then
  <2>3. CASE SetItem(th) \/ ReadStatus(th) \/ ApplyState(th) \/ LockMu(th)
    BY <2>3 DEF SetItem, Set, ReadStatus, ApplyState, LockMu
  <2> QED
    BY <1>3, <2>1, <2>2, <2>3 DEF ThreadStep
<1>4. CASE ClickRefresh \/ Quit \/ Tick
  BY <1>4 DEF ClickRefresh, Click, Quit, Tick
<1>5. ASSUME OthersAct \/ (\E t \in Task : CommandActs(t)) \/ UNCHANGED vars
      PROVE  Exclusive'
  BY <1>5 DEF OthersAct, CommandActs, vars
<1> QED
  BY <1>1, <1>2, <1>3, <1>4, <1>5 DEF Next

\* What InOrder, MenuOwed and StatusOwed rest on
LEMMA Holder ==
    ASSUME TypeOK, NEW th \in Thread, NEW u \in Thread,
           pc[th] \in Refreshing, pc[u] \in Refreshing
    PROVE  th = u
BY DEF TypeOK

LEMMA InOrderStep == TypeOK /\ InOrder /\ [Next]_vars => InOrder'
<1> SUFFICES ASSUME TypeOK, InOrder, [Next]_vars PROVE InOrder'
  OBVIOUS
<1> USE DEF TypeOK, InOrder, Goto, statusVars
<1>1. ASSUME NEW t \in Task, ClickItem(t) \/ ClickDiagnostic(t) \/ TaskStep(t)
      PROVE  InOrder'
  BY <1>1 DEF ClickItem, ClickDiagnostic, Click, TaskStep, LoadLists, CloseDialog,
              CloseDiagnostic, BeginAction, EndAction
<1>2. ASSUME NEW th \in Thread, ThreadStep(th) \/ LockMu(th) PROVE InOrder'
  <2>1. CASE Look(th) \/ SetItem(th) \/ SetLastItem(th) \/ LockMu(th)
    BY <2>1 DEF Look, UpdateAfter, SetItem, SetLastItem, Set, Then, LockMu
  <2>2. CASE ReadStatus(th)
    BY <2>2 DEF ReadStatus
  <2>3. CASE ApplyState(th)
    BY <2>3, Holder DEF ApplyState
  <2> QED
    BY <1>2, <2>1, <2>2, <2>3 DEF ThreadStep
<1>3. CASE ClickRefresh \/ Quit \/ Tick
  BY <1>3 DEF ClickRefresh, Click, Quit, Tick
<1>4. ASSUME OthersAct \/ (\E t \in Task : CommandActs(t)) \/ UNCHANGED vars
      PROVE  InOrder'
  BY <1>4 DEF OthersAct, CommandActs, vars
<1> QED
  BY <1>1, <1>2, <1>3, <1>4 DEF Next
-----------------------------------------------------------------------------
(* Debts.  Only a.mu settles one, and who takes it refreshes everything.   *)

LEMMA SettledByMu ==
    ASSUME TypeOK, LoopsOnlyRefresh, [Next]_vars, NothingOwed'
    PROVE  NothingOwed \/ \E th \in Thread : LockMu(th)
<1> USE DEF TypeOK, LoopsOnlyRefresh, Goto, NothingOwed, Owes, Gone
<1>1. ASSUME NEW t \in Task, ClickItem(t) \/ ClickDiagnostic(t) \/ TaskStep(t)
      PROVE  NothingOwed
  BY <1>1 DEF ClickItem, ClickDiagnostic, TaskStep, LoadLists, CloseDialog,
              CloseDiagnostic, BeginAction, EndAction
<1>2. ASSUME NEW th \in Thread, ThreadStep(th) PROVE NothingOwed
  BY <1>2 DEF ThreadStep, Look, UpdateAfter, SetItem, SetLastItem, Set, Then, ReadStatus,
              ApplyState
<1>3. CASE ClickRefresh \/ Tick
  BY <1>3 DEF ClickRefresh, Click, Tick
<1>4. CASE Quit
  <2>1. pc'["menu"] = "gone"
    BY <1>4 DEF Quit
  <2> QED
    BY <2>1
<1>5. ASSUME OthersAct \/ (\E t \in Task : CommandActs(t)) \/ UNCHANGED vars
      PROVE  NothingOwed
  BY <1>5 DEF OthersAct, CommandActs, vars
<1> QED
  BY <1>1, <1>2, <1>3, <1>4, <1>5 DEF Next

LEMMA UsableType == \A i : Usable(i) \in BOOLEAN
BY DEF Usable

LEMMA MenuOwedStep ==
    TypeOK /\ LoopsOnlyRefresh /\ Exclusive /\ MenuOwed /\ [Next]_vars => MenuOwed'
<1> SUFFICES ASSUME TypeOK, LoopsOnlyRefresh, Exclusive, MenuOwed, [Next]_vars, NothingOwed'
             PROVE  MenuOwed'
  BY DEF MenuOwed
<1>a. ASSUME NEW th \in Thread, LockMu(th) PROVE MenuOwed'
  BY <1>a DEF LockMu, Goto, MenuOwed, TypeOK
<1>b. CASE NothingOwed
  <2>1. /\ \A th \in Thread : pc[th] = "redraw" => ~saw[th]
        /\ \A i \in Item :
              \/ enabled[i] = Usable(i)
              \/ \E th \in Thread : \/ pc[th] \in {"status", "apply", "shown"}
                                    \/ pc[th] = "redraw" /\ i \in left[th]
    BY <1>b DEF MenuOwed
  <2>2. ~running
    BY <1>b DEF NothingOwed, Owes, Exclusive
  <2> USE DEF TypeOK, Goto, menuVars
  <2>3. ASSUME NEW t \in Task, ClickItem(t) \/ ClickDiagnostic(t) \/ TaskStep(t)
        PROVE  MenuOwed'
    <3>1. /\ UNCHANGED <<saw, left, enabled>>
          /\ \A th \in Thread : \/ pc'[th] = pc[th]
                                \/ pc[th] \notin Refreshing /\ pc'[th] \notin Refreshing
      BY <2>3, <1>b DEF ClickItem, ClickDiagnostic, Click, TaskStep, LoadLists, CloseDialog,
                  CloseDiagnostic, BeginAction, EndAction, NothingOwed, Owes
    <3> QED
      BY <2>1, <3>1 DEF MenuOwed
  <2>4. ASSUME NEW th \in Thread, ThreadStep(th) PROVE MenuOwed'
    <3>1. pc[th] \in Refreshing
      BY <2>4, <1>b DEF ThreadStep, Look, SetItem, SetLastItem, Set, ReadStatus, ApplyState,
                        NothingOwed, Owes, LoopsOnlyRefresh
    <3>2. \A u \in Thread : pc[u] \in Refreshing => u = th
      BY <3>1, Holder
    <3>3. CASE Look(th)
      BY <3>3, <3>1, <3>2, <2>2 DEF Look, UpdateAfter, MenuOwed
    <3>4. CASE SetItem(th)
      BY <3>4, <3>1, <3>2, <2>1, UsableType DEF SetItem, Set, MenuOwed
    <3>5. CASE SetLastItem(th)
      BY <3>5, <3>1, <3>2, <2>1, UsableType DEF SetLastItem, Set, Then, MenuOwed
    <3>6. CASE ReadStatus(th) \/ ApplyState(th)
      BY <3>6, <2>1, <3>2 DEF ReadStatus, ApplyState, MenuOwed
    <3> QED
      BY <2>4, <3>3, <3>4, <3>5, <3>6 DEF ThreadStep
  <2>5. CASE ClickRefresh \/ Tick
    BY <2>5, <2>1 DEF ClickRefresh, Click, Tick, MenuOwed
  <2>6. CASE Quit
    <3>1. pc'["menu"] = "gone"
      BY <2>6 DEF Quit
    <3> QED
      BY <3>1 DEF NothingOwed, Gone
  <2>7. ASSUME OthersAct \/ (\E t \in Task : CommandActs(t)) \/ UNCHANGED vars
        PROVE  MenuOwed'
    BY <2>7, <2>1 DEF OthersAct, CommandActs, vars, MenuOwed
  <2> QED
    BY <1>a, <2>3, <2>4, <2>5, <2>6, <2>7 DEF Next
<1> QED
  BY <1>a, <1>b, SettledByMu

LEMMA StatusOwedStep ==
    TypeOK /\ LoopsOnlyRefresh /\ InOrder /\ StatusOwed /\ [Next]_vars => StatusOwed'
<1> SUFFICES ASSUME TypeOK, LoopsOnlyRefresh, InOrder, StatusOwed, [Next]_vars, NothingOwed'
             PROVE  StatusOwed'
  BY DEF StatusOwed
<1>a. ASSUME NEW th \in Thread, LockMu(th) PROVE StatusOwed'
  BY <1>a DEF LockMu, Goto, StatusOwed, TypeOK
<1>b. CASE NothingOwed
  <2>1. \/ shown >= acted
        \/ \E th \in Thread : \/ pc[th] = "status"
                              \/ pc[th] = "apply" /\ got[th] >= acted
    BY <1>b DEF StatusOwed
  <2> USE DEF TypeOK, Goto, statusVars
  <2>2. ASSUME NEW t \in Task,
               ClickItem(t) \/ ClickDiagnostic(t) \/ TaskStep(t) \/ CommandActs(t)
        PROVE  StatusOwed'
    <3>1. /\ UNCHANGED statusVars
          /\ \A th \in Thread : \/ pc'[th] = pc[th]
                                \/ pc[th] \notin Refreshing /\ pc'[th] \notin Refreshing
      BY <2>2, <1>b DEF ClickItem, ClickDiagnostic, Click, TaskStep, LoadLists, CloseDialog,
                  CloseDiagnostic, BeginAction, EndAction, CommandActs, NothingOwed, Owes
    <3> QED
      BY <2>1, <3>1 DEF StatusOwed
  <2>3. ASSUME NEW th \in Thread, ThreadStep(th) PROVE StatusOwed'
    <3>1. CASE Look(th) \/ SetItem(th) \/ SetLastItem(th)
      BY <3>1, <2>1 DEF Look, UpdateAfter, SetItem, SetLastItem, Set, Then, StatusOwed
    <3>2. CASE ReadStatus(th)
      BY <3>2 DEF ReadStatus, StatusOwed, InOrder
    <3>3. CASE ApplyState(th)
      BY <3>3, <2>1, Holder DEF ApplyState, StatusOwed, InOrder
    <3> QED
      BY <2>3, <3>1, <3>2, <3>3 DEF ThreadStep
  <2>4. CASE ClickRefresh \/ Tick
    BY <2>4, <2>1 DEF ClickRefresh, Click, Tick, StatusOwed
  <2>5. CASE Quit
    <3>1. pc'["menu"] = "gone"
      BY <2>5 DEF Quit
    <3> QED
      BY <3>1 DEF NothingOwed, Gone
  <2>6. CASE OthersAct \/ UNCHANGED vars
    BY <2>6, <2>1 DEF OthersAct, vars, StatusOwed
  <2> QED
    BY <1>a, <2>2, <2>3, <2>4, <2>5, <2>6 DEF Next
<1> QED
  BY <1>a, <1>b, SettledByMu

LEMMA Inductive == Spec => []IInv
<1>1. IInv /\ [Next]_vars => IInv'
  BY TypeStep, LoopsStep, ExclusiveStep, InOrderStep, MenuOwedStep, StatusOwedStep DEF IInv
<1> QED
  BY InitInv, <1>1, PTL DEF Spec
-----------------------------------------------------------------------------
(* The results.                                                            *)

\* Every variable keeps its type, and mu has the holder its goroutines think.
THEOREM TypeCorrect == Spec => []TypeOK
<1>1. IInv => TypeOK
  BY DEF IInv
<1> QED
  BY Inductive, <1>1, PTL

\* However many goroutines click and save, one action runs at most
\* (beginAction, endAction).
THEOREM OneActionHolds == Spec => []OneAction
<1>1. IInv => OneAction
  <2> SUFFICES ASSUME IInv PROVE OneAction
    OBVIOUS
  <2> DEFINE B == {t \in Task : pc[t] \in Busy}
  <2>1. \A t, u \in B : t = u
    BY DEF IInv, Exclusive
  <2>2. CASE B = {}
    BY <2>2, FS_EmptySet DEF OneAction
  <2>3. ASSUME NEW t \in B PROVE Cardinality(B) <= 1
    <3>1. B = {t}
      BY <2>1
    <3>2. Cardinality({t}) = 1
      BY FS_Singleton
    <3> QED
      BY <3>1, <3>2
  <2> QED
    BY <2>2, <2>3 DEF OneAction
<1> QED
  BY Inductive, <1>1, PTL

\* The menu is right once no action is on its way, for any number of items and
\* any overlap of updates (updateActionAvailability, refreshNow).
THEOREM MenuSettlesHolds == Spec => []MenuSettles
<1>1. IInv => MenuSettles
  <2> SUFFICES ASSUME IInv, Settled PROVE \A i \in Item : enabled[i] = Usable(i)
    BY DEF MenuSettles
  <2>1. NothingOwed /\ \A th \in Thread : pc[th] \notin Refreshing
    BY DEF Settled, NothingOwed, Owes, IInv, TypeOK
  <2> QED
    BY <2>1 DEF IInv, MenuOwed
<1> QED
  BY Inductive, <1>1, PTL

\* What an action changed is on display once no action is on its way
\* (runAction's deferred refreshNow).
THEOREM ShowsActionsHolds == Spec => []ShowsActions
<1>1. IInv => ShowsActions
  <2> SUFFICES ASSUME IInv, Settled PROVE shown >= acted
    BY DEF ShowsActions
  <2>1. NothingOwed /\ \A th \in Thread : pc[th] \notin Refreshing
    BY DEF Settled, NothingOwed, Owes, IInv, TypeOK
  <2> QED
    BY <2>1 DEF IInv, StatusOwed
<1> QED
  BY Inductive, <1>1, PTL

\* The display never goes back in time (refreshNow under a.mu).
THEOREM ShownInOrderHolds == Spec => ShownInOrder
<1>1. IInv /\ [Next]_vars => [shown' >= shown]_shown
  <2> SUFFICES ASSUME IInv, [Next]_vars PROVE shown' >= shown \/ shown' = shown
    OBVIOUS
  <2>1. ASSUME NEW th \in Thread, ApplyState(th) PROVE shown' >= shown
    BY <2>1 DEF ApplyState, IInv, InOrder
  <2>2. ASSUME NEW th \in Thread, ThreadStep(th), ~ApplyState(th) PROVE shown' = shown
    BY <2>2 DEF ThreadStep, Look, SetItem, SetLastItem, ReadStatus, statusVars
  <2>3. ASSUME NEW t \in Task,
               ClickItem(t) \/ ClickDiagnostic(t) \/ TaskStep(t) \/ CommandActs(t)
        PROVE  shown' = shown
    BY <2>3 DEF ClickItem, ClickDiagnostic, Click, TaskStep, LoadLists, CloseDialog,
                CloseDiagnostic, BeginAction, EndAction, CommandActs, statusVars
  <2>4. ASSUME (\E th \in Thread : LockMu(th)) \/ ClickRefresh \/ Quit \/ Tick
                  \/ OthersAct \/ UNCHANGED vars
        PROVE  shown' = shown
    BY <2>4 DEF LockMu, ClickRefresh, Click, Quit, Tick, OthersAct, vars, statusVars
  <2> QED
    BY <2>1, <2>2, <2>3, <2>4 DEF Next
<1> QED
  BY Inductive, <1>1, PTL DEF Spec, ShownInOrder
=============================================================================
