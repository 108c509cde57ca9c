-------------------------------- MODULE Tray --------------------------------
(***************************************************************************)
(* The goroutines of the tray: handleMenu reads clicks and starts one      *)
(* goroutine per action, dialog or diagnostic, poll refreshes the status   *)
(* every few seconds, onReady refreshes it once.  a.mu is held while the   *)
(* status is read and shown.  actionRunning keeps actions apart and has a  *)
(* mutex of its own, taken for one read or write at a time, so the menu    *)
(* items are enabled and disabled by whoever looked at it last.            *)
(* What a status says is abstracted to the moment it was read at.  A local *)
(* variable is reset when it goes out of scope.                            *)
(***************************************************************************)
EXTENDS Naturals, FiniteSets

CONSTANTS
    Task,        \* goroutines started by clicks that may run at a time
    NoThread,    \* nobody
    Tools,       \* what was found at the start: "core", "pkexec", "yad"
    ActionItem,  \* the menu items that run a command through pkexec
    MaxClicks,   \* bound: clicks
    MaxChanges   \* bound: changes of what the status command reports

Loops == {"ready", "menu", "poll"}
Thread == Task \cup Loops
Item == ActionItem \cup {"domains"}

ASSUME ThreadAssumption == Task \cap Loops = {} /\ NoThread \notin Thread
ASSUME TrayBoundAssumption == MaxClicks \in Nat /\ MaxChanges \in Nat

VARIABLES
    running,  \* actionRunning
    mu,       \* the goroutine that holds a.mu
    pc,       \* where each goroutine is
    saw,      \* actionRunning as its updateActionAvailability read it
    left,     \* the menu items its updateActionAvailability has not set yet
    enabled,  \* the menu items that can be clicked
    version,  \* changes of the system so far
    acted,    \* the last change that an action of the tray made
    got,      \* when a refresh has read the status it will show
    shown,    \* when the status on display was read
    clicks    \* clicks so far

menuVars == <<running, saw, left, enabled>>
statusVars == <<version, acted, got, shown>>
vars == <<mu, pc, clicks, menuVars, statusVars>>

\* A goroutine that has changed actionRunning or is about to refresh the
\* status has one of these ahead of it.
Updating == {"disable", "enable", "redraw"}
Looking == {"begun", "ended", "shown"}
Busy == {"begun", "disable", "command"}
Unsettled == Busy \cup {"ended", "enable"}
Refreshing == {"status", "apply", "shown", "redraw"}
Gone == pc["menu"] = "gone"

TypeOK ==
    /\ running \in BOOLEAN
    /\ mu \in Thread \cup {NoThread}
    /\ pc \in [Thread -> {"idle", "load", "dialog", "begin", "diagnose", "lock", "gone"}
                            \cup Unsettled \cup Refreshing]
    /\ saw \in [Thread -> BOOLEAN]
    /\ left \in [Thread -> SUBSET Item]
    /\ enabled \in [Item -> BOOLEAN]
    /\ version \in Nat /\ acted \in Nat /\ clicks \in Nat
    /\ got \in [Thread -> Nat] /\ shown \in Nat
    /\ \A th \in Thread : mu = th <=> pc[th] \in Refreshing

\* What the tools found allow, see updateActionAvailability
Usable(i) ==
    /\ {"core", "pkexec"} \subseteq Tools
    /\ i = "domains" => "yad" \in Tools

\* onReady has built the menu and started handleMenu and poll.
Init ==
    /\ running = FALSE
    /\ mu = NoThread
    /\ pc = [th \in Thread |-> IF th = "ready" THEN "lock" ELSE "idle"]
    /\ saw = [th \in Thread |-> FALSE]
    /\ left = [th \in Thread |-> {}]
    /\ enabled = [i \in Item |-> Usable(i)]
    /\ version = 0 /\ acted = 0 /\ clicks = 0
    /\ got = [th \in Thread |-> 0]
    /\ shown = 0

Goto(th, label) == pc' = [pc EXCEPT ![th] = label]
-----------------------------------------------------------------------------
(* handleMenu: clicks are dropped while it is not waiting for one.         *)

Click ==
    /\ pc["menu"] = "idle"
    /\ clicks < MaxClicks
    /\ clicks' = clicks + 1
    /\ UNCHANGED <<mu, menuVars, statusVars>>

ClickItem(t) ==
    /\ Click
    /\ pc[t] = "idle"
    /\ \E i \in Item :
          /\ enabled[i]
          /\ Goto(t, IF i = "domains" THEN "load" ELSE "begin")

\* runDiagnostic takes no notice of actionRunning.
ClickDiagnostic(t) ==
    /\ Click
    /\ pc[t] = "idle"
    /\ Goto(t, IF "core" \in Tools THEN "diagnose" ELSE "lock")

ClickRefresh ==
    /\ Click
    /\ Goto("menu", "lock")

\* The process exits, whatever its goroutines are doing.
Quit ==
    /\ pc["menu"] = "idle"
    /\ pc' = [th \in Thread |-> "gone"]
    /\ mu' = NoThread
    /\ running' = FALSE
    /\ left' = [th \in Thread |-> {}]
    /\ UNCHANGED <<clicks, saw, enabled, statusVars>>
-----------------------------------------------------------------------------
(* Actions and dialogs.                                                    *)

\* domains.Load, which may fail
LoadLists(t) ==
    /\ pc[t] = "load"
    /\ \/ Goto(t, "dialog")
       \/ Goto(t, "idle")
    /\ UNCHANGED <<mu, clicks, menuVars, statusVars>>

\* Saved, or cancelled, timed out, refused or without a change
CloseDialog(t) ==
    /\ pc[t] = "dialog"
    /\ \/ Goto(t, "begin")
       \/ Goto(t, "idle")
    /\ UNCHANGED <<mu, clicks, menuVars, statusVars>>

\* The diagnostic has run and the window with its result is closed.
CloseDiagnostic(t) ==
    /\ pc[t] = "diagnose"
    /\ Goto(t, "lock")
    /\ UNCHANGED <<mu, clicks, menuVars, statusVars>>

\* Mutant: actionRunning is set without a look at it.
BeginUnchecked(t) ==
    /\ pc[t] = "begin"
    /\ running' = TRUE
    /\ Goto(t, "begun")
    /\ UNCHANGED <<mu, clicks, saw, left, enabled, statusVars>>

\* runAction up to beginAction: an item may be clicked again before it is
\* disabled, and several dialogs may be open.
BeginAction(t) ==
    /\ pc[t] = "begin"
    /\ LET begins == {"core", "pkexec"} \subseteq Tools /\ ~running
       IN  /\ running' = (running \/ begins)
           /\ Goto(t, CASE begins -> "begun"
                        [] "core" \notin Tools -> "lock"
                        [] OTHER -> "idle")
    /\ UNCHANGED <<mu, clicks, saw, left, enabled, statusVars>>

\* The command changes what a status reports, if it gets that far.
CommandActs(t) ==
    /\ pc[t] = "command"
    /\ version < MaxChanges
    /\ version' = version + 1
    /\ acted' = version + 1
    /\ UNCHANGED <<mu, pc, clicks, menuVars, got, shown>>

\* Mutant: a cancelled command leaves runAction before endAction.
EndUncancelled(t) ==
    /\ pc[t] = "command"
    /\ \/ running' = FALSE /\ Goto(t, "ended")
       \/ running' = running /\ Goto(t, "idle")
    /\ UNCHANGED <<mu, clicks, saw, left, enabled, statusVars>>

\* The command has ended, failed, been cancelled or timed out: endAction runs
\* in any case.
EndAction(t) ==
    /\ pc[t] = "command"
    /\ running' = FALSE
    /\ Goto(t, "ended")
    /\ UNCHANGED <<mu, clicks, saw, left, enabled, statusVars>>
-----------------------------------------------------------------------------
(* updateActionAvailability, called by beginAction, endAction and          *)
(* applyState: it looks at actionRunning once, then sets item after item.  *)

UpdateAfter == [begun |-> "disable", ended |-> "enable", shown |-> "redraw"]

Look(th) ==
    /\ pc[th] \in Looking
    /\ saw' = [saw EXCEPT ![th] = running]
    /\ left' = [left EXCEPT ![th] = Item]
    /\ Goto(th, UpdateAfter[pc[th]])
    /\ UNCHANGED <<mu, clicks, running, enabled, statusVars>>

Set(th, i) ==
    /\ pc[th] \in Updating
    /\ enabled' = [enabled EXCEPT ![i] = Usable(i) /\ ~saw[th]]
    /\ left' = [left EXCEPT ![th] = @ \ {i}]

SetItem(th) ==
    /\ \E i \in left[th] : left[th] # {i} /\ Set(th, i)
    /\ UNCHANGED <<mu, pc, clicks, running, saw, statusVars>>

\* Mutant: the status is not refreshed after an action.
ThenWithoutRefresh == [disable |-> "command", enable |-> "idle", redraw |-> "idle"]

\* beginAction returns to the action, endAction is followed by refreshNow.
Then == [disable |-> "command", enable |-> "lock", redraw |-> "idle"]

\* Mutant: refreshNow keeps a.mu.
SetLastItemLocked(th) ==
    /\ \E i \in left[th] : left[th] = {i} /\ Set(th, i)
    /\ Goto(th, Then[pc[th]])
    /\ saw' = [saw EXCEPT ![th] = FALSE]
    /\ UNCHANGED <<mu, clicks, running, statusVars>>

SetLastItem(th) ==
    /\ \E i \in left[th] : left[th] = {i} /\ Set(th, i)
    /\ Goto(th, Then[pc[th]])
    /\ saw' = [saw EXCEPT ![th] = FALSE]
    /\ mu' = IF pc[th] = "redraw" THEN NoThread ELSE mu
    /\ UNCHANGED <<clicks, running, statusVars>>
-----------------------------------------------------------------------------
(* refreshNow and applyState.                                              *)

Tick ==
    /\ pc["poll"] = "idle"
    /\ Goto("poll", "lock")
    /\ UNCHANGED <<mu, clicks, menuVars, statusVars>>

\* Mutant: refreshNow does not wait for a.mu.
TakeMu(th) ==
    /\ pc[th] = "lock"
    /\ mu' = th
    /\ Goto(th, "status")
    /\ UNCHANGED <<clicks, menuVars, statusVars>>

LockMu(th) ==
    /\ pc[th] = "lock"
    /\ mu = NoThread
    /\ mu' = th
    /\ Goto(th, "status")
    /\ UNCHANGED <<clicks, menuVars, statusVars>>

\* client.Status, or an offline state where it fails or there is no command
ReadStatus(th) ==
    /\ pc[th] = "status"
    /\ got' = [got EXCEPT ![th] = version]
    /\ Goto(th, "apply")
    /\ UNCHANGED <<mu, clicks, menuVars, version, acted, shown>>

ApplyState(th) ==
    /\ pc[th] = "apply"
    /\ shown' = got[th]
    /\ got' = [got EXCEPT ![th] = 0]
    /\ Goto(th, "shown")
    /\ UNCHANGED <<mu, clicks, menuVars, version, acted>>

\* Another program, an event or the timer changes what a status reports.
OthersAct ==
    /\ version < MaxChanges
    /\ version' = version + 1
    /\ UNCHANGED <<mu, pc, clicks, menuVars, acted, got, shown>>
-----------------------------------------------------------------------------
TaskStep(t) ==
    \/ LoadLists(t) \/ CloseDialog(t) \/ CloseDiagnostic(t)
    \/ BeginAction(t) \/ EndAction(t)

ThreadStep(th) ==
    Look(th) \/ SetItem(th) \/ SetLastItem(th) \/ ReadStatus(th) \/ ApplyState(th)

Next ==
    \/ \E t \in Task : ClickItem(t) \/ ClickDiagnostic(t) \/ TaskStep(t) \/ CommandActs(t)
    \/ \E th \in Thread : ThreadStep(th) \/ LockMu(th)
    \/ ClickRefresh \/ Quit \/ Tick \/ OthersAct

Spec == Init /\ [][Next]_vars

\* Dialogs and commands have timeouts, the ticker ticks, and a waiting
\* goroutine gets a.mu in the end: a sync.Mutex hands over in order once
\* somebody has waited for a millisecond.
Fairness ==
    /\ \A t \in Task : WF_vars(TaskStep(t))
    /\ \A th \in Thread : WF_vars(ThreadStep(th)) /\ SF_vars(LockMu(th))
    /\ WF_vars(Tick)

FairSpec == Spec /\ Fairness
-----------------------------------------------------------------------------
(* What must hold in every behaviour.                                      *)

\* However fast items are clicked and whichever dialogs are saved together, at
\* most one action of the tray runs a command as root (runAction, beginAction).
OneAction == Cardinality({t \in Task : pc[t] \in Busy}) <= 1

\* No action is on its way and nobody refreshes the status.
Settled == mu = NoThread /\ ~Gone /\ \A t \in Task :
               pc[t] \notin Unsettled /\ pc[t] # "lock"

\* When no action is on its way every item is enabled that the tools allow, and
\* no other one, although updates of the menu overlap and write what they read
\* before (updateActionAvailability, runAction's deferred calls).
MenuSettles == Settled => \A i \in Item : enabled[i] = Usable(i)

\* When no action is on its way the tray shows a status that was read after the
\* last change an action made, not one that a poll read before it (refreshNow).
ShowsActions == Settled => shown >= acted

\* A status that was read earlier never replaces one that was read later
\* (refreshNow reads and shows it under a.mu).
ShownInOrder == [][shown' >= shown]_shown

\* No item stays disabled for good: every action comes to its end and lets the
\* next one begin (endAction, updateActionAvailability).
MenuReturns == \A i \in Item : []<>(enabled[i] \/ ~Usable(i) \/ Gone)

\* Every change is shown in the end, whoever made it (poll, refreshNow).
ChangesShown == \A n \in 1 .. MaxChanges : version = n ~> shown >= n \/ Gone
=============================================================================
