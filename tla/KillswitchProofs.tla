-------------------------- MODULE KillswitchProofs --------------------------
(***************************************************************************)
(* Theorems about Killswitch, for every set of processes and domains and   *)
(* every bound.  The first sections hold under every combination of        *)
(* faults.  The last three need some of them to stay away: what a command  *)
(* may open, that the protection is in place when the VPN is down, and     *)
(* that it agrees with the VPN either way, once every event has been       *)
(* handled.  Each rests on an invariant of its own on top of IInv.         *)
(***************************************************************************)
EXTENDS Killswitch, TLAPS

-----------------------------------------------------------------------------
(* The inductive invariant.  Progress relates the memory of a process to   *)
(* the step it is at; Holds says what a process that holds the flock knows *)
(* of the table and the hosts file, which only MutualExclusion makes last. *)

Enabling == {"resolve", "nftDelete", "nftLoad", "writeHosts"}
Disabling == {"disableNft", "stripHosts"}

Progress(p) ==
    /\ pc[p] # "idle" => cmd[p] # "none"
    /\ pc[p] \in {"acquire"} \cup Critical => cmd[p] # "edit"
    /\ pc[p] = "bypass" => cmd[p] \in Enforcers \cup {"apply"}
    /\ pc[p] = "detect" => cmd[p] \in Enforcers \cup Refreshers
    /\ pc[p] \in Outside \cup {"bypass", "detect"} => status[p] = "none"
    /\ pc[p] \in Enabling => cmd[p] \in Lockers /\ status[p] # "active"
    /\ pc[p] \in Disabling =>
          cmd[p] = "disable" \/ (cmd[p] \in Enforcers /\ status[p] = "active")
    /\ pc[p] # "exit" => outcome[p] = "none"
    /\ ReportsLocked(p) => outcome[p] = "applied"
    /\ ReportsLifted(p) => outcome[p] = "disabled"

Holds(p) ==
    /\ pc[p] = "writeHosts" => table /\ resolved[p] \subseteq blocked
    /\ pc[p] = "exit" /\ outcome[p] = "applied" => Locked(p)
    /\ "nftDelete" \notin Faults =>
          /\ pc[p] = "stripHosts" => ~table /\ blocked = {}
          /\ pc[p] = "exit" /\ outcome[p] = "disabled" => Lifted

IInv ==
    /\ TypeOK
    /\ \A p \in Proc : Progress(p)
    /\ MutualExclusion
    /\ \A p \in Proc : Holds(p)
-----------------------------------------------------------------------------
(* Type correctness.                                                       *)

USE DEF EventKinds, Disturbances, Outside, Critical, Enforcers, Refreshers, Lockers,
        Commands, world, Complain, Begin

LEMMA InitTypeOK == Init => TypeOK
<1> SUFFICES ASSUME Init PROVE TypeOK
  OBVIOUS
<1>1. pending \in [EventKinds -> Nat] /\ spent \in [Disturbances -> Nat]
  BY DEF Init, BootEvent
<1>2. /\ pc \in [Proc -> Outside \cup Critical]
      /\ cmd \in [Proc -> Commands \cup {"none"}]
      /\ cfg \in [Proc -> SUBSET Domain]
      /\ status \in [Proc -> {"none", "active", "inactive", "unknown"}]
      /\ resolved \in [Proc -> SUBSET Address]
      /\ err \in [Proc -> BOOLEAN]
      /\ outcome \in [Proc -> {"none", "applied", "disabled"}]
  BY DEF Init
<1> QED
  BY <1>1, <1>2 DEF Init, TypeOK

\* What a process that holds the flock starts with
LEMMA FirstStepType ==
    ASSUME NEW c \in Commands, c # "edit"
    PROVE  FirstStep(c) \in Critical
BY DEF FirstStep

LEMMA AfterDetectType ==
    ASSUME NEW c, NEW s
    PROVE  AfterDetect(c, s) \in Critical
BY DEF AfterDetect

LEMMA EnvironmentTypeOK ==
    ASSUME TypeOK,
           VpnChange \/ NetworkEvent \/ MarkerExpires \/ DispatchDropped \/ Reboot
    PROVE  TypeOK'
<1> USE DEF TypeOK, envVars, protection, memory, Spend, Notify, Consume
<1>1. CASE VpnChange
  BY <1>1 DEF VpnChange
<1>2. CASE NetworkEvent
  BY <1>2 DEF NetworkEvent
<1>3. CASE MarkerExpires
  BY <1>3 DEF MarkerExpires
<1>4. CASE DispatchDropped
  BY <1>4 DEF DispatchDropped
<1>5. CASE Reboot
  <2>1. pending' \in [EventKinds -> Nat] /\ spent' \in [Disturbances -> Nat]
    BY <1>5 DEF Reboot, BootEvent
  <2>2. /\ pc' \in [Proc -> Outside \cup Critical]
        /\ cmd' \in [Proc -> Commands \cup {"none"}]
        /\ cfg' \in [Proc -> SUBSET Domain]
        /\ status' \in [Proc -> {"none", "active", "inactive", "unknown"}]
        /\ resolved' \in [Proc -> SUBSET Address]
        /\ err' \in [Proc -> BOOLEAN]
        /\ outcome' \in [Proc -> {"none", "applied", "disabled"}]
    BY <1>5 DEF Reboot
  <2> QED
    BY <1>5, <2>1, <2>2 DEF Reboot
<1> QED
  BY <1>1, <1>2, <1>3, <1>4, <1>5

LEMMA LaunchTypeOK ==
    ASSUME TypeOK, NEW p \in Proc,
           Dispatch(p) \/ TimerTick(p) \/ UserCommand(p)
    PROVE  TypeOK'
<1> USE DEF TypeOK, envVars, protection, Launch, Consume, Spend
<1>1. CASE DispatchDirect(p)
  BY <1>1 DEF DispatchDirect
<1>2. CASE DispatchDebounced(p)
  BY <1>2 DEF DispatchDebounced
<1>3. CASE TimerTick(p)
  BY <1>3 DEF TimerTick
<1>4. CASE UserCommand(p)
  BY <1>4, CommandAssumption DEF UserCommand
<1> QED
  BY <1>1, <1>2, <1>3, <1>4 DEF Dispatch

LEMMA StepTypeOK ==
    ASSUME TypeOK, NEW p \in Proc, Progress(p), Step(p)
    PROVE  TypeOK'
<1> USE DEF TypeOK, envVars, protection, memory
<1>1. CASE ReadConfig(p)
  BY <1>1 DEF ReadConfig, Goto
<1>2. CASE ReadConfigFails(p)
  BY <1>2 DEF ReadConfigFails, Vanish, Goto
<1>3. CASE ApplyTray(p)
  BY <1>3 DEF ApplyTray, Goto
<1>4. CASE EditConfig(p)
  BY <1>4 DEF EditConfig, Vanish, Goto
<1>5. CASE Acquire(p)
  <2>1. FirstStep(cmd[p]) \in Critical
    BY <1>5, FirstStepType DEF Acquire, Progress
  <2> QED
    BY <1>5, <2>1 DEF Acquire, Goto
<1>6. CASE AcquireFails(p)
  BY <1>6 DEF AcquireFails, Vanish, Goto
<1>7. CASE BypassApply(p)
  BY <1>7 DEF BypassApply, Goto
<1>8. CASE BypassApplyFails(p)
  BY <1>8 DEF BypassApplyFails, Goto
<1>9. CASE Detect(p)
  BY <1>9, AfterDetectType DEF Detect, Detected, Goto
<1>10. CASE ResolveDomains(p)
  <2>1. PICK got \in SUBSET Answers(p) : resolved' = [resolved EXCEPT ![p] = got]
    BY <1>10 DEF ResolveDomains
  <2>2. got \subseteq Address
    BY DEF Answers, LookupIPAddr, Addresses
  <2> QED
    BY <1>10, <2>1, <2>2 DEF ResolveDomains, Goto
<1>11. CASE ScriptFails(p)
  BY <1>11 DEF ScriptFails, Fail, Goto
<1>12. CASE NftDelete(p)
  BY <1>12 DEF NftDelete, DeleteTable, Goto
<1>13. CASE NftLoad(p)
  BY <1>13 DEF NftLoad, LoadTable, Goto
<1>14. CASE NftLoadFails(p) \/ NftRefuses(p)
  BY <1>14 DEF NftRefuses, NftLoadFails, LoadTable, Fail, Goto
<1>15. CASE WriteHosts(p)
  BY <1>15 DEF WriteHosts, Block, Goto
<1>16. CASE DisableNft(p)
  BY <1>16 DEF DisableNft, DeleteTable, Goto
<1>17. CASE StripHosts(p)
  BY <1>17 DEF StripHosts, Block, Goto
<1>18. CASE HostsFails(p)
  BY <1>18 DEF HostsFails, TornHosts, Block, Fail, Goto
<1>19. CASE Release(p)
  BY <1>19 DEF Release, Vanish, Goto
<1> QED
  BY <1>1, <1>2, <1>3, <1>4, <1>5, <1>6, <1>7, <1>8, <1>9, <1>10, <1>11, <1>12,
     <1>13, <1>14, <1>15, <1>16, <1>17, <1>18, <1>19
  DEF Step, Configure, Enable, Disable

LEMMA CrashTypeOK ==
    ASSUME TypeOK, NEW p \in Proc, Crash(p)
    PROVE  TypeOK'
BY DEF TypeOK, Crash, TornHosts, Block, Vanish, Goto, Spend
-----------------------------------------------------------------------------
(* Progress: what a process remembers fits the step it is at.              *)

\* A step of p leaves every other process as it is.
LEMMA OthersUnchanged ==
    ASSUME TypeOK, NEW p \in Proc, NEW q \in Proc, q # p,
           Dispatch(p) \/ TimerTick(p) \/ UserCommand(p) \/ Step(p) \/ Crash(p)
    PROVE  /\ pc'[q] = pc[q]
           /\ cmd'[q] = cmd[q]
           /\ cfg'[q] = cfg[q]
           /\ status'[q] = status[q]
           /\ resolved'[q] = resolved[q]
           /\ err'[q] = err[q]
           /\ outcome'[q] = outcome[q]
<1> USE DEF TypeOK, envVars, protection, memory, Goto, Vanish, Fail, Launch
<1>1. CASE Dispatch(p) \/ TimerTick(p) \/ UserCommand(p)
  BY <1>1 DEF Dispatch, DispatchDirect, DispatchDebounced, TimerTick, UserCommand
<1>2. CASE Configure(p)
  BY <1>2 DEF Configure, ReadConfig, ReadConfigFails, ApplyTray, EditConfig
<1>3. CASE Acquire(p) \/ AcquireFails(p)
  BY <1>3 DEF Acquire, AcquireFails
<1>4. CASE BypassApply(p) \/ BypassApplyFails(p)
  BY <1>4 DEF BypassApply, BypassApplyFails
<1>5. CASE Detect(p)
  BY <1>5 DEF Detect
<1>6. CASE Enable(p)
  BY <1>6 DEF Enable, ResolveDomains, ScriptFails, NftDelete, NftLoad,
              NftRefuses, NftLoadFails, WriteHosts
<1>7. CASE Disable(p) \/ HostsFails(p)
  BY <1>7 DEF Disable, DisableNft, StripHosts, HostsFails
<1>8. CASE Release(p) \/ Crash(p)
  BY <1>8 DEF Release, Crash
<1> QED
  BY <1>1, <1>2, <1>3, <1>4, <1>5, <1>6, <1>7, <1>8 DEF Step

LEMMA LaunchProgress ==
    ASSUME TypeOK, NEW p \in Proc, Progress(p),
           Dispatch(p) \/ TimerTick(p) \/ UserCommand(p)
    PROVE  Progress(p)'
<1> USE DEF TypeOK, Progress, Launch, Enabling, Disabling, ReportsLocked, ReportsLifted
<1>1. CASE Dispatch(p)
  BY <1>1 DEF Dispatch, DispatchDirect, DispatchDebounced
<1>2. CASE TimerTick(p)
  BY <1>2 DEF TimerTick
<1>3. CASE UserCommand(p)
  BY <1>3, CommandAssumption DEF UserCommand
<1> QED
  BY <1>1, <1>2, <1>3

LEMMA StepProgress ==
    ASSUME TypeOK, NEW p \in Proc, Progress(p), Step(p)
    PROVE  Progress(p)'
<1> USE DEF TypeOK, Progress, memory, Goto, Vanish, Fail, Enabling, Disabling,
            Lockers, ReportsLocked, ReportsLifted
<1>1. CASE Configure(p)
  BY <1>1 DEF Configure, ReadConfig, ReadConfigFails, ApplyTray, EditConfig
<1>2. CASE Acquire(p)
  BY <1>2 DEF Acquire, FirstStep
<1>3. CASE AcquireFails(p)
  BY <1>3 DEF AcquireFails
<1>4. CASE BypassApply(p)
  BY <1>4 DEF BypassApply
<1>5. CASE BypassApplyFails(p)
  BY <1>5 DEF BypassApplyFails
<1>6. CASE Detect(p)
  BY <1>6 DEF Detect, Detected, AfterDetect
<1>7. CASE ResolveDomains(p)
  BY <1>7 DEF ResolveDomains
<1>8. CASE ScriptFails(p) \/ NftRefuses(p) \/ NftLoadFails(p) \/ HostsFails(p)
  BY <1>8 DEF ScriptFails, NftRefuses, NftLoadFails, HostsFails
<1>9. CASE NftDelete(p) \/ NftLoad(p) \/ WriteHosts(p)
  BY <1>9 DEF NftDelete, NftLoad, WriteHosts
<1>10. CASE Disable(p)
  BY <1>10 DEF Disable, DisableNft, StripHosts
<1>11. CASE Release(p)
  BY <1>11 DEF Release
<1> QED
  BY <1>1, <1>2, <1>3, <1>4, <1>5, <1>6, <1>7, <1>8, <1>9, <1>10, <1>11
  DEF Step, Enable

LEMMA CrashProgress ==
    ASSUME TypeOK, NEW p \in Proc, Crash(p)
    PROVE  Progress(p)'
BY DEF TypeOK, Crash, Vanish, Goto, Progress, Enabling, Disabling, ReportsLocked,
       ReportsLifted
-----------------------------------------------------------------------------
(* Mutual exclusion and what it protects.                                  *)

\* A process enters the critical steps by taking a free flock and leaves them
\* by giving it back.
LEMMA StepMutualExclusion ==
    ASSUME TypeOK, NEW p \in Proc, Progress(p), MutualExclusion,
           Dispatch(p) \/ TimerTick(p) \/ UserCommand(p) \/ Step(p) \/ Crash(p)
    PROVE  MutualExclusion'
<1>1. \A q \in Proc : q # p => pc'[q] = pc[q]
  BY OthersUnchanged
<1>2. SUFFICES /\ pc'[p] \in Critical <=> flock' = p
               /\ \A q \in Proc : q # p => (flock' = q <=> flock = q)
  BY <1>1 DEF MutualExclusion
<1>3. pc[p] \in Critical <=> flock = p
  BY DEF MutualExclusion
<1> USE <1>3, ProcAssumption DEF TypeOK, envVars, protection, memory, Goto, Vanish, Fail, Launch
<1>4. CASE Dispatch(p) \/ TimerTick(p) \/ UserCommand(p)
  BY <1>4 DEF Dispatch, DispatchDirect, DispatchDebounced, TimerTick, UserCommand
<1>5. CASE Configure(p)
  BY <1>5 DEF Configure, ReadConfig, ReadConfigFails, ApplyTray, EditConfig
<1>6. CASE Acquire(p)
  <2>1. FirstStep(cmd[p]) \in Critical
    BY <1>6, FirstStepType DEF Acquire, Progress
  <2> QED
    BY <1>6, <2>1 DEF Acquire
<1>7. CASE AcquireFails(p)
  BY <1>7 DEF AcquireFails
<1>8. CASE BypassApply(p) \/ BypassApplyFails(p)
  BY <1>8 DEF BypassApply, BypassApplyFails
<1>9. CASE Detect(p)
  BY <1>9, AfterDetectType DEF Detect
<1>10. CASE Enable(p)
  BY <1>10 DEF Enable, ResolveDomains, ScriptFails, NftDelete, NftLoad,
               NftRefuses, NftLoadFails, WriteHosts
<1>11. CASE Disable(p) \/ HostsFails(p)
  BY <1>11 DEF Disable, DisableNft, StripHosts, HostsFails
<1>12. CASE Release(p) \/ Crash(p)
  BY <1>12 DEF Release, Crash
<1> QED
  BY <1>4, <1>5, <1>6, <1>7, <1>8, <1>9, <1>10, <1>11, <1>12 DEF Step

\* Only the holder of the flock touches the table or the hosts file.
LEMMA OnlyHolderChanges ==
    ASSUME TypeOK, NEW p \in Proc, MutualExclusion,
           Dispatch(p) \/ TimerTick(p) \/ UserCommand(p) \/ Step(p) \/ Crash(p),
           flock # p
    PROVE  UNCHANGED protection
<1>1. pc[p] \notin Critical
  BY DEF MutualExclusion
<1> USE <1>1 DEF TypeOK, protection, Launch
<1>2. CASE Dispatch(p) \/ TimerTick(p) \/ UserCommand(p)
  BY <1>2 DEF Dispatch, DispatchDirect, DispatchDebounced, TimerTick, UserCommand
<1>3. CASE Configure(p)
  BY <1>3 DEF Configure, ReadConfig, ReadConfigFails, ApplyTray, EditConfig
<1>4. CASE Acquire(p) \/ AcquireFails(p)
  BY <1>4 DEF Acquire, AcquireFails
<1>5. CASE BypassApply(p) \/ BypassApplyFails(p) \/ Detect(p) \/ Enable(p) \/ Disable(p)
           \/ HostsFails(p) \/ Release(p)
  BY <1>5 DEF BypassApply, BypassApplyFails, Detect, Enable, ResolveDomains, ScriptFails,
              NftDelete, NftLoad, NftRefuses, NftLoadFails, WriteHosts, Disable, DisableNft,
              StripHosts, HostsFails, Release
<1>6. CASE Crash(p)
  BY <1>6 DEF Crash
<1> QED
  BY <1>2, <1>3, <1>4, <1>5, <1>6 DEF Step

LEMMA OthersHold ==
    ASSUME TypeOK, NEW p \in Proc, NEW q \in Proc, q # p, MutualExclusion, Holds(q),
           Dispatch(p) \/ TimerTick(p) \/ UserCommand(p) \/ Step(p) \/ Crash(p)
    PROVE  Holds(q)'
<1>1. CASE pc[q] \in Critical
  <2>1. flock # p
    BY <1>1 DEF MutualExclusion
  <2> QED
    BY <2>1, OnlyHolderChanges, OthersUnchanged
    DEF Holds, Locked, HostsWanted, Lifted, protection
<1>2. CASE pc[q] \notin Critical
  BY <1>2, OthersUnchanged DEF Holds
<1> QED
  BY <1>1, <1>2

LEMMA OwnHolds ==
    ASSUME TypeOK, NEW p \in Proc, Progress(p), Holds(p),
           Dispatch(p) \/ TimerTick(p) \/ UserCommand(p) \/ Step(p) \/ Crash(p)
    PROVE  Holds(p)'
<1> USE DEF TypeOK, Holds, Progress, envVars, protection, memory, Goto, Vanish, Fail, Launch
<1>1. CASE Dispatch(p) \/ TimerTick(p) \/ UserCommand(p)
  BY <1>1 DEF Dispatch, DispatchDirect, DispatchDebounced, TimerTick, UserCommand
<1>2. CASE Configure(p)
  BY <1>2 DEF Configure, ReadConfig, ReadConfigFails, ApplyTray, EditConfig
<1>3. CASE Acquire(p) \/ AcquireFails(p)
  BY <1>3 DEF Acquire, AcquireFails, FirstStep
<1>4. CASE BypassApply(p) \/ BypassApplyFails(p)
  BY <1>4 DEF BypassApply, BypassApplyFails
<1>5. CASE Detect(p)
  BY <1>5 DEF Detect, AfterDetect
<1>6. CASE ResolveDomains(p) \/ ScriptFails(p) \/ NftRefuses(p) \/ NftLoadFails(p)
           \/ NftDelete(p)
  BY <1>6 DEF ResolveDomains, ScriptFails, NftRefuses, NftLoadFails, NftDelete
<1>7. CASE NftLoad(p)
  BY <1>7 DEF NftLoad, LoadTable
<1>8. CASE WriteHosts(p)
  BY <1>8 DEF WriteHosts, Block, Locked, HostsWanted
<1>9. CASE DisableNft(p)
  BY <1>9 DEF DisableNft, DeleteTable
<1>10. CASE StripHosts(p)
  BY <1>10 DEF StripHosts, Block, Lifted
<1>11. CASE HostsFails(p)
  BY <1>11 DEF HostsFails
<1>12. CASE Release(p) \/ Crash(p)
  BY <1>12 DEF Release, Crash
<1> QED
  BY <1>1, <1>2, <1>3, <1>4, <1>5, <1>6, <1>7, <1>8, <1>9, <1>10, <1>11, <1>12
  DEF Step, Enable, Disable
-----------------------------------------------------------------------------
(* The invariant and the theorems it carries.                              *)

LEMMA InitInv == Init => IInv
<1> SUFFICES ASSUME Init PROVE IInv
  OBVIOUS
<1>1. TypeOK
  BY InitTypeOK
<1>2. ASSUME NEW p \in Proc PROVE Progress(p) /\ Holds(p)
  <2>1. pc[p] = "idle" /\ cmd[p] = "none" /\ status[p] = "none" /\ outcome[p] = "none"
    BY DEF Init
  <2> QED
    BY <2>1 DEF Progress, Holds, Enabling, Disabling, ReportsLocked, ReportsLifted
<1>3. MutualExclusion
  <2>1. flock = NoProc /\ \A p \in Proc : pc[p] = "idle"
    BY DEF Init
  <2> QED
    BY <2>1, ProcAssumption DEF MutualExclusion
<1> QED
  BY <1>1, <1>2, <1>3 DEF IInv

LEMMA ProcessStepInv ==
    ASSUME IInv, NEW p \in Proc,
           Dispatch(p) \/ TimerTick(p) \/ UserCommand(p) \/ Step(p) \/ Crash(p)
    PROVE  IInv'
<1> USE DEF IInv
<1>1. TypeOK'
  BY LaunchTypeOK, StepTypeOK, CrashTypeOK
<1>2. ASSUME NEW q \in Proc PROVE Progress(q)'
  <2>1. CASE q = p
    BY <2>1, LaunchProgress, StepProgress, CrashProgress
  <2>2. CASE q # p
    BY <2>2, OthersUnchanged DEF Progress, ReportsLocked, ReportsLifted
  <2> QED
    BY <2>1, <2>2
<1>3. MutualExclusion'
  BY StepMutualExclusion
<1>4. ASSUME NEW q \in Proc PROVE Holds(q)'
  BY OwnHolds, OthersHold
<1> QED
  BY <1>1, <1>2, <1>3, <1>4

LEMMA EnvironmentInv ==
    ASSUME IInv,
           VpnChange \/ NetworkEvent \/ MarkerExpires \/ DispatchDropped \/ Reboot
    PROVE  IInv'
<1> USE DEF IInv
<1>1. TypeOK'
  BY EnvironmentTypeOK
<1>2. CASE UNCHANGED <<flock, protection, pc, memory>>
  BY <1>1, <1>2 DEF protection, memory, Progress, Holds, MutualExclusion, ReportsLocked,
                    ReportsLifted, Locked, HostsWanted, Lifted
<1>3. CASE Reboot
  <2>1. ASSUME NEW q \in Proc PROVE Progress(q)' /\ Holds(q)'
    BY <1>3, <2>1 DEF Reboot, Progress, Holds, Enabling, Disabling, ReportsLocked,
                      ReportsLifted
  <2>2. MutualExclusion'
    BY <1>3, ProcAssumption DEF Reboot, MutualExclusion
  <2> QED
    BY <1>1, <2>1, <2>2
<1> QED
  BY <1>2, <1>3 DEF VpnChange, NetworkEvent, MarkerExpires, DispatchDropped

LEMMA StutterInv == IInv /\ UNCHANGED vars => IInv'
BY DEF IInv, vars, envVars, protection, memory, TypeOK, Progress, Holds, MutualExclusion,
       ReportsLocked, ReportsLifted, Locked, HostsWanted, Lifted

LEMMA NextInv == IInv /\ [Next]_vars => IInv'
BY ProcessStepInv, EnvironmentInv, StutterInv DEF Next

\* IInv holds in every reachable state, whatever the constants are.
THEOREM Invariance == Spec => []IInv
<1>1. Init => IInv
  BY InitInv
<1>2. IInv /\ [Next]_vars => IInv'
  BY NextInv
<1> QED
  BY <1>1, <1>2, PTL DEF Spec

\* Every variable keeps its type.
THEOREM TypeCorrect == Spec => []TypeOK
<1>1. IInv => TypeOK
  BY DEF IInv
<1> QED
  BY <1>1, Invariance, PTL

\* The flock makes the commands mutually exclusive, for any number of
\* processes and with every fault, crash and reboot of the model.
THEOREM Exclusion == Spec => []MutualExclusion
<1>1. IInv => MutualExclusion
  BY DEF IInv
<1> QED
  BY <1>1, Invariance, PTL

\* A command that reports the lock as applied leaves it in place.
THEOREM ReportsTrueWhenLocked == Spec => []SuccessLocks
<1>1. IInv => SuccessLocks
  BY DEF IInv, SuccessLocks, Progress, Holds, ReportsLocked
<1> QED
  BY <1>1, Invariance, PTL

\* A command that reports the lock as lifted leaves neither resource behind,
\* provided nft delete table does not fail.
THEOREM ReportsTrueWhenLifted ==
    ASSUME "nftDelete" \notin Faults
    PROVE  Spec => []SuccessLifts
<1>1. IInv => SuccessLifts
  BY DEF IInv, SuccessLifts, Progress, Holds, ReportsLifted
<1> QED
  BY <1>1, Invariance, PTL
-----------------------------------------------------------------------------
(* The commands implement SerializedLock.                                  *)

USE DEF Serial!vars

LEMMA StepSerial ==
    ASSUME TypeOK, TypeOK', NEW p \in Proc, MutualExclusion, Step(p)
    PROVE  [Serial!Next]_Serial!vars
<1>1. pc[p] \in Critical => flock = p
  BY DEF MutualExclusion
<1> USE <1>1 DEF envVars, protection, memory
<1>2. CASE Configure(p)
  BY <1>2 DEF Configure, ReadConfig, ReadConfigFails, ApplyTray, EditConfig
<1>3. CASE Acquire(p)
  <2>1. Serial!Take
    BY <1>3 DEF Acquire, Serial!Take
  <2> QED
    BY <2>1 DEF Serial!Next
<1>4. CASE AcquireFails(p) \/ BypassApply(p) \/ BypassApplyFails(p) \/ Detect(p)
           \/ ResolveDomains(p) \/ ScriptFails(p) \/ NftRefuses(p)
  BY <1>4 DEF AcquireFails, BypassApply, BypassApplyFails, Detect, ResolveDomains,
              ScriptFails, NftRefuses
<1>5. CASE NftDelete(p) \/ NftLoad(p) \/ NftLoadFails(p) \/ DisableNft(p)
  <2>1. Serial!ChangeNft
    BY <1>5 DEF NftDelete, NftLoad, NftLoadFails, DisableNft, TypeOK, Serial!ChangeNft
  <2> QED
    BY <2>1 DEF Serial!Next
<1>6. CASE WriteHosts(p) \/ StripHosts(p) \/ HostsFails(p)
  <2>1. Serial!ChangeHosts
    BY <1>6 DEF WriteHosts, StripHosts, HostsFails, TypeOK, Serial!ChangeHosts
  <2> QED
    BY <2>1 DEF Serial!Next
<1>7. CASE Release(p)
  <2>1. Serial!Give
    BY <1>7 DEF Release, TypeOK, Serial!Give
  <2> QED
    BY <2>1 DEF Serial!Next
<1> QED
  BY <1>2, <1>3, <1>4, <1>5, <1>6, <1>7 DEF Step, Enable, Disable

LEMMA CrashSerial ==
    ASSUME TypeOK, TypeOK', NEW p \in Proc, MutualExclusion, Crash(p)
    PROVE  [Serial!Next]_Serial!vars
<1>1. CASE flock = p
  <2>1. Serial!Give
    BY <1>1 DEF Crash, TypeOK, Serial!Give
  <2> QED
    BY <2>1 DEF Serial!Next
<1>2. CASE flock # p
  BY <1>2, OnlyHolderChanges DEF Crash, protection
<1> QED
  BY <1>1, <1>2

\* Every behaviour of the commands is a behaviour of SerializedLock.
THEOREM ImplementsSerializedLock == Spec => SerialSpec
<1>1. Init => Serial!Init
  BY DEF Init, Serial!Init
<1>2. ASSUME IInv, IInv', [Next]_vars
      PROVE  [Serial!Next]_Serial!vars
  <2> USE <1>2 DEF IInv
  <2>1. CASE \E p \in Proc : Dispatch(p) \/ TimerTick(p) \/ UserCommand(p)
    BY <2>1 DEF Dispatch, DispatchDirect, DispatchDebounced, TimerTick, UserCommand,
                Launch, protection
  <2>2. CASE \E p \in Proc : Step(p) \/ Crash(p)
    BY <2>2, StepSerial, CrashSerial
  <2>3. CASE VpnChange \/ NetworkEvent \/ MarkerExpires \/ DispatchDropped
    BY <2>3 DEF VpnChange, NetworkEvent, MarkerExpires, DispatchDropped, protection
  <2>4. CASE Reboot
    BY <2>4 DEF Reboot, Serial!Next, Serial!Reboot
  <2>5. CASE UNCHANGED vars
    BY <2>5 DEF vars, protection
  <2> QED
    BY <1>2, <2>1, <2>2, <2>3, <2>4, <2>5 DEF Next
<1> QED
  BY <1>1, <1>2, Invariance, PTL DEF Spec, SerialSpec, Serial!Spec
-----------------------------------------------------------------------------
(* The configuration stays as it is.                                       *)

\* Nobody edits config.toml, nothing is killed and the machine stays up.
Undisturbed == MaxCrashes = 0 /\ UserCommands \cap {"edit", "tray"} = {}

SameConfig ==
    \A p \in Proc :
        /\ cmd[p] \notin {"edit", "tray"}
        /\ pc[p] \in {"acquire"} \cup Critical => cfg[p] = config

\* Without edits and crashes SameConfig is kept, and config with it.
LEMMA SameConfigStep ==
    ASSUME Undisturbed, IInv, SameConfig, [Next]_vars
    PROVE  SameConfig' /\ config' = config
<1> USE DEF Undisturbed, IInv, TypeOK, SameConfig, envVars, protection, memory
<1>1. ~Reboot /\ \A p \in Proc : ~Crash(p)
  BY DEF Reboot, Crash, Spend, Bound
<1>2. ASSUME NEW p \in Proc, Dispatch(p) \/ TimerTick(p) \/ UserCommand(p)
      PROVE  SameConfig' /\ config' = config
  <2>1. config' = config /\ cmd'[p] \notin {"edit", "tray"} /\ pc'[p] = "read"
    BY <1>2 DEF Dispatch, DispatchDirect, DispatchDebounced, TimerTick, UserCommand, Launch
  <2> QED
    BY <1>2, <2>1, OthersUnchanged
<1>3. ASSUME NEW p \in Proc, Step(p)
      PROVE  SameConfig' /\ config' = config
  <2> USE DEF Goto, Vanish, Fail
  <2>1. config' = config /\ cmd'[p] \notin {"edit", "tray"}
        /\ (pc'[p] \in {"acquire"} \cup Critical => cfg'[p] = config)
    <3>1. CASE Configure(p)
      BY <3>1 DEF Configure, ReadConfig, ReadConfigFails, ApplyTray, EditConfig
    <3>2. CASE Acquire(p) \/ AcquireFails(p) \/ Release(p)
      BY <3>2 DEF Acquire, AcquireFails, Release
    <3>3. CASE BypassApply(p) \/ BypassApplyFails(p) \/ Detect(p)
      BY <3>3 DEF BypassApply, BypassApplyFails, Detect
    <3>4. CASE Enable(p)
      BY <3>4 DEF Enable, ResolveDomains, ScriptFails, NftDelete, NftLoad, NftRefuses, NftLoadFails,
                  WriteHosts
    <3>5. CASE Disable(p) \/ HostsFails(p)
      BY <3>5 DEF Disable, DisableNft, StripHosts, HostsFails
    <3> QED
      BY <1>3, <3>1, <3>2, <3>3, <3>4, <3>5 DEF Step
  <2> QED
    BY <1>3, <2>1, OthersUnchanged
<1>4. CASE VpnChange \/ NetworkEvent \/ MarkerExpires \/ DispatchDropped
  BY <1>4 DEF VpnChange, NetworkEvent, MarkerExpires, DispatchDropped
<1>5. CASE UNCHANGED vars
  BY <1>5 DEF vars
<1> QED
  BY <1>1, <1>2, <1>3, <1>4, <1>5 DEF Next
-----------------------------------------------------------------------------
(* Only a lift opens.                                                      *)

HarmlessFaults ==
    ManageHosts /\ Faults \cap {"nftDelete", "nftLoad", "hosts"} = {}

\* Outside the window between nft -f and the write of the hosts file, every
\* domain with an address that the table blocks is in the hosts block too.
Covered == (\A p \in Proc : pc[p] # "writeHosts") => \A a \in blocked : a[1] \in hosts

CoverInv == IInv /\ SameConfig /\ config = Domain /\ Covered

\* One process at a time is past Acquire.
LEMMA OneCritical ==
    ASSUME MutualExclusion, NEW p \in Proc, NEW q \in Proc,
           pc[p] \in Critical, pc[q] \in Critical
    PROVE  p = q
BY DEF MutualExclusion

LEMMA AddressDomain == \A a \in Address : a[1] \in Domain
BY FamilyAssumption DEF Address

LEMMA SomeAddress ==
    ASSUME NEW d \in Domain
    PROVE  \E a \in Addresses(d) : a[1] = d
<1>1. CASE d \in IPv4
  <2>1. <<d, "ipv4">> \in Addresses(d)
    BY <1>1 DEF Addresses, Address
  <2> QED
    BY <2>1
<1>2. CASE d \in IPv6
  <2>1. <<d, "ipv6">> \in Addresses(d)
    BY <1>2 DEF Addresses, Address
  <2> QED
    BY <2>1
<1> QED
  BY <1>1, <1>2, FamilyAssumption

LEMMA StepCovered ==
    ASSUME HarmlessFaults, CoverInv, NEW p \in Proc, Step(p)
    PROVE  Covered'
<1> USE DEF HarmlessFaults, CoverInv, IInv, TypeOK, Covered, envVars, protection, memory,
            Goto, Vanish, Fail
<1>1. CASE pc[p] \notin Critical
  <2>1. UNCHANGED protection
    BY <1>1, OnlyHolderChanges DEF MutualExclusion
  <2>2. pc'[p] # "writeHosts"
    <3>1. CASE Configure(p) \/ AcquireFails(p)
      BY <3>1 DEF Configure, ReadConfig, ReadConfigFails, ApplyTray, EditConfig, AcquireFails
    <3>2. CASE Acquire(p)
      BY <3>2 DEF Acquire, FirstStep, Progress
    <3>3. ~Enable(p) /\ ~Disable(p) /\ ~HostsFails(p)
      BY <1>1 DEF Enable, ResolveDomains, ScriptFails, NftDelete, NftLoad, NftRefuses, NftLoadFails,
                  WriteHosts, Disable, DisableNft, StripHosts, HostsFails
    <3>4. ~BypassApply(p) /\ ~BypassApplyFails(p) /\ ~Detect(p) /\ ~Release(p)
      BY <1>1 DEF BypassApply, BypassApplyFails, Detect, Release
    <3> QED
      BY <3>1, <3>2, <3>3, <3>4 DEF Step
  <2>3. pc[p] # "writeHosts" /\ \A q \in Proc : q # p => pc'[q] = pc[q]
    BY <1>1, OthersUnchanged
  <2> QED
    BY <2>1, <2>2, <2>3
<1>2. CASE pc[p] \in Critical
  <2>1. \A q \in Proc : q # p => pc[q] # "writeHosts"
    BY <1>2, OneCritical
  <2>2. CASE BypassApply(p) \/ BypassApplyFails(p) \/ Detect(p) \/ ResolveDomains(p)
             \/ ScriptFails(p) \/ NftRefuses(p) \/ Release(p)
    BY <2>1, <2>2 DEF BypassApply, BypassApplyFails, Detect, AfterDetect, ResolveDomains,
                      ScriptFails, NftRefuses, Release
  <2>3. CASE NftDelete(p) \/ DisableNft(p)
    BY <2>3 DEF NftDelete, DisableNft, DeleteTable
  <2>4. CASE NftLoad(p)
    BY <2>4 DEF NftLoad
  <2>5. CASE WriteHosts(p)
    <3>1. hosts' = Domain
      BY <2>5 DEF WriteHosts, Block, SameConfig
    <3> QED
      BY <2>5, <3>1, AddressDomain DEF WriteHosts
  <2>6. CASE StripHosts(p)
    <3>1. blocked = {}
      BY <2>6 DEF StripHosts, Holds
    <3> QED
      BY <2>6, <3>1 DEF StripHosts
  <2>7. ~NftLoadFails(p) /\ ~HostsFails(p)
    BY DEF NftLoadFails, HostsFails
  <2>8. ~Configure(p) /\ ~Acquire(p) /\ ~AcquireFails(p)
    BY <1>2 DEF Configure, ReadConfig, ReadConfigFails, ApplyTray, EditConfig, Acquire,
                AcquireFails
  <2> QED
    BY <2>2, <2>3, <2>4, <2>5, <2>6, <2>7, <2>8 DEF Step, Enable, Disable
<1> QED
  BY <1>1, <1>2

LEMMA CoverInvStep ==
    ASSUME HarmlessFaults, Undisturbed, CoverInv, [Next]_vars
    PROVE  CoverInv'
<1>1. IInv' /\ SameConfig' /\ config' = Domain
  BY NextInv, SameConfigStep DEF CoverInv
<1>2. Covered'
  <2> USE DEF CoverInv, IInv, TypeOK, Covered, protection
  <2>1. ~Reboot /\ \A p \in Proc : ~Crash(p)
    BY DEF Undisturbed, Reboot, Crash, Spend, Bound
  <2>2. ASSUME NEW p \in Proc, Dispatch(p) \/ TimerTick(p) \/ UserCommand(p)
        PROVE  Covered'
    <3>1. UNCHANGED protection /\ pc[p] = "idle"
      BY <2>2 DEF Dispatch, DispatchDirect, DispatchDebounced, TimerTick, UserCommand, Launch
    <3> QED
      BY <2>2, <3>1, OthersUnchanged
  <2>3. ASSUME NEW p \in Proc, Step(p)
        PROVE  Covered'
    BY <2>3, StepCovered
  <2>4. CASE VpnChange \/ NetworkEvent \/ MarkerExpires \/ DispatchDropped
    BY <2>4 DEF VpnChange, NetworkEvent, MarkerExpires, DispatchDropped
  <2>5. CASE UNCHANGED vars
    BY <2>5 DEF vars
  <2> QED
    BY <2>1, <2>2, <2>3, <2>4, <2>5 DEF Next
<1> QED
  BY <1>1, <1>2 DEF CoverInv

\* A domain that loses its shield loses it to a process that may open.
LEMMA OpenStep ==
    ASSUME HarmlessFaults, Undisturbed, CoverInv, [Next]_vars,
           NEW d \in Domain, Shielded(d), ~Shielded(d)'
    PROVE  \E p \in Proc : MayOpen(p)
<1> USE DEF HarmlessFaults, CoverInv, IInv, TypeOK, Shielded, protection
<1>1. ~Reboot /\ \A p \in Proc : ~Crash(p)
  BY DEF Undisturbed, Reboot, Crash, Spend, Bound
<1>2. ASSUME NEW p \in Proc, Step(p)
      PROVE  MayOpen(p)
  <2>1. pc[p] \in Critical
    BY <1>2, OnlyHolderChanges DEF MutualExclusion
  <2>2. CASE pc[p] \in Disabling
    BY <2>2 DEF MayOpen, Progress, Disabling
  <2>3. ~NftDelete(p)
    <3> SUFFICES ASSUME NftDelete(p) PROVE FALSE
      OBVIOUS
    <3>1. \A q \in Proc : pc[q] # "writeHosts"
      BY <2>1, OneCritical DEF NftDelete
    <3>2. hosts' = hosts
      BY DEF NftDelete
    <3>3. PICK a \in Addresses(d) : a[1] = d
      BY SomeAddress
    <3> QED
      BY <3>1, <3>2, <3>3 DEF Covered
  <2>4. ~NftLoad(p) /\ ~NftRefuses(p) /\ ~NftLoadFails(p) /\ ~HostsFails(p)
    BY DEF NftLoad, LoadTable, NftRefuses, NftLoadFails, HostsFails
  <2>5. ~WriteHosts(p)
    BY DEF WriteHosts, Block, SameConfig
  <2>6. ~BypassApply(p) /\ ~BypassApplyFails(p) /\ ~Detect(p) /\ ~ResolveDomains(p)
        /\ ~ScriptFails(p) /\ ~Release(p)
    BY DEF BypassApply, BypassApplyFails, Detect, ResolveDomains, ScriptFails, Release
  <2>7. ~Configure(p) /\ ~Acquire(p) /\ ~AcquireFails(p)
    BY <2>1 DEF Configure, ReadConfig, ReadConfigFails, ApplyTray, EditConfig, Acquire,
                AcquireFails
  <2>8. CASE DisableNft(p) \/ StripHosts(p)
    BY <2>2, <2>8 DEF DisableNft, StripHosts, Disabling
  <2> QED
    BY <1>2, <2>3, <2>4, <2>5, <2>6, <2>7, <2>8 DEF Step, Enable, Disable
<1>3. ASSUME NEW p \in Proc, Dispatch(p) \/ TimerTick(p) \/ UserCommand(p)
      PROVE  FALSE
  BY <1>3 DEF Dispatch, DispatchDirect, DispatchDebounced, TimerTick, UserCommand, Launch
<1>4. ~VpnChange /\ ~NetworkEvent /\ ~MarkerExpires /\ ~DispatchDropped /\ ~UNCHANGED vars
  BY DEF VpnChange, NetworkEvent, MarkerExpires, DispatchDropped, vars
<1> QED
  BY <1>1, <1>2, <1>3, <1>4 DEF Next

\* With the hosts block managed, and unless nft fails, the hosts file cannot be
\* written, the configuration is edited or something is killed, a shielded
\* domain becomes reachable only through a lift.
THEOREM OnlyLiftsOpen ==
    ASSUME HarmlessFaults, Undisturbed
    PROVE  Spec => OnlyALiftOpens
<1>1. Init => CoverInv
  BY InitInv DEF Init, CoverInv, SameConfig, Covered
<1>2. CoverInv /\ [Next]_vars => CoverInv'
  BY CoverInvStep
<1>3. CoverInv /\ [Next]_vars =>
        [\A d \in Domain : Shielded(d) /\ ~Shielded(d)' => \E p \in Proc : MayOpen(p)]_vars
  BY OpenStep
<1> QED
  BY <1>1, <1>2, <1>3, PTL DEF Spec, OnlyALiftOpens
-----------------------------------------------------------------------------
(* The VPN is down: fail closed, or report an error.                       *)

\* Every change of the VPN is announced by vpn-up or vpn-down, no command is
\* killed, none lifts by hand and the hosts file can be written.  Anything else
\* may fail, DNS and nft -f only if there is a hosts block to fall back on.
Resilient ==
    /\ "hosts" \notin Faults
    /\ ManageHosts \/ Faults \cap {"dns", "nftLoad"} = {}
    /\ ~Debounced
    /\ MaxCrashes = 0
    /\ UserCommands \subseteq {"enforce", "refresh", "apply", "enable"}

BeforeDetection == {"read", "acquire", "bypass", "detect"}

\* An enforce that has not looked at the VPN yet is running or about to start.
FixComing ==
    \/ pending["direct"] > 0
    \/ \E p \in Proc : cmd[p] = "enforce" /\ pc[p] \in BeforeDetection

AllShielded == \A d \in config : Shielded(d)

\* The addresses of the configuration, and whether nft takes them as a script
Listed == UNION {Addresses(d) : d \in config}
Loadable == \A f \in Family : \E a \in Listed : a[2] = f

\* Without a managed block nothing keeps a domain from resolving.
Unpoisoned ==
    ~ManageHosts =>
        /\ hosts = {}
        /\ \A p \in Proc :
              /\ pc[p] \in {"nftDelete", "nftLoad", "writeHosts"} => resolved[p] = Listed
              /\ pc[p] = "writeHosts" => Loadable

\* A lock that was reported is kept by the hosts block.  Without one a refresh
\* opens it for the time between nft delete and nft -f, which takes the same
\* addresses as before.
Kept ==
    /\ "locked" \in reported =>
          IF ManageHosts THEN hosts = config
          ELSE Loadable /\ (AllShielded \/ \E p \in Proc : pc[p] = "nftLoad")
    /\ \A p \in Proc : pc[p] \in Disabling => "locked" \notin reported

\* Whoever lifts the protection of a VPN that is down by now will be corrected,
\* and a protection that is not complete is being completed or will be, unless
\* those that were to do so have reported an error.
Guarded ==
    ~vpn =>
        /\ \A p \in Proc : pc[p] \in Disabling => FixComing \/ "failed" \in reported
        /\ \/ AllShielded \/ OpenIsReported \/ FixComing
           \/ \E p \in Proc : pc[p] \in Enabling

ClosedInv ==
    /\ IInv
    /\ SameConfig
    /\ \A p \in Proc : cmd[p] # "disable"
    /\ Unpoisoned
    /\ Kept
    /\ Guarded

LEMMA KeptIsShielded ==
    ASSUME Kept, "locked" \in reported
    PROVE  AllShielded \/ \E p \in Proc : pc[p] = "nftLoad"
BY DEF Kept, AllShielded, Shielded

\* An enforce on its way stays on its way until it looks at the VPN.
LEMMA FixKept ==
    ASSUME TypeOK, NEW p \in Proc, FixComing, UNCHANGED pending,
           \A q \in Proc : q # p => cmd'[q] = cmd[q] /\ pc'[q] = pc[q],
           cmd[p] = "enforce" /\ pc[p] \in BeforeDetection =>
               cmd'[p] = "enforce" /\ pc'[p] \in BeforeDetection
    PROVE  FixComing'
BY DEF FixComing

\* What starting a process may not disturb
LEMMA LaunchFrame ==
    ASSUME Resilient, ClosedInv, NEW p \in Proc,
           Dispatch(p) \/ TimerTick(p) \/ UserCommand(p)
    PROVE  /\ UNCHANGED <<vpn, reported, config, table, blocked, hosts, resolved>>
           /\ cmd'[p] # "disable"
           /\ \A q \in Proc : q # p => cmd'[q] = cmd[q]
           /\ \A q \in Proc : pc'[q] # pc[q] => pc[q] = "idle" /\ pc'[q] = "read"
           /\ FixComing => FixComing'
<1> USE DEF Resilient, ClosedInv, IInv, TypeOK, protection
<1>1. /\ pc[p] = "idle" /\ pc'[p] = "read"
      /\ cmd'[p] # "disable"
      /\ UNCHANGED <<vpn, reported, config, table, blocked, hosts, resolved>>
  BY DEF Dispatch, DispatchDirect, DispatchDebounced, TimerTick, UserCommand, Launch, envVars
<1>2. \A q \in Proc : q # p => cmd'[q] = cmd[q] /\ pc'[q] = pc[q]
  BY OthersUnchanged
<1>3. FixComing => FixComing'
  <2>1. CASE Dispatch(p)
    <3>1. cmd'[p] = "enforce"
      BY <2>1 DEF Dispatch, DispatchDirect, DispatchDebounced, Launch
    <3> QED
      BY <1>1, <3>1 DEF FixComing, BeforeDetection
  <2>2. CASE TimerTick(p) \/ UserCommand(p)
    <3>1. UNCHANGED pending
      BY <2>2 DEF TimerTick, UserCommand, envVars
    <3> QED
      BY <1>1, <1>2, <3>1, FixKept DEF BeforeDetection
  <2> QED
    BY <2>1, <2>2
<1> QED
  BY <1>1, <1>2, <1>3

LEMMA LaunchClosed ==
    ASSUME Resilient, ClosedInv, NEW p \in Proc,
           Dispatch(p) \/ TimerTick(p) \/ UserCommand(p)
    PROVE  /\ \A q \in Proc : cmd'[q] # "disable"
           /\ Unpoisoned' /\ Kept' /\ Guarded'
<1> USE LaunchFrame DEF ClosedInv
<1>1. \A q \in Proc : /\ pc'[q] \in Enabling <=> pc[q] \in Enabling
                      /\ pc'[q] \in Disabling <=> pc[q] \in Disabling
                      /\ pc'[q] = "nftLoad" <=> pc[q] = "nftLoad"
  BY DEF Enabling, Disabling
<1>2. Unpoisoned'
  BY DEF Unpoisoned, Listed, Loadable
<1>3. AllShielded' <=> AllShielded
  BY DEF AllShielded, Shielded
<1>4. Kept'
  BY <1>1, <1>3 DEF Kept, Listed, Loadable
<1>5. Guarded'
  BY <1>1, <1>3 DEF Guarded, OpenIsReported
<1> QED
  BY <1>2, <1>4, <1>5

\* What a step of p may not disturb, stated once for all the cases below
LEMMA StepFrame ==
    ASSUME Resilient, ClosedInv, NEW p \in Proc, Step(p)
    PROVE  /\ UNCHANGED <<vpn, pending>>
           /\ config' = config
           /\ \A q \in Proc : q # p => /\ cmd'[q] = cmd[q] /\ pc'[q] = pc[q]
                                       /\ resolved'[q] = resolved[q]
           /\ cmd'[p] \in {cmd[p], "none"}
           /\ pc[p] \in Critical =>
                 \A q \in Proc : q # p => pc[q] \notin Critical
           /\ Listed' = Listed /\ Loadable' = Loadable
<1> USE DEF Resilient, ClosedInv, IInv, TypeOK
<1>1. UNCHANGED <<vpn, pending>>
  BY DEF Step, envVars, Configure, ReadConfig, ReadConfigFails, ApplyTray, EditConfig,
         Acquire, AcquireFails, BypassApply, BypassApplyFails, Detect, Enable,
         ResolveDomains, ScriptFails, NftDelete, NftLoad, NftRefuses, NftLoadFails,
         WriteHosts, Disable, DisableNft, StripHosts, HostsFails, Release
<1>2. config' = config
  BY SameConfigStep DEF Undisturbed, Next
<1>3. cmd'[p] \in {cmd[p], "none"}
  BY DEF Step, memory, Vanish, Fail, Configure, ReadConfig, ReadConfigFails, ApplyTray,
         EditConfig, Acquire, AcquireFails, BypassApply, BypassApplyFails, Detect, Enable,
         ResolveDomains, ScriptFails, NftDelete, NftLoad, NftRefuses, NftLoadFails,
         WriteHosts, Disable, DisableNft, StripHosts, HostsFails, Release
<1>4. Listed' = Listed /\ Loadable' = Loadable
  BY <1>2 DEF Listed, Loadable
<1> QED
  BY <1>1, <1>2, <1>3, <1>4, OthersUnchanged, OneCritical

\* The steps that neither lock nor lift, and do not decide to
Elsewhere(p) ==
    \/ ReadConfig(p) \/ Acquire(p) \/ BypassApply(p) \/ Release(p)
    \/ BypassApplyFails(p) /\ cmd[p] = "apply"

LEMMA ElsewhereFrame ==
    ASSUME Resilient, ClosedInv, NEW p \in Proc, Step(p), Elsewhere(p)
    PROVE  /\ UNCHANGED <<reported, table, blocked, hosts>>
           /\ pc[p] \notin Enabling \cup Disabling
           /\ pc'[p] \notin Enabling \cup Disabling \/ cmd[p] = "enable"
           /\ pc'[p] \notin {"nftDelete", "nftLoad", "writeHosts"} \cup Disabling
           /\ FixComing => FixComing'
<1> USE StepFrame DEF Resilient, ClosedInv, IInv, TypeOK, Goto, envVars, protection, memory
<1>1. UNCHANGED <<table, blocked, hosts>> /\ pc[p] \notin Enabling \cup Disabling
  BY DEF Elsewhere, ReadConfig, Acquire, BypassApply, BypassApplyFails, Release, Enabling,
         Disabling
<1>2. /\ pc'[p] \notin Enabling \cup Disabling \/ cmd[p] = "enable"
      /\ pc'[p] \notin {"nftDelete", "nftLoad", "writeHosts"} \cup Disabling
      /\ UNCHANGED reported
  <2>1. CASE ReadConfig(p)
    BY <2>1 DEF ReadConfig, Enabling, Disabling
  <2>2. CASE Acquire(p)
    BY <2>2 DEF Acquire, FirstStep, Progress, SameConfig, Enabling, Disabling
  <2>3. CASE BypassApply(p) \/ Release(p)
    BY <2>3 DEF BypassApply, Release, Vanish, Enabling, Disabling
  <2>4. CASE BypassApplyFails(p) /\ cmd[p] = "apply"
    BY <2>4 DEF BypassApplyFails, Enabling, Disabling
  <2> QED
    BY <2>1, <2>2, <2>3, <2>4 DEF Elsewhere
<1>3. cmd[p] = "enforce" /\ pc[p] \in BeforeDetection =>
          cmd'[p] = "enforce" /\ pc'[p] \in BeforeDetection
  BY DEF Elsewhere, ReadConfig, Acquire, FirstStep, BypassApply, BypassApplyFails, Release,
         BeforeDetection
<1> QED
  BY <1>1, <1>2, <1>3, FixKept

LEMMA ElsewhereClosed ==
    ASSUME Resilient, ClosedInv, NEW p \in Proc, Step(p), Elsewhere(p)
    PROVE  Unpoisoned' /\ Kept' /\ Guarded'
<1> USE StepFrame, ElsewhereFrame DEF ClosedInv, IInv, TypeOK
<1>1. AllShielded' <=> AllShielded
  BY DEF AllShielded, Shielded
<1>2. \A q \in Proc : /\ pc[q] \in Enabling => pc'[q] \in Enabling
                      /\ pc[q] = "nftLoad" <=> pc'[q] = "nftLoad"
                      /\ pc'[q] \in Disabling => pc[q] \in Disabling
  BY DEF Enabling
<1>3. Unpoisoned'
  BY DEF Unpoisoned
<1>4. Kept'
  BY <1>1, <1>2 DEF Kept
<1>5. Guarded'
  BY <1>1, <1>2 DEF Guarded, OpenIsReported
<1> QED
  BY <1>3, <1>4, <1>5

\* A command that ends before it has the flock says so.
LEMMA GivesUpClosed ==
    ASSUME Resilient, ClosedInv, NEW p \in Proc, Step(p),
           ReadConfigFails(p) \/ AcquireFails(p)
    PROVE  Unpoisoned' /\ Kept' /\ Guarded'
<1> USE StepFrame DEF ClosedInv, IInv, TypeOK
<1>1. /\ UNCHANGED <<table, blocked, hosts>>
      /\ pc[p] \in {"read", "acquire"} /\ pc'[p] = "idle"
      /\ reported' = IF cmd[p] \in Lockers THEN reported \cup {"failed"} ELSE reported
  BY DEF ReadConfigFails, AcquireFails, Vanish, Goto, protection
<1>2. AllShielded' <=> AllShielded
  BY <1>1 DEF AllShielded, Shielded
<1>3. \A q \in Proc : /\ pc[q] \in Enabling <=> pc'[q] \in Enabling
                      /\ pc[q] = "nftLoad" <=> pc'[q] = "nftLoad"
                      /\ pc'[q] \in Disabling <=> pc[q] \in Disabling
  BY <1>1 DEF Enabling, Disabling
<1>4. "locked" \in reported' <=> "locked" \in reported
  BY <1>1
<1>5. Unpoisoned'
  BY <1>1 DEF Unpoisoned
<1>6. Kept'
  BY <1>1, <1>2, <1>3, <1>4 DEF Kept
<1>7. Guarded'
  <2>1. CASE cmd[p] \in Lockers
    <3>1. "failed" \in reported'
      BY <1>1, <2>1
    <3>2. OpenIsReported' \/ AllShielded' \/ \E q \in Proc : pc'[q] \in Enabling
      <4>1. CASE "locked" \in reported
        BY <4>1, <1>2, <1>3, KeptIsShielded DEF Enabling
      <4>2. CASE "locked" \notin reported
        BY <4>2, <1>4, <3>1 DEF OpenIsReported
      <4> QED
        BY <4>1, <4>2
    <3> QED
      BY <3>1, <3>2 DEF Guarded
  <2>2. CASE cmd[p] \notin Lockers
    <3>1. FixComing => FixComing'
      BY <2>2, FixKept
    <3>2. UNCHANGED reported
      BY <1>1, <2>2
    <3> QED
      BY <1>2, <1>3, <3>1, <3>2 DEF Guarded, OpenIsReported
  <2> QED
    BY <2>1, <2>2
<1> QED
  BY <1>5, <1>6, <1>7

\* enforce with a status that is not active, or with a bypass error, goes on to
\* lock; it lifts only if the VPN is active.
LEMMA DecisionClosed ==
    ASSUME Resilient, ClosedInv, NEW p \in Proc, Step(p),
           Detect(p) \/ (BypassApplyFails(p) /\ cmd[p] # "apply")
    PROVE  Unpoisoned' /\ Kept' /\ Guarded'
<1> USE StepFrame DEF ClosedInv, IInv, TypeOK
<1>1. /\ UNCHANGED <<table, blocked, hosts, resolved, cmd>>
      /\ pc[p] \in {"bypass", "detect"}
      /\ ~vpn => pc'[p] = "resolve"
      /\ pc'[p] \notin {"nftDelete", "nftLoad", "writeHosts", "stripHosts"}
      /\ reported' = IF pc'[p] = "disableNft" THEN {} ELSE reported
  <2> USE DEF Goto, protection, envVars
  <2>1. CASE Detect(p)
    BY <2>1 DEF Detect, Detected, AfterDetect
  <2>2. CASE BypassApplyFails(p) /\ cmd[p] # "apply"
    BY <2>2 DEF BypassApplyFails, Progress
  <2> QED
    BY <2>1, <2>2
<1>2. \A q \in Proc : q # p => pc'[q] \notin Enabling \cup Disabling
  BY <1>1 DEF Enabling, Disabling
<1>3. AllShielded' <=> AllShielded
  BY <1>1 DEF AllShielded, Shielded
<1>4. Unpoisoned'
  BY <1>1 DEF Unpoisoned
<1>5. Kept'
  <2>1. \A q \in Proc : pc[q] # "nftLoad"
    BY <1>1
  <2>2. pc'[p] \in Disabling => reported' = {}
    BY <1>1 DEF Disabling
  <2>3. reported' \subseteq reported
    BY <1>1
  <2> QED
    BY <1>1, <1>2, <1>3, <2>1, <2>2, <2>3 DEF Kept
<1>6. Guarded'
  BY <1>1, <1>2 DEF Guarded, Enabling, Disabling
<1> QED
  BY <1>4, <1>5, <1>6

LEMMA LockingClosed ==
    ASSUME Resilient, ClosedInv, NEW p \in Proc, Step(p),
           ResolveDomains(p) \/ NftDelete(p) \/ NftLoad(p)
    PROVE  Unpoisoned' /\ Kept' /\ Guarded'
<1> USE StepFrame DEF ClosedInv, IInv, TypeOK
<1>1. /\ pc[p] \in Enabling /\ pc'[p] \in Enabling
      /\ UNCHANGED <<hosts, reported>>
  BY DEF ResolveDomains, NftDelete, NftLoad, Goto, envVars, protection, Enabling
<1>2. \A q \in Proc : pc'[q] \notin Disabling
  BY <1>1 DEF Enabling, Disabling
<1>3. ~ManageHosts /\ pc'[p] \in {"nftDelete", "nftLoad", "writeHosts"} => resolved'[p] = Listed
  <2>1. CASE ResolveDomains(p)
    <3> SUFFICES ASSUME ~ManageHosts PROVE resolved'[p] = Listed
      OBVIOUS
    <3>1. cfg[p] = config /\ hosts = {} /\ "dns" \notin Faults
      BY <2>1 DEF ResolveDomains, SameConfig, Unpoisoned, Resilient
    <3>2. Answers(p) = Listed
      BY <3>1 DEF Answers, LookupIPAddr, Listed
    <3>3. resolved' = [resolved EXCEPT ![p] = Answers(p)]
      BY <2>1, <3>1 DEF ResolveDomains
    <3> QED
      BY <3>2, <3>3
  <2>2. CASE NftDelete(p) \/ NftLoad(p)
    BY <2>2 DEF NftDelete, NftLoad, memory, Unpoisoned
  <2> QED
    BY <2>1, <2>2
<1>4. ~ManageHosts /\ pc'[p] = "writeHosts" => Loadable
  <2>1. CASE NftLoad(p)
    BY <2>1 DEF NftLoad, Accepts, Loadable, Unpoisoned
  <2>2. CASE ResolveDomains(p) \/ NftDelete(p)
    BY <2>2 DEF ResolveDomains, NftDelete, Goto
  <2> QED
    BY <2>1, <2>2
<1>5. Unpoisoned'
  BY <1>1, <1>3, <1>4 DEF Unpoisoned
<1>6. Kept'
  <2>1. CASE ManageHosts
    BY <1>1, <1>2, <2>1 DEF Kept
  <2>2. CASE ~ManageHosts
    <3>1. "locked" \in reported => AllShielded' \/ pc'[p] = "nftLoad"
      <4> SUFFICES ASSUME "locked" \in reported PROVE AllShielded' \/ pc'[p] = "nftLoad"
        OBVIOUS
      <4>1. CASE ResolveDomains(p)
        <5>1. AllShielded
          BY <4>1, <2>2 DEF Kept, ResolveDomains
        <5> QED
          BY <4>1, <5>1 DEF ResolveDomains, protection, AllShielded, Shielded
      <4>2. CASE NftDelete(p)
        BY <4>2 DEF NftDelete, Goto
      <4>3. CASE NftLoad(p)
        <5>1. table' = TRUE /\ Listed \subseteq blocked'
          BY <4>3, <2>2 DEF NftLoad, LoadTable, Unpoisoned
        <5>2. \A d \in config : Addresses(d) \subseteq Listed
          BY DEF Listed
        <5> QED
          BY <5>1, <5>2 DEF AllShielded, Shielded
      <4> QED
        BY <4>1, <4>2, <4>3
    <3> QED
      BY <1>1, <1>2, <2>2, <3>1 DEF Kept
  <2> QED
    BY <2>1, <2>2
<1>7. Guarded'
  BY <1>1, <1>2 DEF Guarded
<1> QED
  BY <1>5, <1>6, <1>7

\* A script that cannot be written, is refused or fails ends the command with an
\* error: either the hosts block of a reported lock is still there, or none has
\* been reported.
LEMMA FailureClosed ==
    ASSUME Resilient, ClosedInv, NEW p \in Proc, Step(p),
           ScriptFails(p) \/ NftRefuses(p) \/ NftLoadFails(p)
    PROVE  Unpoisoned' /\ Kept' /\ Guarded'
<1> USE StepFrame DEF ClosedInv, IInv, TypeOK
<1>1. /\ pc[p] \in {"nftDelete", "nftLoad"} /\ pc'[p] = "exit"
      /\ UNCHANGED <<hosts, resolved>>
      /\ reported' = reported \cup {"failed"}
  BY DEF ScriptFails, NftRefuses, NftLoadFails, Fail, Goto, protection, Progress, Enabling
<1>2. \A q \in Proc : pc'[q] \notin Enabling \cup Disabling
  BY <1>1 DEF Enabling, Disabling
<1>3. Unpoisoned'
  BY <1>1 DEF Unpoisoned
<1>4. "locked" \in reported /\ ~ManageHosts => AllShielded'
  <2> SUFFICES ASSUME "locked" \in reported, ~ManageHosts PROVE AllShielded'
    OBVIOUS
  <2>1. ScriptFails(p)
    <3>1. ~NftRefuses(p)
      BY DEF NftRefuses, Accepts, Kept, Unpoisoned, Loadable
    <3>2. ~NftLoadFails(p)
      BY DEF NftLoadFails, Resilient
    <3> QED
      BY <3>1, <3>2
  <2>2. AllShielded
    BY <1>1, <2>1 DEF Kept, ScriptFails
  <2> QED
    BY <2>1, <2>2 DEF ScriptFails, protection, AllShielded, Shielded
<1>5. "locked" \in reported => AllShielded'
  BY <1>1, <1>4 DEF Kept, AllShielded, Shielded
<1>6. Kept'
  BY <1>1, <1>2, <1>5 DEF Kept
<1>7. Guarded'
  BY <1>1, <1>2, <1>5 DEF Guarded, OpenIsReported
<1> QED
  BY <1>3, <1>6, <1>7

LEMMA WriteHostsClosed ==
    ASSUME Resilient, ClosedInv, NEW p \in Proc, Step(p), WriteHosts(p)
    PROVE  Unpoisoned' /\ Kept' /\ Guarded'
<1> USE StepFrame DEF ClosedInv, IInv, TypeOK
<1>1. /\ pc[p] = "writeHosts" /\ pc'[p] = "exit"
      /\ UNCHANGED <<table, blocked, resolved>>
      /\ reported' = {"locked"}
  BY DEF WriteHosts, Goto
<1>2. \A q \in Proc : pc'[q] \notin Enabling \cup Disabling
  BY <1>1 DEF Enabling, Disabling
<1>3. hosts' = IF ManageHosts THEN config ELSE {}
  BY <1>1 DEF WriteHosts, Block, SameConfig
<1>4. AllShielded'
  <2>1. CASE ManageHosts
    BY <1>3, <2>1 DEF AllShielded, Shielded
  <2>2. CASE ~ManageHosts
    <3>1. table /\ Listed \subseteq blocked
      BY <1>1, <2>2 DEF Holds, Unpoisoned
    <3>2. \A d \in config : Addresses(d) \subseteq Listed
      BY DEF Listed
    <3> QED
      BY <1>1, <3>1, <3>2 DEF AllShielded, Shielded
  <2> QED
    BY <2>1, <2>2
<1>5. ~ManageHosts => Loadable
  BY <1>1 DEF Unpoisoned
<1>6. Unpoisoned'
  BY <1>1, <1>3 DEF Unpoisoned
<1>7. Kept'
  BY <1>1, <1>2, <1>3, <1>4, <1>5 DEF Kept
<1>8. Guarded'
  BY <1>2, <1>4 DEF Guarded
<1> QED
  BY <1>6, <1>7, <1>8

LEMMA LiftClosed ==
    ASSUME Resilient, ClosedInv, NEW p \in Proc, Step(p), Disable(p)
    PROVE  Unpoisoned' /\ Kept' /\ Guarded'
<1> USE StepFrame DEF ClosedInv, IInv, TypeOK
<1>1. /\ pc[p] \in Disabling /\ pc'[p] \in Disabling \cup {"exit"}
      /\ UNCHANGED <<resolved, reported>>
      /\ hosts' \in {hosts, {}}
  BY DEF Disable, DisableNft, StripHosts, Block, Goto, envVars, memory, Disabling
<1>2. FixComing => FixComing'
  BY <1>1, FixKept DEF Disabling, BeforeDetection
<1>3. \A q \in Proc : q # p => pc'[q] \notin Disabling
  BY <1>1 DEF Disabling
<1>4. "locked" \notin reported
  BY <1>1 DEF Kept
<1>5. Unpoisoned'
  BY <1>1 DEF Unpoisoned, Disabling
<1>6. Kept'
  BY <1>1, <1>4 DEF Kept
<1>7. Guarded'
  BY <1>1, <1>2, <1>3, <1>4 DEF Guarded, OpenIsReported
<1> QED
  BY <1>5, <1>6, <1>7

LEMMA StepClosed ==
    ASSUME Resilient, ClosedInv, NEW p \in Proc, Step(p)
    PROVE  Unpoisoned' /\ Kept' /\ Guarded'
<1>1. ~ApplyTray(p) /\ ~EditConfig(p) /\ ~HostsFails(p)
  BY DEF ApplyTray, EditConfig, HostsFails, Resilient, ClosedInv, SameConfig
<1> QED
  BY <1>1, ElsewhereClosed, GivesUpClosed, DecisionClosed, LockingClosed, FailureClosed,
     WriteHostsClosed, LiftClosed
  DEF Step, Configure, Enable, Elsewhere

\* Only an event or a change of the VPN happens outside the processes.
LEMMA EnvironmentFrame ==
    ASSUME Resilient, ClosedInv,
           VpnChange \/ NetworkEvent \/ MarkerExpires \/ DispatchDropped
    PROVE  /\ UNCHANGED <<reported, config, flock, protection, pc, memory>>
           /\ FixComing => FixComing'
           /\ ~UNCHANGED vpn => FixComing'
<1> USE DEF Resilient, ClosedInv, IInv, TypeOK, envVars, protection, memory, Notify, Consume
<1>1. UNCHANGED <<reported, config, flock, protection, pc, memory>>
  BY DEF VpnChange, NetworkEvent, MarkerExpires, DispatchDropped
<1>2. CASE VpnChange
  <2>1. FixComing'
    BY <1>2 DEF VpnChange, FixComing
  <2> QED
    BY <1>1, <2>1
<1>3. CASE NetworkEvent \/ MarkerExpires \/ DispatchDropped
  <2>1. UNCHANGED vpn /\ pending'["direct"] = pending["direct"]
    BY <1>3 DEF NetworkEvent, MarkerExpires, DispatchDropped
  <2>2. FixComing => FixComing'
    BY <1>1, <2>1 DEF FixComing
  <2> QED
    BY <1>1, <2>1, <2>2
<1> QED
  BY <1>2, <1>3

LEMMA ClosedInvStep ==
    ASSUME Resilient, ClosedInv, [Next]_vars
    PROVE  ClosedInv'
<1> USE DEF ClosedInv
<1>1. ~Reboot /\ \A p \in Proc : ~Crash(p)
  BY DEF IInv, TypeOK, Resilient, Reboot, Crash, Spend, Bound
<1>2. IInv' /\ SameConfig'
  BY NextInv, SameConfigStep DEF Undisturbed, Resilient
<1>3. ASSUME NEW p \in Proc, Dispatch(p) \/ TimerTick(p) \/ UserCommand(p)
      PROVE  ClosedInv'
  BY <1>2, <1>3, LaunchClosed
<1>4. ASSUME NEW p \in Proc, Step(p)
      PROVE  ClosedInv'
  <2>1. \A q \in Proc : cmd'[q] # "disable"
    BY <1>4, StepFrame
  <2> QED
    BY <1>2, <1>4, <2>1, StepClosed
<1>5. CASE VpnChange \/ NetworkEvent \/ MarkerExpires \/ DispatchDropped
  <2> USE <1>5, EnvironmentFrame DEF protection, memory
  <2>1. Unpoisoned' /\ \A q \in Proc : cmd'[q] # "disable"
    BY DEF Unpoisoned, Listed, Loadable
  <2>2. AllShielded' <=> AllShielded
    BY DEF AllShielded, Shielded
  <2>3. Kept'
    BY <2>2 DEF Kept, Listed, Loadable
  <2>4. Guarded'
    BY <2>2 DEF Guarded, OpenIsReported
  <2> QED
    BY <1>2, <2>1, <2>3, <2>4
<1>6. CASE UNCHANGED vars
  <2> USE <1>6 DEF vars, envVars, protection, memory
  <2>1. AllShielded' <=> AllShielded
    BY DEF AllShielded, Shielded
  <2>2. Unpoisoned' /\ Kept'
    BY <2>1 DEF Unpoisoned, Kept, Listed, Loadable
  <2>3. Guarded'
    BY <2>1 DEF Guarded, FixComing, OpenIsReported
  <2> QED
    BY <1>2, <2>2, <2>3
<1> QED
  BY <1>1, <1>3, <1>4, <1>5, <1>6 DEF Next

LEMMA InitClosed == Init => ClosedInv
<1> SUFFICES ASSUME Init PROVE ClosedInv
  OBVIOUS
<1>1. /\ hosts = {} /\ reported = {}
      /\ \A p \in Proc : pc[p] = "idle" /\ cmd[p] = "none"
  BY DEF Init
<1>2. FixComing
  BY DEF Init, BootEvent, FixComing
<1> QED
  BY <1>1, <1>2, InitInv DEF ClosedInv, SameConfig, Unpoisoned, Kept, Guarded, Disabling

\* A VPN that is down finds every configured domain shielded once the events
\* are handled, or those that had to lock have reported an error and no lock has
\* been reported since the decision for the last lift: for any number of
\* processes and events, in whatever order their commands got the flock, and
\* whatever nmcli, DNS, nft, the flock, the bypass and config.toml did meanwhile.
THEOREM FailsClosed ==
    ASSUME Resilient
    PROVE  Spec => []QuiescentFailsClosed
<1>1. ClosedInv /\ [Next]_vars => ClosedInv'
  BY ClosedInvStep
<1>2. ClosedInv => QuiescentFailsClosed
  <2> SUFFICES ASSUME ClosedInv, Quiescent PROVE QuiescentFailsClosed
    BY DEF QuiescentFailsClosed
  <2>1. ~FixComing /\ \A p \in Proc : pc[p] \notin Enabling
    BY DEF Quiescent, FixComing, BeforeDetection, Enabling, ClosedInv, IInv, TypeOK
  <2> QED
    BY <2>1 DEF ClosedInv, Guarded, AllShielded, QuiescentFailsClosed
<1> QED
  BY InitClosed, <1>1, <1>2, PTL DEF Spec
-----------------------------------------------------------------------------
(* The VPN is up or down: agreement.                                       *)

\* Besides, nothing fails, no command forces the lock, and the addresses of the
\* domains make a script that nft accepts.
Orderly ==
    /\ Faults = {}
    /\ IPv4 # {} /\ IPv6 # {}
    /\ ~Debounced
    /\ MaxCrashes = 0
    /\ UserCommands \subseteq {"enforce", "refresh", "apply"}

\* Whoever locks although the VPN is up by now will be corrected, and what is
\* left of the protection is being lifted or will be.
Lifting ==
    vpn =>
        /\ \A p \in Proc : pc[p] \in Enabling => FixComing
        /\ ~Lifted => FixComing \/ \E p \in Proc : pc[p] \in Disabling

\* A script is refused only behind the hosts block of an earlier enable, which
\* shields every domain until the next lift.
Answered ==
    /\ ManageHosts => hosts \in {{}, Domain}
    /\ \A p \in Proc :
          /\ pc[p] \in {"nftDelete", "nftLoad"} => resolved[p] = Address \/ hosts = Domain
          /\ pc[p] \in Disabling => "failed" \notin reported
    /\ "failed" \in reported => hosts = Domain

AgreeInv ==
    /\ ClosedInv
    /\ config = Domain
    /\ \A p \in Proc : cmd[p] # "enable"
    /\ Lifting
    /\ Answered

LEMMA OrderlyIsResilient == Orderly => Resilient
  BY DEF Orderly, Resilient

LEMMA AllAreListed ==
    ASSUME config = Domain
    PROVE  Listed = Address
<1>1. Listed \subseteq Address
  BY DEF Listed, Addresses
<1>2. ASSUME NEW a \in Address
      PROVE  a \in Listed
  <2>1. a[1] \in Domain /\ a \in Addresses(a[1])
    BY AddressDomain DEF Addresses
  <2> QED
    BY <2>1 DEF Listed
<1> QED
  BY <1>1, <1>2

LEMMA AllAreLoadable ==
    ASSUME Orderly, NEW p \in Proc, resolved[p] = Address
    PROVE  Accepts(p)
<1>1. PICK d \in IPv4, e \in IPv6 : TRUE
  BY DEF Orderly
<1>2. <<d, "ipv4">> \in Address /\ <<e, "ipv6">> \in Address
  BY DEF Address
<1>3. ASSUME NEW f \in Family
      PROVE  \E a \in Address : a[2] = f
  <2>1. CASE f = "ipv4"
    BY <1>2, <2>1
  <2>2. CASE f = "ipv6"
    BY <1>2, <2>2
  <2> QED
    BY <2>1, <2>2 DEF Family
<1> QED
  BY <1>3 DEF Accepts

LEMMA StepAnswered ==
    ASSUME Orderly, AgreeInv, NEW p \in Proc, Step(p)
    PROVE  Answered'
<1> USE OrderlyIsResilient, StepFrame DEF AgreeInv, ClosedInv, IInv, TypeOK
<1>1. CASE Elsewhere(p)
  <2>1. UNCHANGED <<reported, hosts>> /\ pc'[p] \notin {"nftDelete", "nftLoad"} \cup Disabling
    BY <1>1, ElsewhereFrame
  <2> QED
    BY <2>1 DEF Answered
<1>2. CASE Detect(p)
  <2>1. /\ hosts' = hosts
        /\ pc'[p] \in {"resolve", "disableNft", "exit"}
        /\ reported' = IF pc'[p] = "disableNft" THEN {} ELSE reported
    BY <1>2 DEF Detect, AfterDetect, Goto, protection
  <2> QED
    BY <2>1 DEF Answered, Disabling
<1>3. CASE ResolveDomains(p)
  <2>1. /\ UNCHANGED <<hosts, reported>>
        /\ pc'[p] = "nftDelete"
    BY <1>3 DEF ResolveDomains, Goto, envVars, protection
  <2>2. resolved'[p] = Address \/ hosts = Domain
    <3> SUFFICES ASSUME hosts # Domain PROVE resolved'[p] = Address
      OBVIOUS
    <3>1. hosts = {} /\ cfg[p] = config
      BY <1>3 DEF ResolveDomains, SameConfig, Unpoisoned, Answered
    <3>2. Answers(p) = Listed
      BY <3>1 DEF Answers, LookupIPAddr, Listed
    <3>3. resolved' = [resolved EXCEPT ![p] = Answers(p)]
      BY <1>3 DEF ResolveDomains, Orderly
    <3> QED
      BY <3>2, <3>3, AllAreListed
  <2> QED
    BY <2>1, <2>2 DEF Answered, Disabling
<1>4. CASE NftDelete(p) \/ NftLoad(p)
  <2>1. /\ UNCHANGED <<hosts, reported, resolved>>
        /\ pc[p] \in {"nftDelete", "nftLoad"} /\ pc'[p] \in {"nftLoad", "writeHosts"}
    BY <1>4 DEF NftDelete, NftLoad, Goto, envVars, memory
  <2> QED
    BY <2>1 DEF Answered, Disabling
<1>5. CASE NftRefuses(p)
  <2>1. /\ UNCHANGED hosts
        /\ pc[p] = "nftLoad" /\ pc'[p] = "exit"
        /\ \A q \in Proc : pc'[q] \notin Disabling
    BY <1>5 DEF NftRefuses, Fail, Goto, protection, Disabling
  <2>2. hosts = Domain
    BY <1>5, <2>1, AllAreLoadable DEF NftRefuses, Answered
  <2> QED
    BY <2>1, <2>2 DEF Answered
<1>6. CASE WriteHosts(p)
  <2>1. /\ hosts' = IF ManageHosts THEN Domain ELSE {}
        /\ reported' = {"locked"}
        /\ pc'[p] = "exit"
        /\ \A q \in Proc : q # p => pc[q] \notin {"nftDelete", "nftLoad"}
    BY <1>6 DEF WriteHosts, Block, SameConfig, Goto
  <2> QED
    BY <2>1 DEF Answered, Disabling
<1>7. CASE Disable(p)
  <2>1. /\ pc[p] \in Disabling /\ pc'[p] \in Disabling \cup {"exit"}
        /\ UNCHANGED <<resolved, reported>>
        /\ hosts' \in {hosts, {}}
    BY <1>7 DEF Disable, DisableNft, StripHosts, Block, Goto, envVars, memory, Disabling
  <2>2. "failed" \notin reported
    BY <2>1 DEF Answered
  <2>3. \A q \in Proc : pc'[q] \notin {"nftDelete", "nftLoad"}
    BY <2>1 DEF Disabling
  <2> QED
    BY <2>1, <2>2, <2>3 DEF Answered
<1>8. ~ApplyTray(p) /\ ~EditConfig(p) /\ ~ReadConfigFails(p) /\ ~AcquireFails(p)
      /\ ~BypassApplyFails(p) /\ ~ScriptFails(p) /\ ~NftLoadFails(p) /\ ~HostsFails(p)
  BY DEF ApplyTray, EditConfig, ReadConfigFails, AcquireFails, Unobtainable,
         BypassApplyFails, ScriptFails, NftLoadFails, HostsFails, Orderly, SameConfig
<1> QED
  BY <1>1, <1>2, <1>3, <1>4, <1>5, <1>6, <1>7, <1>8 DEF Step, Configure, Enable, Elsewhere

LEMMA StepLifting ==
    ASSUME Orderly, AgreeInv, NEW p \in Proc, Step(p)
    PROVE  Lifting'
<1> USE OrderlyIsResilient, StepFrame
    DEF Orderly, AgreeInv, ClosedInv, IInv, TypeOK, Goto, envVars, protection, memory
<1>1. CASE Elsewhere(p)
  <2>1. pc'[p] \notin Enabling \cup Disabling /\ pc[p] \notin Enabling \cup Disabling
    BY <1>1, ElsewhereFrame
  <2> QED
    BY <1>1, <2>1, ElsewhereFrame DEF Lifting, Lifted
<1>2. CASE Detect(p)
  <2>1. /\ UNCHANGED <<table, blocked, hosts, cmd>>
        /\ pc[p] = "detect"
        /\ vpn /\ cmd[p] = "enforce" => pc'[p] \in Disabling
        /\ vpn /\ cmd[p] # "enforce" => pc'[p] = "exit"
    BY <1>2 DEF Detect, Detected, AfterDetect, Disabling, Progress, SameConfig
  <2>2. \A q \in Proc : pc[q] \notin Enabling \cup Disabling
    BY <2>1 DEF Enabling, Disabling
  <2>3. vpn /\ FixComing => FixComing' \/ \E q \in Proc : pc'[q] \in Disabling
    <3>1. CASE cmd[p] = "enforce"
      BY <2>1, <3>1
    <3>2. CASE cmd[p] # "enforce"
      <4>1. UNCHANGED pending /\ \A q \in Proc : q # p => cmd'[q] = cmd[q] /\ pc'[q] = pc[q]
        OBVIOUS
      <4> QED
        BY <3>2, <4>1, FixKept
    <3> QED
      BY <3>1, <3>2
  <2> QED
    BY <2>1, <2>2, <2>3 DEF Lifting, Lifted, Enabling, Disabling
<1>3. CASE ResolveDomains(p) \/ NftDelete(p) \/ NftLoad(p) \/ NftRefuses(p) \/ WriteHosts(p)
  <2>1. pc[p] \in Enabling
    BY <1>3 DEF ResolveDomains, NftDelete, NftLoad, NftRefuses, WriteHosts, Enabling
  <2>2. FixComing => FixComing'
    BY <2>1, FixKept DEF Enabling, BeforeDetection
  <2> QED
    BY <2>1, <2>2 DEF Lifting
<1>4. CASE DisableNft(p)
  <2>1. pc[p] \in Disabling /\ pc'[p] \in Disabling
    BY <1>4 DEF DisableNft, Disabling
  <2>2. \A q \in Proc : pc'[q] \notin Enabling
    BY <2>1 DEF Enabling, Disabling
  <2> QED
    BY <2>1, <2>2 DEF Lifting
<1>5. CASE StripHosts(p)
  <2>1. pc[p] = "stripHosts" /\ pc'[p] = "exit" /\ hosts' = {} /\ UNCHANGED <<table, blocked>>
    BY <1>5 DEF StripHosts, Block
  <2>2. \A q \in Proc : pc'[q] \notin Enabling
    BY <2>1 DEF Enabling, Disabling
  <2>3. Lifted'
    BY <2>1 DEF Lifted, Holds
  <2> QED
    BY <2>2, <2>3 DEF Lifting
<1>6. ~ApplyTray(p) /\ ~EditConfig(p) /\ ~ReadConfigFails(p) /\ ~AcquireFails(p)
      /\ ~BypassApplyFails(p) /\ ~ScriptFails(p) /\ ~NftLoadFails(p) /\ ~HostsFails(p)
  BY DEF ApplyTray, EditConfig, ReadConfigFails, AcquireFails, Unobtainable,
         BypassApplyFails, ScriptFails, NftLoadFails, HostsFails, SameConfig
<1> QED
  BY <1>1, <1>2, <1>3, <1>4, <1>5, <1>6 DEF Step, Configure, Enable, Disable, Elsewhere

LEMMA AgreeInvStep ==
    ASSUME Orderly, AgreeInv, [Next]_vars
    PROVE  AgreeInv'
<1> USE OrderlyIsResilient DEF AgreeInv
<1>1. ~Reboot /\ \A p \in Proc : ~Crash(p)
  BY DEF ClosedInv, IInv, TypeOK, Orderly, Reboot, Crash, Spend, Bound
<1>2. ClosedInv'
  BY ClosedInvStep
<1>3. ASSUME NEW p \in Proc, Dispatch(p) \/ TimerTick(p) \/ UserCommand(p)
      PROVE  AgreeInv'
  <2>1. cmd'[p] # "enable"
    BY <1>3 DEF ClosedInv, IInv, TypeOK, Orderly, Dispatch, DispatchDirect,
                DispatchDebounced, TimerTick, UserCommand, Launch
  <2>2. \A q \in Proc : /\ pc'[q] \in Enabling <=> pc[q] \in Enabling
                        /\ pc'[q] \in Disabling <=> pc[q] \in Disabling
    BY <1>3, LaunchFrame DEF Enabling, Disabling
  <2>3. Lifting'
    BY <1>3, <2>2, LaunchFrame DEF Lifting, Lifted
  <2>4. Answered'
    <3>1. \A q \in Proc : pc'[q] \in {"nftDelete", "nftLoad"} <=> pc[q] \in {"nftDelete", "nftLoad"}
      BY <1>3, LaunchFrame
    <3> QED
      BY <1>3, <2>2, <3>1, LaunchFrame DEF Answered
  <2> QED
    BY <1>2, <1>3, <2>1, <2>3, <2>4, LaunchFrame
<1>4. ASSUME NEW p \in Proc, Step(p)
      PROVE  AgreeInv'
  BY <1>2, <1>4, StepFrame, StepLifting, StepAnswered
<1>5. CASE VpnChange \/ NetworkEvent \/ MarkerExpires \/ DispatchDropped
  BY <1>2, <1>5, EnvironmentFrame DEF protection, memory, Lifting, Lifted, Answered
<1>6. CASE UNCHANGED vars
  BY <1>2, <1>6 DEF vars, envVars, protection, memory, Lifting, FixComing, Lifted, Answered
<1> QED
  BY <1>1, <1>3, <1>4, <1>5, <1>6 DEF Next

\* If every VPN change is announced by an event that is not debounced, nothing
\* fails or is killed, and the configured domains have addresses of both
\* families, then the protection agrees with the VPN whenever every event is
\* handled and nothing runs, for any number of processes and any number of
\* events: no order in which their commands get the flock leaves it wrong, and
\* the scripts that nft refuses behind our own hosts block do no harm.
THEOREM Agreement ==
    ASSUME Orderly
    PROVE  Spec => []QuiescentAgrees
<1>1. Init => AgreeInv
  <2> SUFFICES ASSUME Init PROVE AgreeInv
    OBVIOUS
  <2>1. /\ ~vpn /\ hosts = {} /\ reported = {} /\ config = Domain
        /\ \A p \in Proc : pc[p] = "idle" /\ cmd[p] = "none"
    BY DEF Init
  <2> QED
    BY <2>1, InitClosed DEF AgreeInv, Lifting, Answered
<1>2. AgreeInv /\ [Next]_vars => AgreeInv'
  BY AgreeInvStep
<1>3. AgreeInv => QuiescentAgrees
  <2> SUFFICES ASSUME AgreeInv, Quiescent PROVE QuiescentAgrees
    BY DEF QuiescentAgrees
  <2>1. ~FixComing /\ \A p \in Proc : pc[p] \notin Enabling \cup Disabling
    BY DEF Quiescent, FixComing, BeforeDetection, Enabling, Disabling, AgreeInv, ClosedInv,
           IInv, TypeOK
  <2>2. OpenIsReported => AllShielded
    BY DEF OpenIsReported, AgreeInv, Answered, AllShielded, Shielded
  <2> QED
    BY <2>1, <2>2 DEF AgreeInv, ClosedInv, Guarded, Lifting, AllShielded, QuiescentAgrees
<1> QED
  BY <1>1, <1>2, <1>3, PTL DEF Spec
=============================================================================
