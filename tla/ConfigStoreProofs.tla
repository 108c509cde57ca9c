--------------------------- MODULE ConfigStoreProofs ---------------------------
(***************************************************************************)
(* config.toml stays readable for any number of editors, lists and edits:  *)
(* what is about to be renamed was validated and nobody changes it since.  *)
(* An edit that nobody overtook changes what it was asked to change.       *)
(***************************************************************************)
EXTENDS ConfigStore, TLAPS

\* A temporary file that is about to replace config.toml is valid.
Checked == \A p \in Proc : pc[p] = "rename" => Valid(next[p])

\* The tray saves lists that differ from those it showed.
Changed == \A p \in Proc : pc[p] = "read" /\ cmd[p] = TrayCommand => seen[p] # next[p]

\* What Add or Remove is going to write is its edit of the lists it has read.
Decided ==
    \A p \in Proc : pc[p] \in {"write", "rename"} /\ cmd[p] # TrayCommand =>
        next[p] = Edited(cmd[p], seen[p], next[p])

IInv == TypeOK /\ ValidFile /\ Checked /\ Changed /\ Decided

LEMMA InitInv == Init => IInv
<1> SUFFICES ASSUME Init PROVE IInv
  OBVIOUS
<1>1. Nothing \in Config
  BY DEF Nothing, Config
<1> QED
  BY <1>1 DEF Init, IInv, TypeOK, ValidFile, Checked, Changed, Decided

\* Add, Remove and ApplyTray turn lists of domains into lists of domains.
LEMMA EditedType ==
    ASSUME NEW c \in Command \cup {TrayCommand}, NEW from \in Config, NEW payload \in Config
    PROVE  Edited(c, from, payload) \in Config
<1>1. CASE c = TrayCommand
  BY <1>1 DEF TrayCommand, Edited
<1>2. CASE c \in Command /\ c.op = "add"
  BY <1>2 DEF Command, Lists, Config, Edited, Added
<1>3. CASE c \in Command /\ c.op = "remove"
  BY <1>3 DEF Command, Lists, Config, Edited, Removed
<1> QED
  BY <1>1, <1>2, <1>3 DEF Command

LEMMA OpTells ==
    /\ TrayCommand.op = "tray"
    /\ \A c \in Command : c.op # "tray" /\ c # TrayCommand
  BY DEF TrayCommand, Command

\* An editor that ends leaves the others where they are.
LEMMA ExitType ==
    ASSUME TypeOK, NEW p \in Proc, Exit(p)
    PROVE  /\ pc' \in [Proc -> {"idle", "dialog", "read", "write", "rename"}]
           /\ cmd' \in [Proc -> Command \cup {TrayCommand}]
           /\ seen' \in [Proc -> Config]
           /\ next' \in [Proc -> Config]
           /\ pc'[p] = "idle"
           /\ \A q \in Proc \ {p} :
                 pc'[q] = pc[q] /\ cmd'[q] = cmd[q] /\ seen'[q] = seen[q] /\ next'[q] = next[q]
<1>1. Nothing \in Config
  BY DEF Nothing, Config
<1> QED
  BY <1>1 DEF TypeOK, Exit

\* Counting an edit or a crash keeps the counters numbers.
LEMMA SpendType ==
    ASSUME TypeOK, NEW k \in {"edit", "crash"}, NEW bound, Spend(k, bound)
    PROVE  spent' \in [{"edit", "crash"} -> Nat]
  BY DEF TypeOK, Spend

LEMMA StepInv == IInv /\ [Next]_vars => IInv'
<1> SUFFICES ASSUME IInv, [Next]_vars PROVE IInv'
  OBVIOUS
<1> USE DEF IInv, TypeOK, ValidFile, Checked, Changed, Decided
<1>1. ASSUME NEW p \in Proc, RunCommand(p) PROVE IInv'
  <2>1. PICK c \in Command : cmd' = [cmd EXCEPT ![p] = c]
    BY <1>1 DEF RunCommand
  <2>2. TypeOK'
    BY <1>1, <2>1, SpendType DEF RunCommand
  <2>3. Changed'
    BY <1>1, <2>1, OpTells DEF RunCommand
  <2> QED
    BY <1>1, <2>2, <2>3 DEF RunCommand
<1>2. ASSUME NEW p \in Proc, OpenDialog(p) PROVE IInv'
  BY <1>2, SpendType DEF OpenDialog
<1>3. ASSUME NEW p \in Proc, SaveDialog(p) PROVE IInv'
  BY <1>3 DEF SaveDialog
<1>4. ASSUME NEW p \in Proc, CancelDialog(p) \/ ReadFails(p) \/ WriteFails(p) PROVE IInv'
  BY <1>4, ExitType DEF CancelDialog, ReadFails, WriteFails
<1>5. ASSUME NEW p \in Proc, Read(p) PROVE IInv'
  <2> DEFINE edited == Edited(cmd[p], file, next[p])
  <2>1. edited \in Config
    BY EditedType
  <2>2. CASE edited = file
    BY <1>5, <2>2, ExitType DEF Read
  <2>3. CASE edited # file
    <3>1. /\ next' = [next EXCEPT ![p] = edited]
          /\ pc' = [pc EXCEPT ![p] = "write"]
          /\ seen' = [seen EXCEPT ![p] = IF cmd[p].op = "tray" THEN @ ELSE file]
          /\ UNCHANGED <<cmd, file, litter, spent>>
      BY <1>5, <2>3 DEF Read
    <3>2. seen'[p] # edited
      <4>1. CASE cmd[p] = TrayCommand
        <5>1. edited = next[p] /\ cmd[p].op = "tray"
          BY <4>1, OpTells DEF Edited
        <5>2. seen[p] # next[p]
          BY <1>5, <4>1 DEF Read
        <5> QED
          BY <3>1, <5>1, <5>2
      <4>2. CASE cmd[p] \in Command
        BY <2>3, <3>1, <4>2, OpTells
      <4> QED
        BY <4>1, <4>2
    <3>3. cmd[p] # TrayCommand => next'[p] = Edited(cmd[p], seen'[p], next'[p])
      <4> SUFFICES ASSUME cmd[p] \in Command
                   PROVE  edited = Edited(cmd[p], file, edited)
        BY <3>1, OpTells
      <4> QED
        BY DEF Edited, Command
    <3> HIDE DEF edited
    <3>4. TypeOK' /\ ValidFile' /\ Checked' /\ Changed'
      BY <2>1, <3>1, <3>2
    <3>5. Decided'
      BY <3>1, <3>3
    <3> QED
      BY <3>4, <3>5
  <2> QED
    BY <2>2, <2>3
<1>6. ASSUME NEW p \in Proc, Write(p) PROVE IInv'
  BY <1>6 DEF Write
<1>7. ASSUME NEW p \in Proc, Rename(p) PROVE IInv'
  <2>1. Valid(file')
    BY <1>7 DEF Rename
  <2> QED
    BY <1>7, <2>1, ExitType DEF Rename
<1>8. ASSUME NEW p \in Proc, RenameFails(p) PROVE IInv'
  BY <1>8, ExitType DEF RenameFails
<1>9. ASSUME NEW p \in Proc, Crash(p) PROVE IInv'
  BY <1>9, ExitType, SpendType DEF Crash
<1>10. CASE UNCHANGED vars
  BY <1>10 DEF vars
<1> QED
  BY <1>1, <1>2, <1>3, <1>4, <1>5, <1>6, <1>7, <1>8, <1>9, <1>10 DEF Next, Editor

\* Every variable keeps its type, and nothing is written that changes nothing.
THEOREM TypeCorrect == Spec => []TypeOK
<1>1. IInv => TypeOK
  BY DEF IInv
<1> QED
  BY InitInv, StepInv, <1>1, PTL DEF Spec

\* Whatever users enter, however many editors overlap, fail or are killed,
\* config.toml passes Validate (configedit, config.Write).
THEOREM AlwaysValid == Spec => []ValidFile
<1>1. IInv => ValidFile
  BY DEF IInv
<1> QED
  BY InitInv, StepInv, <1>1, PTL DEF Spec

\* With the lists its decisions were taken from still in the file, what an
\* editor is about to rename is what it was asked for.
LEMMA RenameIntended ==
    ASSUME IInv, NEW p \in Proc, pc[p] = "rename", seen[p] = file
    PROVE  next[p] = Intended(p)
<1> USE DEF IInv, TypeOK
<1>1. file \in Config /\ next[p] \in Config /\ next[p] # file
  OBVIOUS
<1>2. CASE cmd[p] = TrayCommand
  <2>1. Intended(p) = [l \in DOMAIN file |->
                          (file[l] \ (file[l] \ next[p][l])) \cup (next[p][l] \ file[l])]
    BY <1>2, OpTells DEF Intended
  <2>2. DOMAIN file = {"bypass", "lock", "ips"} /\ DOMAIN next[p] = DOMAIN file
    BY <1>1 DEF Config
  <2>3. \A l \in DOMAIN file :
           (file[l] \ (file[l] \ next[p][l])) \cup (next[p][l] \ file[l]) = next[p][l]
    OBVIOUS
  <2>4. next[p] = [l \in DOMAIN file |-> next[p][l]]
    BY <1>1, <2>2 DEF Config
  <2> QED
    BY <2>1, <2>3, <2>4
<1>3. CASE cmd[p] \in Command
  <2>1. next[p] = Edited(cmd[p], file, next[p])
    BY <1>3, OpTells DEF Decided
  <2>2. cmd[p].op \in {"add", "remove"}
    BY <1>3 DEF Command
  <2> QED
    BY <1>1, <2>1, <2>2 DEF Edited, Intended
<1> QED
  BY <1>2, <1>3

\* An edit whose decisions were taken from what is in the file now changes what
\* it was asked to change and keeps everything else, for any number of editors
\* (configedit Add, Remove and ApplyTray).
THEOREM EditsKeptHolds == Spec => EditsKept
<1>1. IInv /\ [Next]_vars =>
        [file' # file => \E p \in Proc : /\ pc[p] = "rename"
                                         /\ seen[p] = file => file' = Intended(p)]_file
  <2> SUFFICES ASSUME IInv, Next, file' # file
               PROVE  \E p \in Proc : /\ pc[p] = "rename"
                                      /\ seen[p] = file => file' = Intended(p)
    BY DEF vars
  <2>1. PICK p \in Proc : Editor(p)
    BY DEF Next
  <2>2. Rename(p)
    BY <2>1 DEF Editor, RunCommand, OpenDialog, SaveDialog, CancelDialog, Read, ReadFails,
                Write, WriteFails, RenameFails, Crash
  <2> QED
    BY <2>2, RenameIntended DEF Rename
<1> QED
  BY InitInv, StepInv, <1>1, PTL DEF Spec, EditsKept
=============================================================================
