----------------------------- MODULE ConfigStore -----------------------------
(***************************************************************************)
(* config.toml and the commands that edit it: config add-* and remove-*    *)
(* from a terminal and the tray's domain dialog, which ends in config      *)
(* apply-tray.  None of them takes the run lock.  An editor reads the      *)
(* file, works out the next one, writes it to a temporary file and renames *)
(* that.  The lists are sets, as Normalize sorts them and drops            *)
(* duplicates; the rest of the file is never changed and left out.         *)
(***************************************************************************)
EXTENDS Naturals

CONSTANTS
    Proc,        \* editors that may run at a time
    Domain,      \* normalized tokens users may enter as domains
    Malformed,   \* those that domainRe rejects
    IP,          \* entries of bypass.ips
    Faults,      \* what may go wrong in this instance, see FaultKinds
    MaxEdits,    \* bound: edits started
    MaxCrashes   \* bound: killed editors

FaultKinds ==
    {"read",    \* config.toml or the standard input cannot be read
     "temp",    \* the temporary file cannot be created or written
     "rename"}  \* it cannot be renamed

ASSUME DomainAssumption == Malformed \subseteq Domain
ASSUME FaultAssumption == Faults \subseteq FaultKinds
ASSUME BoundAssumption == MaxEdits \in Nat /\ MaxCrashes \in Nat

Lists == {"bypass", "lock"}
Config == [bypass : SUBSET Domain, lock : SUBSET Domain, ips : SUBSET IP]
Command == [op : {"add", "remove"}, list : Lists, domain : Domain]
Nothing == [bypass |-> {}, lock |-> {}, ips |-> {}]

VARIABLES
    file,    \* config.toml
    litter,  \* a temporary file has lost its owner
    pc,      \* where each editor is
    cmd,     \* the command it runs; the tray's payload is in next
    seen,    \* the lists it took its decisions from
    next,    \* the lists it will write
    spent    \* how much of each bound is used up

vars == <<file, litter, pc, cmd, seen, next, spent>>

TrayCommand == [op |-> "tray"]

TypeOK ==
    /\ file \in Config
    /\ litter \in BOOLEAN
    /\ pc \in [Proc -> {"idle", "dialog", "read", "write", "rename"}]
    /\ cmd \in [Proc -> Command \cup {TrayCommand}]
    /\ seen \in [Proc -> Config]
    /\ next \in [Proc -> Config]
    /\ spent \in [{"edit", "crash"} -> Nat]
    /\ \A p \in Proc : pc[p] \in {"write", "rename"} => seen[p] # next[p]

\* config.Validate, as far as edits can break it
Valid(c) ==
    /\ c.bypass \cup c.lock \cup c.ips # {}
    /\ c.bypass \cap c.lock = {}
    /\ (c.bypass \cup c.lock) \cap Malformed = {}

Init ==
    /\ file \in {c \in Config : Valid(c)}
    /\ litter = FALSE
    /\ pc = [p \in Proc |-> "idle"]
    /\ cmd = [p \in Proc |-> TrayCommand]
    /\ seen = [p \in Proc |-> Nothing]
    /\ next = [p \in Proc |-> Nothing]
    /\ spent = [k \in {"edit", "crash"} |-> 0]

Spend(k, bound) ==
    /\ spent[k] < bound
    /\ spent' = [spent EXCEPT ![k] = @ + 1]

Exit(p) ==
    /\ pc' = [pc EXCEPT ![p] = "idle"]
    /\ cmd' = [cmd EXCEPT ![p] = TrayCommand]
    /\ seen' = [seen EXCEPT ![p] = Nothing]
    /\ next' = [next EXCEPT ![p] = Nothing]
-----------------------------------------------------------------------------
(* Starting an edit.                                                       *)

RunCommand(p) ==
    /\ pc[p] = "idle"
    /\ Spend("edit", MaxEdits)
    /\ \E c \in Command : cmd' = [cmd EXCEPT ![p] = c]
    /\ pc' = [pc EXCEPT ![p] = "read"]
    /\ UNCHANGED <<file, litter, seen, next>>

\* The tray shows the lists in a dialog for as long as the user likes.
OpenDialog(p) ==
    /\ pc[p] = "idle"
    /\ Spend("edit", MaxEdits)
    /\ cmd' = [cmd EXCEPT ![p] = TrayCommand]
    /\ seen' = [seen EXCEPT ![p] = file]
    /\ pc' = [pc EXCEPT ![p] = "dialog"]
    /\ UNCHANGED <<file, litter, next>>

\* Save, unless a domain is on both lists or nothing was changed
SaveDialog(p) ==
    /\ pc[p] = "dialog"
    /\ \E lists \in Config \ {seen[p]} :
          /\ lists.bypass \cap lists.lock = {}
          /\ next' = [next EXCEPT ![p] = lists]
    /\ pc' = [pc EXCEPT ![p] = "read"]
    /\ UNCHANGED <<file, litter, cmd, seen, spent>>

CancelDialog(p) ==
    /\ pc[p] = "dialog"
    /\ Exit(p)
    /\ UNCHANGED <<file, litter, spent>>
-----------------------------------------------------------------------------
(* configedit: Add, Remove and ApplyTray.                                  *)

Added(c, list, d) == [c EXCEPT ![list] = @ \cup {d}]
Removed(c, list, d) == [c EXCEPT ![list] = @ \ {d}]

\* Mutant: remove takes the domain off both lists.
EditedBothLists(c, from, payload) ==
    CASE c.op = "add" ->
            IF c.domain \in from.bypass \cup from.lock THEN from
            ELSE Added(from, c.list, c.domain)
      [] c.op = "remove" -> Removed(Removed(from, "bypass", c.domain), "lock", c.domain)
      [] c.op = "tray" -> payload

\* A domain that is on either list already is not added to the other one.
Edited(c, from, payload) ==
    CASE c.op = "add" ->
            IF c.domain \in from.bypass \cup from.lock THEN from
            ELSE Added(from, c.list, c.domain)
      [] c.op = "remove" -> Removed(from, c.list, c.domain)
      [] c.op = "tray" -> payload

\* Mutant: the file is written in any case.
ReadAndWrite(p) ==
    /\ pc[p] = "read"
    /\ seen' = [seen EXCEPT ![p] = IF cmd[p].op = "tray" THEN @ ELSE file]
    /\ next' = [next EXCEPT ![p] = Edited(cmd[p], file, @)]
    /\ pc' = [pc EXCEPT ![p] = "write"]
    /\ UNCHANGED <<file, litter, cmd, spent>>

\* Nothing is written when nothing changes.
Read(p) ==
    /\ pc[p] = "read"
    /\ LET edited == Edited(cmd[p], file, next[p])
       IN  IF edited = file
           THEN Exit(p)
           ELSE /\ seen' = [seen EXCEPT ![p] = IF cmd[p].op = "tray" THEN @ ELSE file]
                /\ next' = [next EXCEPT ![p] = edited]
                /\ pc' = [pc EXCEPT ![p] = "write"]
                /\ UNCHANGED cmd
    /\ UNCHANGED <<file, litter, spent>>

ReadFails(p) ==
    /\ pc[p] = "read"
    /\ "read" \in Faults \/ ~Valid(file)
    /\ Exit(p)
    /\ UNCHANGED <<file, litter, spent>>

\* Mutant: only the tray's lists are validated.
WriteUnchecked(p) ==
    /\ pc[p] = "write"
    /\ cmd[p].op = "tray" => Valid(next[p])
    /\ pc' = [pc EXCEPT ![p] = "rename"]
    /\ UNCHANGED <<file, litter, cmd, seen, next, spent>>

\* config.Write up to the rename
Write(p) ==
    /\ pc[p] = "write"
    /\ Valid(next[p])
    /\ pc' = [pc EXCEPT ![p] = "rename"]
    /\ UNCHANGED <<file, litter, cmd, seen, next, spent>>

\* A temporary file that cannot be completed is removed.
WriteFails(p) ==
    /\ pc[p] = "write"
    /\ ~Valid(next[p]) \/ "temp" \in Faults
    /\ Exit(p)
    /\ UNCHANGED <<file, litter, spent>>

Rename(p) ==
    /\ pc[p] = "rename"
    /\ file' = next[p]
    /\ Exit(p)
    /\ UNCHANGED <<litter, spent>>

RenameFails(p) ==
    /\ pc[p] = "rename"
    /\ "rename" \in Faults
    /\ litter' = TRUE
    /\ Exit(p)
    /\ UNCHANGED <<file, spent>>

Crash(p) ==
    /\ pc[p] # "idle"
    /\ Spend("crash", MaxCrashes)
    /\ litter' = (litter \/ pc[p] = "rename")
    /\ Exit(p)
    /\ UNCHANGED file

Editor(p) ==
    \/ RunCommand(p) \/ OpenDialog(p) \/ SaveDialog(p) \/ CancelDialog(p)
    \/ Read(p) \/ ReadFails(p) \/ Write(p) \/ WriteFails(p)
    \/ Rename(p) \/ RenameFails(p) \/ Crash(p)

Next == \E p \in Proc : Editor(p)

Spec == Init /\ [][Next]_vars
-----------------------------------------------------------------------------
(* What must hold in every behaviour.                                      *)

\* Whatever users enter and however editors overlap, fail or are killed, the
\* file is one that config.Read accepts: with any other one every enforce,
\* refresh and further edit would end with ExitConfig (configedit, config.Write).
ValidFile == Valid(file)

\* What the user asked for, done to the lists that are in the file now
Intended(p) ==
    CASE cmd[p].op = "add" -> Added(file, cmd[p].list, cmd[p].domain)
      [] cmd[p].op = "remove" -> Removed(file, cmd[p].list, cmd[p].domain)
      [] cmd[p].op = "tray" ->
            [l \in DOMAIN file |->
                (file[l] \ (seen[p][l] \ next[p][l])) \cup (next[p][l] \ seen[p][l])]

\* An edit whose decisions were taken from what is in the file now changes what
\* it was asked to change and keeps everything else (configedit Add, Remove and
\* ApplyTray, cli.go runConfigEdit).  An edit that overlaps with another one may
\* undo it: nothing serialises them.
EditsKept ==
    [][file' # file => \E p \in Proc : /\ pc[p] = "rename"
                                       /\ seen[p] = file => file' = Intended(p)]_file
=============================================================================
