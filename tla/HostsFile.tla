------------------------------- MODULE HostsFile -------------------------------
(***************************************************************************)
(* The hosts file line by line, which Killswitch knows as the set of       *)
(* domains its managed block lists: hosts.Manager reads the file, strips   *)
(* the block, adds a new one and writes the file back in place.  Other     *)
(* programs edit it whenever they like, without the run lock that keeps    *)
(* two of our own commands apart; the command may be killed or the disk    *)
(* fill up in the middle of the write, and what is left is the start of    *)
(* the new file.  Blank lines are left out.                                *)
(***************************************************************************)
EXTENDS Naturals, Sequences, FiniteSets, SequencesExt

CONSTANTS
    Domain,    \* what killswitch.domains may list
    Foreign,   \* lines of other programs
    Quoting,   \* those of them that contain our begin marker, but are not it
    MaxRuns,   \* bound: runs of Enable and Disable
    MaxEdits,  \* bound: edits by other programs
    MaxTorn    \* bound: writes that end half way

ASSUME DomainAssumption == IsFiniteSet(Domain)
ASSUME QuotingAssumption == Quoting \subseteq Foreign
ASSUME BoundAssumption == MaxRuns \in Nat /\ MaxEdits \in Nat /\ MaxTorn \in Nat

\* "0.0.0.0 d" and ":: d"; a line that was cut off means nothing to anyone.
Begin == <<"begin">>
End == <<"end">>
CutOff == <<"cut">>
Blocking == {"0.0.0.0", "::"} \X Domain
Other == {"other"} \X Foreign
Line == {Begin, End, CutOff} \cup Blocking \cup Other

VARIABLES
    content,  \* the hosts file
    pc,       \* where hosts.Manager is
    wanted,   \* the domains Enable was given, or {} for Disable
    enable,   \* it is Enable
    next,     \* the lines it will write
    result,   \* its error, once known
    spent,    \* how much of each bound is used up
    others,   \* history: the lines other programs put into the file
    mishap    \* history: a write ended half way, or another program edited the
              \* file between our read and our write

run == <<pc, wanted, enable, next, result>>
vars == <<content, run, spent, others, mishap>>

TypeOK ==
    /\ content \in Seq(Line)
    /\ pc \in {"idle", "read", "write", "done"}
    /\ wanted \in SUBSET Domain
    /\ enable \in BOOLEAN
    /\ next \in Seq(Line)
    /\ result \in {"none", "ok", "error"}
    /\ pc = "done" <=> result # "none"
    /\ spent \in [{"run", "edit", "torn"} -> Nat]
    /\ others \in Seq(Other)
    /\ mishap \in BOOLEAN

Init ==
    /\ content = <<>>
    /\ pc = "idle"
    /\ wanted = {}
    /\ enable = FALSE
    /\ next = <<>>
    /\ result = "none"
    /\ spent = [k \in {"run", "edit", "torn"} |-> 0]
    /\ others = <<>>
    /\ mishap = FALSE

Spend(k, bound) ==
    /\ spent[k] < bound
    /\ spent' = [spent EXCEPT ![k] = @ + 1]
-----------------------------------------------------------------------------
(* What is written.                                                        *)

StripLine(acc, line) ==
    CASE line = Begin -> [acc EXCEPT !.inBlock = TRUE]
      [] line = End   -> [acc EXCEPT !.inBlock = FALSE]
      [] OTHER        -> IF acc.inBlock THEN acc ELSE [acc EXCEPT !.out = Append(@, line)]

\* Mutant: the block is taken to be the last thing in the file.
StripBlockToEnd(lines) ==
    LET first == SelectInSeq(lines, LAMBDA l : l = Begin)
    IN  IF first = 0 THEN lines ELSE SubSeq(lines, 1, first - 1)

\* A block without its end reaches to the end of the file.
StripBlock(lines) ==
    LET scan[n \in 0 .. Len(lines)] ==
            IF n = 0 THEN [out |-> <<>>, inBlock |-> FALSE]
            ELSE StripLine(scan[n - 1], lines[n])
    IN  scan[Len(lines)].out

BlockLines(domains) ==
    LET ds == SetToSeq(domains)
    IN  [i \in 1 .. 2 * Len(ds) |->
            <<IF i % 2 = 1 THEN "0.0.0.0" ELSE "::", ds[(i + 1) \div 2]>>]

\* Mutant: the block of an earlier run is kept.
AddBlockOnce(lines, domains) == lines \o <<Begin>> \o BlockLines(domains) \o <<End>>

AddBlock(lines, domains) ==
    StripBlock(lines) \o <<Begin>> \o BlockLines(domains) \o <<End>>
-----------------------------------------------------------------------------
(* Manager.Enable and Disable.                                             *)

Start ==
    /\ pc = "idle"
    /\ Spend("run", MaxRuns)
    /\ \/ enable' = TRUE /\ wanted' \in SUBSET Domain
       \/ enable' = FALSE /\ wanted' = {}
    /\ pc' = "read"
    /\ UNCHANGED <<content, next, result, others, mishap>>

\* Mutant: Disable removes only a block that has its end.
ReadComplete ==
    /\ pc = "read"
    /\ next' = IF enable THEN AddBlock(content, wanted)
               ELSE IF Contains(content, End) THEN StripBlock(content) ELSE content
    /\ pc' = "write"
    /\ UNCHANGED <<content, wanted, enable, result, spent, others, mishap>>

Read ==
    /\ pc = "read"
    /\ next' = IF enable THEN AddBlock(content, wanted) ELSE StripBlock(content)
    /\ pc' = "write"
    /\ UNCHANGED <<content, wanted, enable, result, spent, others, mishap>>

ReadFails ==
    /\ pc = "read"
    /\ pc' = "done"
    /\ result' = "error"
    /\ UNCHANGED <<content, wanted, enable, next, spent, others, mishap>>

\* Mutant: Enable and Disable end without their result.
WriteUnanswered ==
    /\ pc = "write"
    /\ content' = next
    /\ pc' = "done"
    /\ UNCHANGED <<wanted, enable, next, result, spent, others, mishap>>

\* os.WriteFile empties the file and writes it; no other program gets between
\* the two.
Write ==
    /\ pc = "write"
    /\ content' = next
    /\ pc' = "done"
    /\ result' = "ok"
    /\ UNCHANGED <<wanted, enable, next, spent, others, mishap>>

\* The start of what was to be written, the last line perhaps cut off
Torn(lines) ==
    LET starts == {SubSeq(lines, 1, n) : n \in 0 .. Len(lines)}
    IN  starts \cup {Append(s, CutOff) : s \in starts \ {lines}}

TearWrite ==
    /\ pc = "write"
    /\ Spend("torn", MaxTorn)
    /\ content' \in Torn(next)
    /\ mishap' = TRUE

WriteFails ==
    /\ TearWrite
    /\ pc' = "done"
    /\ result' = "error"
    /\ UNCHANGED <<wanted, enable, next, others>>

Exit ==
    /\ pc' = "idle"
    /\ wanted' = {}
    /\ enable' = FALSE
    /\ next' = <<>>
    /\ result' = "none"

Crash ==
    /\ TearWrite
    /\ Exit
    /\ UNCHANGED others

Finish ==
    /\ pc = "done"
    /\ Exit
    /\ UNCHANGED <<content, spent, others, mishap>>
-----------------------------------------------------------------------------
(* Another program.                                                        *)

\* The lines that are in S, in their order
Only(lines, S) ==
    LET kept[n \in 0 .. Len(lines)] ==
            IF n = 0 THEN <<>>
            ELSE IF lines[n] \in S THEN Append(kept[n - 1], lines[n]) ELSE kept[n - 1]
    IN  kept[Len(lines)]

Edit(lines, theirs) ==
    /\ Spend("edit", MaxEdits)
    /\ content' = lines
    /\ others' = theirs
    /\ mishap' = (mishap \/ pc = "write")
    /\ UNCHANGED run

\* It adds a line at either end.
AddLine(l) ==
    /\ ~Contains(content, l)
    /\ \/ Edit(<<l>> \o content, <<l>> \o others)
       \/ Edit(Append(content, l), Append(others, l))

RemoveLine(l) ==
    /\ Contains(content, l)
    /\ Edit(Only(content, Line \ {l}), Only(others, Line \ {l}))

Next ==
    \/ Start \/ Read \/ ReadFails \/ Write \/ WriteFails \/ Crash \/ Finish
    \/ \E l \in Other : AddLine(l) \/ RemoveLine(l)

Spec == Init /\ [][Next]_vars
-----------------------------------------------------------------------------
(* What must hold in every behaviour.                                      *)

In(lines) == {lines[i] : i \in DOMAIN lines}

Succeeded == pc = "done" /\ result = "ok"

Quotes == In(content) \cap ({"other"} \X Quoting)

\* hosts.Manager HasBlock, which status reports: the marker anywhere in a line
HasBlock == Begin \in In(content) \/ Quotes # {}

\* Enable leaves one block, with both lines of every domain it was given and
\* none of a domain it was not given: also when it found the remains of a write
\* that ended half way, or an older list (hosts.go AddBlock).
EnabledExact ==
    Succeeded /\ enable => /\ In(content) \cap Blocking = {"0.0.0.0", "::"} \X wanted
                           /\ \E i \in DOMAIN content :
                                 \A j \in DOMAIN content : content[j] = Begin <=> j = i
                           /\ HasBlock

\* After Disable no domain is blocked and status reports no block, whatever
\* was left of an earlier write, unless a line of another program contains the
\* marker (hosts.go StripBlock and HasBlock).
DisabledClean ==
    Succeeded /\ ~enable => In(content) \cap Blocking = {} /\ (HasBlock => Quotes # {})

\* The lines of other programs stay as they are and in their order, at
\* whichever side of the block they were added, until a mishap (hosts.go
\* StripBlock and AddBlock, TZ.md section 11).
OthersKept == ~mishap => Only(content, Other) = others
=============================================================================
