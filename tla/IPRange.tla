------------------------------- MODULE IPRange -------------------------------
(***************************************************************************)
(* ipaddr.ExpandBypassEntries, the pure part of BuildRoutes: it turns the  *)
(* entries of bypass.ips, each an address, a CIDR prefix or a range, into  *)
(* the prefixes routes are installed for.  A prefix is its first address   *)
(* and its size.  The loop of rangeToPrefixes is one step a round, so that *)
(* its end at the top of the address space is part of the model.           *)
(***************************************************************************)
EXTENDS Integers, Sequences

CONSTANTS
    Width,      \* bits of an address, 32 in the code
    MaxEntries  \* bound: entries of bypass.ips

ASSUME WidthAssumption == Width \in Nat \ {0}
ASSUME BoundAssumption == MaxEntries \in Nat

Space == 2^Width
Address == 0 .. Space - 1
Size == {2^k : k \in 0 .. Width}

Prefix == {p \in [addr : Address, size : Size] : p.addr % p.size = 0}

Entry ==
    [kind : {"addr"}, addr : Address]
        \cup [kind : {"cidr"}, addr : Address, size : Size]
        \cup [kind : {"range"}, start : Address, end : Address]
        \cup [kind : {"invalid"}]  \* another text, or IPv6

VARIABLES
    entries,   \* those not looked at yet
    asked,     \* history: the entries at the start
    prefixes,  \* out of ExpandBypassEntries
    pc,        \* where it is
    range,     \* the range rangeToPrefixes works on
    current,   \* its local variables
    blocks

vars == <<entries, asked, prefixes, pc, range, current, blocks>>

NoRange == [start |-> 0, end |-> 0]

Init ==
    /\ entries \in UNION {[1 .. n -> Entry] : n \in 0 .. MaxEntries}
    /\ asked = {entries[i] : i \in DOMAIN entries}
    /\ prefixes = {}
    /\ pc = "next"
    /\ range = NoRange
    /\ current = 0
    /\ blocks = {}
-----------------------------------------------------------------------------
(* ParseBypassEntry.                                                       *)

Take(kind) ==
    /\ pc = "next"
    /\ entries # <<>>
    /\ Head(entries).kind = kind
    /\ entries' = Tail(entries)

ParseAddress ==
    /\ Take("addr")
    /\ prefixes' = prefixes \cup {[addr |-> Head(entries).addr, size |-> 1]}
    /\ UNCHANGED <<asked, pc, range, current, blocks>>

\* Mutant: the host bits of a CIDR prefix are kept.
ParseCIDRUnmasked ==
    /\ Take("cidr")
    /\ prefixes' = prefixes \cup {[addr |-> Head(entries).addr, size |-> Head(entries).size]}
    /\ UNCHANGED <<asked, pc, range, current, blocks>>

\* netip's Masked clears the host bits
ParseCIDR ==
    /\ Take("cidr")
    /\ LET e == Head(entries)
       IN  prefixes' = prefixes \cup {[addr |-> e.addr - (e.addr % e.size), size |-> e.size]}
    /\ UNCHANGED <<asked, pc, range, current, blocks>>

ParseRange ==
    /\ Take("range")
    /\ LET e == Head(entries)
       IN  IF e.start > e.end
           THEN pc' = "error" /\ UNCHANGED <<range, current>>
           ELSE /\ pc' = "range"
                /\ range' = [start |-> e.start, end |-> e.end]
                /\ current' = e.start
    /\ UNCHANGED <<asked, prefixes, blocks>>

\* Mutant: an entry that cannot be parsed is left out.
ParseFailsSkipping ==
    /\ Take("invalid")
    /\ UNCHANGED <<asked, prefixes, pc, range, current, blocks>>

ParseFails ==
    /\ Take("invalid")
    /\ pc' = "error"
    /\ UNCHANGED <<asked, prefixes, range, current, blocks>>

Finish ==
    /\ pc = "next"
    /\ entries = <<>>
    /\ pc' = "ok"
    /\ UNCHANGED <<entries, asked, prefixes, range, current, blocks>>
-----------------------------------------------------------------------------
(* rangeToPrefixes.                                                        *)

Aligned(addr, size) == addr % size = 0
Fits(size) == size <= range.end - current + 1

AddBlock(size, next) ==
    /\ blocks' = blocks \cup {[addr |-> current, size |-> size]}
    /\ current' = next
    /\ UNCHANGED <<entries, asked, prefixes, pc, range>>

\* The largest block that starts at current; both bounds of the code are
\* powers of two, and every power divides 0.
LargestBlock(size) ==
    /\ Aligned(current, size) /\ Fits(size)
    /\ \A s \in Size : Aligned(current, s) /\ Fits(s) => s <= size

\* Mutant: current is kept in 32 bits.
TakeBlockWrapping ==
    /\ pc = "range"
    /\ current <= range.end
    /\ \E size \in Size : LargestBlock(size) /\ AddBlock(size, (current + size) % Space)

\* Mutant: the alignment of 0 is taken to be 1.
TakeBlockZero ==
    /\ pc = "range"
    /\ current <= range.end
    /\ IF current = 0
       THEN AddBlock(1, 1)
       ELSE \E size \in Size : LargestBlock(size) /\ AddBlock(size, current + size)

\* current is 64 bits wide and may pass the last address
TakeBlock ==
    /\ pc = "range"
    /\ current <= range.end
    /\ \E size \in Size : LargestBlock(size) /\ AddBlock(size, current + size)

EndRange ==
    /\ pc = "range"
    /\ current > range.end
    /\ prefixes' = prefixes \cup blocks
    /\ blocks' = {}
    /\ range' = NoRange
    /\ current' = 0
    /\ pc' = "next"
    /\ UNCHANGED <<entries, asked>>

Next ==
    \/ ParseAddress \/ ParseCIDR \/ ParseRange \/ ParseFails
    \/ TakeBlock \/ EndRange \/ Finish

Spec == Init /\ [][Next]_vars

\* A running program goes on.
FairSpec == Spec /\ WF_vars(Next)
-----------------------------------------------------------------------------
(* What must hold in every behaviour.                                      *)

TypeOK ==
    /\ entries \in Seq(Entry)
    /\ asked \subseteq Entry
    /\ prefixes \subseteq Prefix
    /\ pc \in {"next", "range", "ok", "error"}
    /\ range \in [start : Address, end : Address]
    /\ current \in Nat
    /\ blocks \subseteq Prefix

\* The addresses a route to a prefix, or to several, applies to
Addresses(p) == p.addr .. p.addr + p.size - 1
Covered(ps) == UNION {Addresses(p) : p \in ps}

\* The addresses a user means by an entry
Meant(e) ==
    CASE e.kind = "addr" -> {e.addr}
      [] e.kind = "cidr" -> {a \in Address : a \div e.size = e.addr \div e.size}
      [] e.kind = "range" -> e.start .. e.end
      [] e.kind = "invalid" -> {}

\* A list is refused exactly when one of its entries has no meaning; if it is
\* not, the routes past the VPN apply to the addresses its entries mean and to no
\* other one (filter.go ExpandBypassEntries, ParseBypassEntry).
Exact ==
    /\ pc = "ok" => /\ \A e \in asked : Meant(e) # {}
                    /\ Covered(prefixes) = UNION {Meant(e) : e \in asked}
    /\ pc = "error" => \E e \in asked : Meant(e) = {}

\* In every round of the loop the blocks cover the range up to current and no
\* address behind it, so that routes never go past the end of a range, at the
\* top of the address space as elsewhere (filter.go rangeToPrefixes).
Progress ==
    pc = "range" => /\ Covered(blocks) = range.start .. current - 1
                    /\ current <= range.end + 1

\* The prefixes within the range that are not part of a larger one
Maximal(r) ==
    LET inside == {p \in Prefix : Addresses(p) \subseteq r.start .. r.end}
    IN  {p \in inside : \A q \in inside : Addresses(p) \subseteq Addresses(q) => p = q}

\* A range becomes the smallest set of prefixes that covers it, which is the
\* set of its maximal prefixes (filter.go rangeToPrefixes, TZ.md section 5).
Minimal == pc = "range" /\ current > range.end => blocks = Maximal(range)

\* The loop ends, for a range up to the last address as well.
Terminates == <>(pc \in {"ok", "error"})
=============================================================================
