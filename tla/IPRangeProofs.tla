----------------------------- MODULE IPRangeProofs -----------------------------
(***************************************************************************)
(* The prefixes of bypass.ips cover the addresses the user means and no    *)
(* other one, for addresses of any width and lists of any length.          *)
(***************************************************************************)
EXTENDS IPRange, SequenceTheorems, FiniteSetTheorems, TLAPS

(* Powers of two.                                                          *)

\* Every set of numbers has a least member: its parts below a member are finite,
\* and strict inclusion of finite sets is well founded.
LEMMA Least ==
    ASSUME NEW T \in SUBSET Nat, T # {}
    PROVE  \E m \in T : \A k \in T : m <= k
<1> DEFINE Below(i) == T \cap (0 .. i)
           All == {Below(i) : i \in T}
<1>1. All \subseteq FiniteSubsetsOf(Nat)
  <2> SUFFICES ASSUME NEW i \in T PROVE Below(i) \in FiniteSubsetsOf(Nat)
    OBVIOUS
  <2>1. \A s \in Below(i) : s <= i
    OBVIOUS
  <2>2. IsFiniteSet(Below(i))
    BY <2>1, FS_BoundedSetOfNaturals
  <2> QED
    BY <2>2 DEF FiniteSubsetsOf
<1>2. PICK x \in All : \A y \in All : ~(<<y, x>> \in StrictSubsetOrdering(Nat))
  <2>1. All # {}
    OBVIOUS
  <2> HIDE DEF All
  <2> QED
    BY <1>1, <2>1, FS_StrictSubsetOrderingWellFounded, WFMin
<1>3. PICK m \in T : x = Below(m)
  BY <1>2
<1>4. ASSUME NEW k \in T, k < m PROVE FALSE
  <2>1. Below(k) \in All /\ Below(k) \subseteq Below(m) /\ m \in Below(m) /\ m \notin Below(k)
    BY <1>4
  <2>2. <<Below(k), x>> \in StrictSubsetOrdering(Nat)
    BY <1>3, <2>1 DEF StrictSubsetOrdering
  <2> QED
    BY <1>2, <2>1, <2>2
<1> QED
  BY <1>4

\* Induction, for a set of numbers
LEMMA Inductive ==
    ASSUME NEW T, 0 \in T, \A n \in Nat : n \in T => n + 1 \in T
    PROVE  Nat \subseteq T
<1> SUFFICES ASSUME Nat \ T # {} PROVE FALSE
  OBVIOUS
<1>1. PICK m \in Nat \ T : \A k \in Nat \ T : m <= k
  BY Least
<1> QED
  BY <1>1, m - 1 \in Nat

\* A set with n members has 2^n subsets, which tells how powers of two grow.
LEMMA PowerStep ==
    ASSUME NEW n \in Nat
    PROVE  2^n \in Nat /\ 2^(n + 1) = 2 * 2^n
<1> DEFINE S == 1 .. n
           Old == SUBSET S
           New == {s \cup {n + 1} : s \in Old}
<1>1. /\ IsFiniteSet(S) /\ Cardinality(S) = n
      /\ IsFiniteSet(1 .. n + 1) /\ Cardinality(1 .. n + 1) = n + 1
  BY FS_Interval
<1>2. IsFiniteSet(Old) /\ Cardinality(Old) = 2^n
  BY <1>1, FS_SUBSET
<1>3. IsFiniteSet(SUBSET (1 .. n + 1)) /\ Cardinality(SUBSET (1 .. n + 1)) = 2^(n + 1)
  BY <1>1, FS_SUBSET
<1>4. IsFiniteSet(New) /\ Cardinality(New) = 2^n
  <2> DEFINE f == [s \in Old |-> s \cup {n + 1}]
  <2>1. f \in Bijection(Old, New)
    <3>1. ASSUME NEW s \in Old, NEW t \in Old, f[s] = f[t] PROVE s = t
      BY <3>1
    <3>2. f \in [Old -> New] /\ \A y \in New : \E s \in Old : f[s] = y
      OBVIOUS
    <3> QED
      BY <3>1, <3>2 DEF Bijection, Injection, Surjection, IsInjective
  <2> QED
    BY <1>2, <2>1, FS_Bijection DEF ExistsBijection
<1>5. SUBSET (1 .. n + 1) = Old \cup New
  <2>1. 1 .. n + 1 = S \cup {n + 1}
    OBVIOUS
  <2>2. ASSUME NEW s \in SUBSET (1 .. n + 1), n + 1 \in s PROVE s \in New
    <3>1. s \ {n + 1} \in Old /\ s = (s \ {n + 1}) \cup {n + 1}
      BY <2>1, <2>2
    <3> QED
      BY <3>1
  <2> QED
    BY <2>1, <2>2
<1>6. Old \cap New = {}
  OBVIOUS
<1>7. 2^(n + 1) = 2^n + 2^n - Cardinality(Old \cap New)
  BY <1>2, <1>3, <1>4, <1>5, FS_Union
<1>8. 2^n \in Nat
  BY <1>2, FS_CardinalityType
<1>9. Cardinality(Old \cap New) = 0
  BY <1>6, FS_EmptySet
<1> HIDE DEF Old, New
<1> QED
  BY <1>7, <1>8, <1>9

LEMMA PowerPositive == \A n \in Nat : 2^n \in Nat \ {0}
<1> DEFINE T == {n \in Nat : 2^n \in Nat \ {0}}
<1>1. 0 \in T
  OBVIOUS
<1>2. \A n \in Nat : n \in T => n + 1 \in T
  BY PowerStep
<1> HIDE DEF T
<1>3. Nat \subseteq T
  BY <1>1, <1>2, Inductive
<1> QED
  BY <1>3 DEF T

\* Of two powers of two the smaller one divides the other.
LEMMA PowersDivide ==
    ASSUME NEW i \in Nat, NEW j \in Nat, i <= j
    PROVE  \E k \in Nat \ {0} : 2^j = k * 2^i
<1> DEFINE T == {n \in Nat : \E k \in Nat \ {0} : 2^(i + n) = k * 2^i}
<1>1. 0 \in T
  BY 1 * 2^i = 2^i, PowerStep
<1>2. ASSUME NEW n \in T PROVE n + 1 \in T
  <2>1. PICK k \in Nat \ {0} : 2^(i + n) = k * 2^i
    OBVIOUS
  <2>2. 2^(i + (n + 1)) = 2 * 2^(i + n)
    BY PowerStep, i + n \in Nat, (i + n) + 1 = i + (n + 1)
  <2>3. 2 * (k * 2^i) = (2 * k) * 2^i /\ 2 * k \in Nat \ {0}
    BY PowerStep
  <2> QED
    <3>1. 2^(i + (n + 1)) = (2 * k) * 2^i
      BY <2>1, <2>2, <2>3
    <3>2. \E m \in Nat \ {0} : 2^(i + (n + 1)) = m * 2^i
      BY <2>3, <3>1, Zenon
    <3>3. n + 1 \in Nat
      OBVIOUS
    <3> QED
      BY <3>2, <3>3, Zenon
<1> HIDE DEF T
<1>3. Nat \subseteq T
  BY <1>1, <1>2, Inductive
<1>4. \A n \in Nat : \E k \in Nat \ {0} : 2^(i + n) = k * 2^i
  BY <1>3 DEF T
<1>5. j - i \in Nat /\ i + (j - i) = j
  OBVIOUS
<1>6. \E k \in Nat \ {0} : 2^(i + (j - i)) = k * 2^i
  BY <1>4, <1>5, Zenon
<1> QED
  BY <1>5, <1>6

LEMMA PowerFacts ==
    /\ Space \in Nat \ {0}
    /\ \A s \in Size : s \in Nat \ {0} /\ Space % s = 0
<1>1. Space \in Nat \ {0}
  BY PowerPositive, WidthAssumption DEF Space
<1>2. ASSUME NEW s \in Size PROVE s \in Nat \ {0} /\ Space % s = 0
  <2>1. PICK i \in 0 .. Width : s = 2^i
    BY DEF Size
  <2>2. s \in Nat \ {0}
    BY <2>1, PowerPositive, WidthAssumption
  <2>3. PICK k \in Nat \ {0} : 2^Width = k * 2^i
    BY PowersDivide, WidthAssumption
  <2>4. Space = k * s
    BY <2>1, <2>3 DEF Space
  <2>5. (k * s) % s = 0
    BY <2>2
  <2> QED
    BY <2>2, <2>4, <2>5
<1> QED
  BY <1>1, <1>2

\* Of two block sizes the smaller one divides the other.
LEMMA SizesDivide ==
    ASSUME NEW s \in Size, NEW t \in Size, s <= t
    PROVE  \E k \in Nat \ {0} : t = k * s
<1>1. PICK i \in 0 .. Width : s = 2^i
  BY DEF Size
<1>2. PICK j \in 0 .. Width : t = 2^j
  BY DEF Size
<1>3. s \in Nat \ {0} /\ t \in Nat \ {0}
  BY PowerFacts
<1>4. CASE i <= j
  <2>1. i \in Nat /\ j \in Nat
    BY WidthAssumption
  <2>2. \E k \in Nat \ {0} : 2^j = k * 2^i
    BY <1>4, <2>1, PowersDivide
  <2> QED
    BY <1>1, <1>2, <2>2
<1>5. CASE j < i
  <2>0. i \in Nat /\ j \in Nat /\ j <= i
    BY <1>5, WidthAssumption
  <2>1. PICK k \in Nat \ {0} : 2^i = k * 2^j
    BY <2>0, PowersDivide
  <2>2. s = k * t
    BY <1>1, <1>2, <2>1
  <2>3. t <= s
    BY <1>3, <2>2
  <2> QED
    BY <1>3, <2>3, s = t, t = 1 * s
<1> QED
  BY <1>4, <1>5, WidthAssumption
-----------------------------------------------------------------------------
(* Exact.                                                                  *)

AllMeant(es) == UNION {Meant(e) : e \in es}
Left == {entries[i] : i \in DOMAIN entries}

\* What is covered, what is left to parse and the range being split are what
\* was asked for.
Accounted ==
    /\ pc = "next" => Covered(prefixes) \cup AllMeant(Left) = AllMeant(asked)
    /\ pc = "range" =>
          Covered(prefixes) \cup (range.start .. range.end) \cup AllMeant(Left)
              = AllMeant(asked)
    /\ pc = "ok" => Covered(prefixes) = AllMeant(asked)

\* What TypeOK says of the variables the proof is about
Typed ==
    /\ entries \in Seq(Entry)
    /\ range \in [start : Nat, end : Nat]
    /\ current \in Nat
    /\ pc = "range" => range.start <= current
    /\ pc # "range" => blocks = {}

\* Every entry that has been taken off the list has a meaning, but for the one
\* that ends the expansion with an error.
Judged ==
    /\ Left \subseteq asked
    /\ IF pc = "error" THEN \E e \in asked : Meant(e) = {}
                       ELSE \A e \in asked \ Left : Meant(e) # {}
    /\ pc = "ok" => Left = {}

IInv == Typed /\ Progress /\ Accounted /\ Judged

\* Routes to one more prefix
LEMMA CoveredOneMore ==
    ASSUME NEW ps, NEW p
    PROVE  Covered(ps \cup {p}) = Covered(ps) \cup Addresses(p)
  BY DEF Covered

LEMMA CoveredTogether ==
    ASSUME NEW ps, NEW qs
    PROVE  Covered(ps \cup qs) = Covered(ps) \cup Covered(qs)
  BY DEF Covered

\* Taking an entry off the list
LEMMA TakeOff ==
    ASSUME Typed, NEW kind, Take(kind)
    PROVE  /\ Head(entries) \in Entry
           /\ entries' \in Seq(Entry)
           /\ Left = {Head(entries)} \cup Left'
           /\ AllMeant(Left) = Meant(Head(entries)) \cup AllMeant(Left')
<1>1. entries # <<>> /\ entries' = Tail(entries) /\ entries \in Seq(Entry)
  BY DEF Take, Typed
<1>2. Head(entries) \in Entry /\ entries' \in Seq(Entry)
  BY <1>1, HeadTailProperties
<1>3. Left = {Head(entries)} \cup Left'
  <2>1. \A i \in DOMAIN Tail(entries) : Tail(entries)[i] = entries[i + 1]
    BY <1>1
  <2>2. ASSUME NEW i \in DOMAIN entries
        PROVE  entries[i] \in {Head(entries)} \cup Left'
    <3>1. CASE i = 1
      BY <1>1, <3>1
    <3>2. CASE i # 1
      <4>1. i - 1 \in DOMAIN Tail(entries) /\ Tail(entries)[i - 1] = entries[i]
        BY <1>1, <3>2
      <4> QED
        BY <1>1, <4>1 DEF Left
    <3> QED
      BY <3>1, <3>2
  <2>3. ASSUME NEW i \in DOMAIN Tail(entries)
        PROVE  Tail(entries)[i] \in Left
    <3>1. i + 1 \in DOMAIN entries /\ Tail(entries)[i] = entries[i + 1]
      BY <1>1
    <3> QED
      BY <3>1 DEF Left
  <2>4. Head(entries) \in Left
    BY <1>1 DEF Left
  <2> QED
    BY <1>1, <2>2, <2>3, <2>4 DEF Left
<1>4. ASSUME NEW e, NEW es PROVE AllMeant({e} \cup es) = Meant(e) \cup AllMeant(es)
  BY DEF AllMeant
<1>5. AllMeant({Head(entries)} \cup Left') = Meant(Head(entries)) \cup AllMeant(Left')
  BY <1>4
<1> QED
  BY <1>2, <1>3, <1>5

\* The entries with the same quotient are those from the masked address on.
LEMMA Masked ==
    ASSUME NEW addr \in Address, NEW size \in Size
    PROVE  {a \in Address : a \div size = addr \div size}
              = Addresses([addr |-> addr - (addr % size), size |-> size])
<1>1. /\ size \in Nat \ {0} /\ Space \in Nat /\ addr \in Nat /\ addr < Space
      /\ Space % size = 0
  BY PowerFacts DEF Address
<1> DEFINE q == addr \div size
           first == addr - (addr % size)
<1>2. q \in Nat /\ first = q * size
  BY <1>1
<1>3. first + size - 1 < Space
  <2>1. Space = (Space \div size) * size /\ Space \div size \in Nat
    BY <1>1
  <2>2. q < Space \div size
    BY <1>1, <2>1, <1>2
  <2> QED
    BY <1>1, <1>2, <2>1, <2>2
<1>4. ASSUME NEW a \in Nat PROVE a \div size = q <=> a \in first .. first + size - 1
  BY <1>1, <1>2
<1> QED
  BY <1>1, <1>2, <1>3, <1>4 DEF Address, Addresses

LEMMA InitInv == Init => IInv
<1> SUFFICES ASSUME Init PROVE IInv
  OBVIOUS
<1>1. entries \in Seq(Entry) /\ Left = asked
  BY DEF Init, Left
<1>2. Typed /\ Progress
  BY <1>1 DEF Init, Typed, NoRange, Progress
<1>3. Accounted
  BY <1>1 DEF Init, Accounted, Covered
<1>4. Judged
  BY <1>1 DEF Init, Judged
<1> QED
  BY <1>2, <1>3, <1>4 DEF IInv

\* A block of the largest fitting size stays within the range.
LEMMA BlockStep ==
    ASSUME IInv, TakeBlock
    PROVE  IInv'
<1>1. PICK size \in Size : LargestBlock(size) /\ AddBlock(size, current + size)
  BY DEF TakeBlock
<1> DEFINE block == [addr |-> current, size |-> size]
<1>2. size \in Nat \ {0}
  BY PowerFacts
<1>3. pc = "range" /\ size <= range.end - current + 1 /\ range.start <= current
  BY <1>1 DEF TakeBlock, LargestBlock, Fits, IInv, Typed
<1>4. Typed' /\ pc' = pc /\ range' = range
  BY <1>1, <1>2, <1>3 DEF AddBlock, IInv, Typed
<1>5. Progress'
  <2>1. Covered(blocks') = Covered(blocks) \cup Addresses(block)
    BY <1>1, CoveredOneMore DEF AddBlock
  <2>2. Covered(blocks) = range.start .. current - 1
    BY <1>3 DEF IInv, Progress
  <2>3. Addresses(block) = current .. current + size - 1
    BY DEF Addresses
  <2>4. current \in Nat /\ range.start \in Nat /\ range.end \in Nat
    BY DEF IInv, Typed
  <2>5. (range.start .. current - 1) \cup (current .. current + size - 1)
           = range.start .. current + size - 1
    BY <1>2, <1>3, <2>4
  <2>6. current' = current + size
    BY <1>1 DEF AddBlock
  <2>7. Covered(blocks)' = range.start .. current + size - 1
    BY <2>1, <2>2, <2>3, <2>5
  <2>8. (range.start .. current - 1)' = range.start .. current + size - 1
    BY <1>2, <1>4, <2>4, <2>6
  <2>9. (current <= range.end + 1)'
    <3>1. current + size <= range.end + 1
      BY <1>2, <1>3, <2>4
    <3> QED
      BY <1>4, <2>6, <3>1
  <2> QED
    BY <2>7, <2>8, <2>9 DEF Progress
<1>6. Accounted'
  BY <1>1, <1>3 DEF AddBlock, IInv, Accounted, Left
<1>7. Judged'
  BY <1>1 DEF AddBlock, IInv, Judged, Left
<1> QED
  BY <1>4, <1>5, <1>6, <1>7 DEF IInv

\* An entry that is taken off has a meaning, or it ends the expansion.
LEMMA JudgedStep ==
    ASSUME Judged, NEW e, Left = {e} \cup Left', asked' = asked, pc = "next",
           IF Meant(e) = {} THEN pc' = "error" ELSE pc' \in {"next", "range"}
    PROVE  Judged'
BY DEF Judged

\* An entry that was parsed moves its addresses from what is left to what is
\* covered, or to the range.
LEMMA ParseStep ==
    ASSUME IInv, ParseAddress \/ ParseCIDR \/ ParseRange \/ ParseFails
    PROVE  IInv'
<1> USE DEF IInv
<1>1. CASE ParseAddress
  <2> DEFINE e == Head(entries)
             p == [addr |-> e.addr, size |-> 1]
  <2>1. Take("addr") /\ e \in Entry /\ e.kind = "addr" /\ pc = "next"
    BY <1>1, TakeOff DEF ParseAddress, Take
  <2>2. Meant(e) = Addresses(p)
    <3>1. e.addr \in Nat
      BY <2>1, PowerFacts DEF Entry, Address
    <3>2. Meant(e) = {e.addr}
      BY <2>1 DEF Meant
    <3>3. Addresses(p) = {e.addr}
      BY <3>1 DEF Addresses
    <3> QED
      BY <3>2, <3>3
  <2>3. Covered(prefixes') = Covered(prefixes) \cup Addresses(p)
    BY <1>1, CoveredOneMore DEF ParseAddress
  <2>4. Accounted'
    BY <1>1, <2>1, <2>2, <2>3, TakeOff DEF ParseAddress, Accounted
  <2>5. Judged'
    <3>1. e.addr \in Meant(e)
      BY <2>1 DEF Meant
    <3> QED
      BY <1>1, <2>1, <3>1, TakeOff, JudgedStep DEF ParseAddress
  <2> QED
    BY <1>1, <2>1, <2>4, <2>5, TakeOff DEF ParseAddress, Typed, Progress
<1>2. CASE ParseCIDR
  <2> DEFINE e == Head(entries)
             p == [addr |-> e.addr - (e.addr % e.size), size |-> e.size]
  <2>1. Take("cidr") /\ e \in Entry /\ e.kind = "cidr" /\ pc = "next"
    BY <1>2, TakeOff DEF ParseCIDR, Take
  <2>2. e.addr \in Address /\ e.size \in Size
    BY <2>1 DEF Entry
  <2>3. Meant(e) = Addresses(p)
    BY <2>1, <2>2, Masked DEF Meant
  <2>4. Covered(prefixes') = Covered(prefixes) \cup Addresses(p)
    BY <1>2, CoveredOneMore DEF ParseCIDR
  <2>5. Accounted'
    BY <1>2, <2>1, <2>3, <2>4, TakeOff DEF ParseCIDR, Accounted
  <2>6. Judged'
    <3>1. e.addr \in Meant(e)
      BY <2>1, <2>2 DEF Meant
    <3> QED
      BY <1>2, <2>1, <3>1, TakeOff, JudgedStep DEF ParseCIDR
  <2> QED
    BY <1>2, <2>1, <2>5, <2>6, TakeOff DEF ParseCIDR, Typed, Progress
<1>3. CASE ParseRange
  <2> DEFINE e == Head(entries)
  <2>1. Take("range") /\ e \in Entry /\ e.kind = "range" /\ pc = "next"
    BY <1>3, TakeOff DEF ParseRange, Take
  <2>2. e.start \in Nat /\ e.end \in Nat /\ Meant(e) = e.start .. e.end
    BY <2>1, PowerFacts DEF Entry, Meant, Address
  <2>3. CASE e.start > e.end
    <3>1. pc' = "error" /\ asked' = asked
      BY <1>3, <2>1, <2>3 DEF ParseRange
    <3>2. Meant(e) = {}
      BY <2>2, <2>3
    <3>3. Judged'
      BY <2>1, <3>1, <3>2, TakeOff, JudgedStep
    <3> QED
      BY <1>3, <2>1, <3>1, <3>3, TakeOff DEF ParseRange, Typed, Progress, Accounted
  <2>4. CASE ~(e.start > e.end)
    <3>1. /\ pc' = "range" /\ range' = [start |-> e.start, end |-> e.end]
          /\ current' = e.start /\ blocks' = {} /\ prefixes' = prefixes /\ asked' = asked
      BY <1>3, <2>1, <2>4 DEF ParseRange, Typed
    <3>2. Typed' /\ Progress'
      BY <2>1, <2>2, <2>4, <3>1, TakeOff DEF Typed, Progress, Covered
    <3>3. Accounted'
      BY <2>1, <2>2, <3>1, TakeOff DEF Accounted
    <3>4. Judged'
      <4>1. e.start \in Meant(e)
        BY <2>2, <2>4
      <4> QED
        BY <2>1, <3>1, <4>1, TakeOff, JudgedStep
    <3> QED
      BY <3>2, <3>3, <3>4
  <2> QED
    BY <2>3, <2>4
<1>4. CASE ParseFails
  <2> DEFINE e == Head(entries)
  <2>1. Take("invalid") /\ e.kind = "invalid" /\ pc = "next" /\ pc' = "error" /\ asked' = asked
    BY <1>4 DEF ParseFails, Take
  <2>2. Meant(e) = {}
    BY <2>1 DEF Meant
  <2>3. Judged'
    BY <2>1, <2>2, TakeOff, JudgedStep
  <2> QED
    BY <1>4, <2>1, <2>3, TakeOff DEF ParseFails, Typed, Progress, Accounted
<1> QED
  BY <1>1, <1>2, <1>3, <1>4

LEMMA StepInv == IInv /\ [Next]_vars => IInv'
<1> SUFFICES ASSUME IInv, [Next]_vars PROVE IInv'
  OBVIOUS
<1>1. CASE EndRange
  <2>1. Covered(prefixes') = Covered(prefixes) \cup Covered(blocks)
    BY <1>1, CoveredTogether DEF EndRange
  <2>2. Covered(blocks) = range.start .. range.end
    BY <1>1 DEF EndRange, IInv, Typed, Progress
  <2>3. Accounted'
    BY <1>1, <2>1, <2>2 DEF EndRange, IInv, Accounted, Left
  <2>4. Judged'
    BY <1>1 DEF EndRange, IInv, Judged, Left
  <2> QED
    BY <1>1, <2>3, <2>4 DEF EndRange, IInv, Typed, Progress, NoRange
<1>2. CASE Finish
  <2>1. AllMeant(Left) = {}
    BY <1>2 DEF Finish, AllMeant, Left
  <2>2. Accounted'
    BY <1>2, <2>1 DEF Finish, IInv, Accounted
  <2>3. Judged'
    BY <1>2 DEF Finish, IInv, Judged, Left
  <2> QED
    BY <1>2, <2>2, <2>3 DEF Finish, IInv, Typed, Progress
<1>3. CASE UNCHANGED vars
  BY <1>3 DEF vars, IInv, Typed, Progress, Accounted, Judged, Left
<1> QED
  BY <1>1, <1>2, <1>3, BlockStep, ParseStep DEF Next

LEMMA Invariance == Spec => []IInv
  BY InitInv, StepInv, PTL DEF Spec

\* A prefix starts at a multiple of its size.
LEMMA MaskedPrefix ==
    ASSUME NEW addr \in Address, NEW size \in Size
    PROVE  [addr |-> addr - (addr % size), size |-> size] \in Prefix
<1> DEFINE first == addr - (addr % size)
<1>1. size \in Nat \ {0} /\ Space \in Nat /\ addr \in Nat /\ addr < Space
  BY PowerFacts DEF Address
<1>2. first = (addr \div size) * size /\ addr \div size \in Nat
  BY <1>1
<1>3. first % size = 0
  BY <1>1, <1>2
<1>4. first \in Address
  BY <1>1 DEF Address
<1> QED
  BY <1>3, <1>4 DEF Prefix

\* Every variable keeps its type; in particular every prefix is one that
\* starts at a multiple of its size (filter.go ExpandBypassEntries).
THEOREM TypeCorrect == Spec => []TypeOK
<1>1. Init => TypeOK
  <2> SUFFICES ASSUME Init PROVE TypeOK
    OBVIOUS
  <2>1. entries \in Seq(Entry) /\ asked \subseteq Entry
    BY DEF Init
  <2>2. 0 \in Address
    BY PowerFacts DEF Address
  <2> QED
    BY <2>1, <2>2 DEF Init, TypeOK, NoRange
<1>2. TypeOK /\ IInv /\ [Next]_vars => TypeOK'
  <2> SUFFICES ASSUME TypeOK, IInv, [Next]_vars PROVE TypeOK'
    OBVIOUS
  <2> USE DEF TypeOK
  <2>0. Typed
    BY DEF IInv
  <2>1. CASE ParseAddress
    <3>1. Take("addr") /\ Head(entries) \in Entry /\ Head(entries).kind = "addr"
      BY <2>0, <2>1, TakeOff DEF ParseAddress, Take
    <3>2. Head(entries).addr \in Address
      BY <3>1 DEF Entry
    <3>3. 1 \in Size
      <4>1. 2^0 = 1
        OBVIOUS
      <4>2. 0 \in 0 .. Width
        BY WidthAssumption
      <4> QED
        BY <4>1, <4>2 DEF Size
    <3>4. [addr |-> Head(entries).addr, size |-> 1] \in Prefix
      BY <3>2, <3>3, PowerFacts DEF Prefix, Address
    <3> QED
      BY <2>0, <2>1, <3>1, <3>4, TakeOff DEF ParseAddress
  <2>2. CASE ParseCIDR
    <3>1. Take("cidr") /\ Head(entries) \in Entry /\ Head(entries).kind = "cidr"
      BY <2>0, <2>2, TakeOff DEF ParseCIDR, Take
    <3>2. Head(entries).addr \in Address /\ Head(entries).size \in Size
      BY <3>1 DEF Entry
    <3> QED
      BY <2>0, <2>2, <3>1, <3>2, TakeOff, MaskedPrefix DEF ParseCIDR
  <2>3. CASE ParseRange
    <3>1. Take("range") /\ Head(entries) \in Entry /\ Head(entries).kind = "range"
      BY <2>0, <2>3, TakeOff DEF ParseRange, Take
    <3>2. /\ Head(entries).start \in Address /\ Head(entries).end \in Address
          /\ Head(entries).start \in Nat
      BY <3>1, PowerFacts DEF Entry, Address
    <3> QED
      BY <2>0, <2>3, <3>1, <3>2, TakeOff DEF ParseRange
  <2>4. CASE ParseFails
    BY <2>0, <2>4, TakeOff DEF ParseFails
  <2>5. CASE Finish
    BY <2>5 DEF Finish
  <2>6. CASE TakeBlock
    <3>1. PICK size \in Size : LargestBlock(size) /\ AddBlock(size, current + size)
      BY <2>6 DEF TakeBlock
    <3>2. size \in Nat
      BY PowerFacts
    <3>3. current \in Address /\ current % size = 0
      <4>1. current <= range.end /\ range.end \in Address
        BY <2>6 DEF TakeBlock
      <4> QED
        BY <3>1, <4>1, PowerFacts DEF LargestBlock, Aligned, Address
    <3>4. [addr |-> current, size |-> size] \in Prefix
      BY <3>3 DEF Prefix
    <3> QED
      BY <3>1, <3>2, <3>4 DEF AddBlock
  <2>7. CASE EndRange
    <3>1. NoRange \in [start : Address, end : Address]
      BY PowerFacts DEF NoRange, Address
    <3> QED
      BY <2>7, <3>1 DEF EndRange
  <2>8. CASE UNCHANGED vars
    BY <2>8 DEF vars
  <2> QED
    BY <2>1, <2>2, <2>3, <2>4, <2>5, <2>6, <2>7, <2>8 DEF Next
<1> QED
  BY <1>1, <1>2, Invariance, PTL DEF Spec

\* In every round of the loop the blocks cover the range up to current and
\* nothing behind it, for ranges of 32 bits as for those TLC tries
\* (filter.go rangeToPrefixes).
THEOREM RangeCovered == Spec => []Progress
<1>1. IInv => Progress
  BY DEF IInv
<1> QED
  BY Invariance, <1>1, PTL

\* A list is refused exactly when an entry has no meaning, and otherwise the
\* prefixes cover the addresses the entries mean and no other one, for lists of
\* any length (filter.go ExpandBypassEntries).
THEOREM ExpansionExact == Spec => []Exact
<1>1. IInv => Exact
  BY DEF IInv, Accounted, Judged, Exact, AllMeant
<1> QED
  BY Invariance, <1>1, PTL
-----------------------------------------------------------------------------
(* Minimal.                                                                *)

Inside(r) == {p \in Prefix : Addresses(p) \subseteq r.start .. r.end}

\* No block is part of a larger prefix within the range.
Unextendable ==
    pc = "range" =>
        \A b \in blocks, q \in Inside(range) : Addresses(b) \subseteq Addresses(q) => b = q

MinimalInv == IInv /\ TypeOK /\ Unextendable

LEMMA MultiplesApart ==
    ASSUME NEW a \in Int, NEW b \in Int, NEW s \in Nat \ {0}, a * s < b * s
    PROVE  a * s + s <= b * s
<1>1. a + 1 <= b
  OBVIOUS
<1>2. (a + 1) * s <= b * s
  BY <1>1
<1> QED
  BY <1>2

\* A prefix is a multiple of its size on.
LEMMA PrefixMultiple ==
    ASSUME NEW p \in Prefix
    PROVE  /\ p.addr \in Nat /\ p.size \in Size /\ p.size \in Nat \ {0}
           /\ \E i \in Nat : p.addr = i * p.size
<1>1. p.addr \in Nat /\ p.size \in Size /\ p.size \in Nat \ {0} /\ p.addr % p.size = 0
  BY PowerFacts DEF Prefix, Address
<1>2. p.addr = (p.addr \div p.size) * p.size /\ p.addr \div p.size \in Nat
  BY <1>1
<1> QED
  BY <1>1, <1>2

\* Two prefixes that share an address: the smaller one is part of the other.
LEMMA Nested ==
    ASSUME NEW p \in Prefix, NEW q \in Prefix, p.size <= q.size,
           NEW a \in Addresses(p), a \in Addresses(q)
    PROVE  Addresses(p) \subseteq Addresses(q)
<1> DEFINE s == p.size
<1>1. p.addr \in Nat /\ q.addr \in Nat /\ s \in Nat \ {0} /\ q.size \in Nat
  BY PrefixMultiple
<1>2. PICK i \in Nat : p.addr = i * s
  BY PrefixMultiple
<1>3. PICK j \in Nat : q.addr = j * q.size
  BY PrefixMultiple
<1>4. PICK k \in Nat \ {0} : q.size = k * s
  BY SizesDivide, PrefixMultiple
<1>5. /\ a \in Int /\ p.addr <= a /\ a < p.addr + s
      /\ q.addr <= a /\ a < q.addr + q.size
  BY <1>1 DEF Addresses
<1>6. j * k \in Nat /\ j * k + k \in Nat /\ q.addr = (j * k) * s
      /\ q.addr + q.size = (j * k + k) * s
  BY <1>1, <1>3, <1>4
<1> HIDE DEF s
<1>7. q.addr <= p.addr
  <2>1. ~(i * s < (j * k) * s)
    BY <1>1, <1>2, <1>5, <1>6, MultiplesApart
  <2> QED
    BY <1>1, <1>2, <1>6, <2>1
<1>8. p.addr + s <= q.addr + q.size
  <2>1. i * s < (j * k + k) * s
    BY <1>1, <1>2, <1>5, <1>6
  <2>2. i * s + s <= (j * k + k) * s
    BY <1>1, <1>6, <2>1, MultiplesApart
  <2> QED
    BY <1>2, <1>6, <2>2
<1> QED
  BY <1>1, <1>7, <1>8 DEF Addresses, s

\* Prefixes that share an address are nested.
LEMMA Dyadic ==
    ASSUME NEW p \in Prefix, NEW q \in Prefix,
           NEW a \in Addresses(p), a \in Addresses(q)
    PROVE  Addresses(p) \subseteq Addresses(q) \/ Addresses(q) \subseteq Addresses(p)
<1>1. p.size \in Nat /\ q.size \in Nat
  BY PrefixMultiple
<1>2. CASE p.size <= q.size
  BY <1>2, Nested
<1>3. CASE q.size <= p.size
  BY <1>3, Nested
<1> QED
  BY <1>1, <1>2, <1>3

\* The largest block that starts at current is not part of a larger prefix: that
\* prefix would start in an earlier block and so be part of it, or contain it.
LEMMA LargestUnextendable ==
    ASSUME MinimalInv, pc = "range", NEW size \in Size, LargestBlock(size),
           NEW q \in Inside(range),
           Addresses([addr |-> current, size |-> size]) \subseteq Addresses(q)
    PROVE  q = [addr |-> current, size |-> size]
<1> DEFINE block == [addr |-> current, size |-> size]
<1>1. /\ q \in Prefix /\ q.addr \in Nat /\ q.size \in Size
      /\ q.size \in Nat \ {0} /\ size \in Nat \ {0} /\ current \in Nat
      /\ range.start \in Nat /\ range.end \in Nat
  BY PrefixMultiple, PowerFacts DEF Inside, MinimalInv, IInv, Typed
<1>2. current \in Addresses(block)
  BY <1>1 DEF Addresses
<1>3. current \in Addresses(q)
  BY <1>2
<1>4. q.addr <= current /\ current <= q.addr + q.size - 1
  BY <1>1, <1>3 DEF Addresses
<1>5. Addresses(q) \subseteq range.start .. range.end
  BY DEF Inside
<1>6. CASE q.addr = current
  <2>1. q.addr + q.size - 1 \in Addresses(q)
    BY <1>1 DEF Addresses
  <2>2. Fits(q.size)
    BY <1>1, <1>5, <1>6, <2>1 DEF Fits
  <2>3. Aligned(current, q.size)
    BY <1>1, <1>6 DEF Prefix, Aligned
  <2>4. q.size <= size
    BY <1>1, <2>2, <2>3 DEF LargestBlock
  <2>5. current + size - 1 \in Addresses(block)
    BY <1>1 DEF Addresses
  <2>6. current + size - 1 <= q.addr + q.size - 1
    BY <1>1, <2>5 DEF Addresses
  <2>7. q.size = size
    BY <1>1, <1>6, <2>4, <2>6
  <2> QED
    BY <1>1, <1>6, <2>7 DEF Prefix
<1>7. CASE q.addr < current
  <2>1. q.addr \in Addresses(q)
    BY <1>1 DEF Addresses
  <2>2. q.addr \in range.start .. current - 1
    BY <1>1, <1>5, <1>7, <2>1
  <2>3. Covered(blocks) = range.start .. current - 1
    BY DEF MinimalInv, IInv, Progress
  <2>4. PICK b \in blocks : q.addr \in Addresses(b)
    BY <2>2, <2>3 DEF Covered
  <2>5. b \in Prefix /\ current \notin Addresses(b)
    <3>1. Addresses(b) \subseteq range.start .. current - 1
      BY <2>3 DEF Covered
    <3> QED
      BY <1>1, <3>1 DEF MinimalInv, TypeOK
  <2>6. Addresses(b) \subseteq Addresses(q) \/ Addresses(q) \subseteq Addresses(b)
    BY <1>1, <2>1, <2>4, <2>5, Dyadic
  <2>7. b = q
    BY <1>3, <2>5, <2>6 DEF MinimalInv, Unextendable
  <2> QED
    BY <1>3, <2>5, <2>7
<1> QED
  BY <1>1, <1>4, <1>6, <1>7

LEMMA UnextendableStep ==
    ASSUME MinimalInv, [Next]_vars
    PROVE  Unextendable'
<1> USE DEF MinimalInv
<1>1. CASE TakeBlock
  <2>1. PICK size \in Size : LargestBlock(size) /\ AddBlock(size, current + size)
    BY <1>1 DEF TakeBlock
  <2>2. pc = "range" /\ blocks' = blocks \cup {[addr |-> current, size |-> size]}
        /\ range' = range
    BY <1>1, <2>1 DEF TakeBlock, AddBlock
  <2>3. Inside(range') = Inside(range)
    BY <2>2
  <2> QED
    BY <2>1, <2>2, <2>3, LargestUnextendable DEF Unextendable, Inside
<1>2. CASE ParseRange
  BY <1>2 DEF ParseRange, Take, IInv, Typed, Unextendable
<1>3. CASE ParseAddress \/ ParseCIDR \/ ParseFails \/ Finish \/ EndRange
  BY <1>3 DEF ParseAddress, ParseCIDR, ParseFails, Finish, EndRange, Take, Unextendable
<1>4. CASE UNCHANGED vars
  BY <1>4 DEF vars, Unextendable, Inside
<1> QED
  BY <1>1, <1>2, <1>3, <1>4 DEF Next

\* A range of addresses becomes its maximal prefixes, for addresses of 32 bits as
\* for those TLC tries (filter.go rangeToPrefixes).
THEOREM RangeMinimal == Spec => []Minimal
<1>1. Init => Unextendable
  BY DEF Init, Unextendable
<1>2. IInv /\ TypeOK /\ Unextendable /\ [Next]_vars => Unextendable'
  BY UnextendableStep DEF MinimalInv
<1>3. IInv /\ TypeOK /\ Unextendable => Minimal
  <2> SUFFICES ASSUME MinimalInv, pc = "range", current > range.end
               PROVE  blocks = Maximal(range)
    BY DEF MinimalInv, Minimal
  <2>1. Covered(blocks) = range.start .. range.end
    BY DEF MinimalInv, IInv, Typed, Progress
  <2>2. blocks \subseteq Inside(range)
    BY <2>1 DEF MinimalInv, TypeOK, Inside, Covered
  <2>3. Maximal(range) = {p \in Inside(range) :
                            \A q \in Inside(range) : Addresses(p) \subseteq Addresses(q) => p = q}
    BY DEF Maximal, Inside
  <2>4. blocks \subseteq Maximal(range)
    BY <2>2, <2>3 DEF MinimalInv, Unextendable
  <2>5. ASSUME NEW p \in Maximal(range) PROVE p \in blocks
    <3>1. p \in Inside(range) /\ p \in Prefix /\ p.addr \in Addresses(p)
      BY <2>3, PrefixMultiple DEF Inside, Addresses
    <3>2. PICK b \in blocks : p.addr \in Addresses(b)
      BY <2>1, <3>1 DEF Covered, Inside
    <3>3. Addresses(b) \subseteq Addresses(p) \/ Addresses(p) \subseteq Addresses(b)
      BY <2>2, <3>1, <3>2, Dyadic DEF Inside
    <3>4. b = p
      BY <2>2, <2>3, <3>1, <3>3 DEF MinimalInv, Unextendable
    <3> QED
      BY <3>4
  <2> QED
    BY <2>4, <2>5
<1> QED
  BY <1>1, <1>2, <1>3, Invariance, TypeCorrect, PTL DEF Spec

\* No smaller set of prefixes covers the range.
Fewest ==
    pc = "range" /\ current > range.end =>
        \A C \in SUBSET Prefix :
            IsFiniteSet(C) /\ Covered(C) = range.start .. range.end =>
                Cardinality(blocks) <= Cardinality(C)

\* Each prefix of another cover is part of a block, and each block has at least
\* one of them, the one that covers its first address.
LEMMA MinimalFewest == MinimalInv => Fewest
<1> SUFFICES ASSUME MinimalInv, pc = "range", current > range.end,
                    NEW C \in SUBSET Prefix, IsFiniteSet(C),
                    Covered(C) = range.start .. range.end
             PROVE  Cardinality(blocks) <= Cardinality(C)
  BY DEF Fewest
<1> DEFINE around(c) == CHOOSE b \in blocks : Addresses(c) \subseteq Addresses(b)
           f == [c \in C |-> around(c)]
<1>1. Covered(blocks) = range.start .. range.end
  BY DEF MinimalInv, IInv, Typed, Progress
<1>2. blocks \subseteq Prefix
  BY DEF MinimalInv, TypeOK
<1>3. C \subseteq Inside(range)
  BY DEF Inside, Covered
<1>4. \A b \in blocks, q \in Inside(range) : Addresses(b) \subseteq Addresses(q) => b = q
  BY DEF MinimalInv, Unextendable
<1>5. ASSUME NEW c \in C, NEW b \in blocks, NEW a \in Addresses(b), a \in Addresses(c)
      PROVE  Addresses(c) \subseteq Addresses(b)
  <2>1. Addresses(b) \subseteq Addresses(c) \/ Addresses(c) \subseteq Addresses(b)
    BY <1>2, <1>5, Dyadic
  <2> QED
    BY <1>3, <1>4, <2>1
<1>6. \A p \in Prefix : p.addr \in Addresses(p)
  BY PrefixMultiple DEF Addresses
<1>7. ASSUME NEW c \in C
      PROVE  around(c) \in blocks /\ Addresses(c) \subseteq Addresses(around(c))
  <2>1. c.addr \in Addresses(c)
    BY <1>6
  <2>2. PICK b \in blocks : c.addr \in Addresses(b)
    BY <1>1, <2>1 DEF Covered
  <2>3. Addresses(c) \subseteq Addresses(b)
    BY <1>5, <2>1, <2>2
  <2> QED
    BY <2>3
<1>8. ASSUME NEW b \in blocks PROVE \E c \in C : around(c) = b
  <2>1. b.addr \in Addresses(b)
    BY <1>2, <1>6
  <2>2. PICK c \in C : b.addr \in Addresses(c)
    BY <1>1, <2>1 DEF Covered
  <2>3. around(c) \in blocks /\ b.addr \in Addresses(around(c))
    BY <1>7, <2>2
  <2> DEFINE d == around(c)
  <2> HIDE DEF d
  <2>4. d \in blocks /\ b.addr \in Addresses(d)
    BY <2>3 DEF d
  <2>5. Addresses(b) \subseteq Addresses(d) \/ Addresses(d) \subseteq Addresses(b)
    BY <1>2, <2>1, <2>4, Dyadic
  <2>6. blocks \subseteq Inside(range)
    BY <1>1, <1>2 DEF Inside, Covered
  <2>7. d = b
    BY <1>4, <2>4, <2>5, <2>6
  <2> QED
    BY <2>7 DEF d
<1> HIDE DEF around
<1>9. f \in Surjection(C, blocks)
  BY <1>7, <1>8 DEF Surjection
<1> QED
  BY <1>9, FS_Surjection

\* A range becomes as few prefixes as can be, for addresses of any width
\* (filter.go rangeToPrefixes).
THEOREM FewestPrefixes == Spec => []Fewest
<1>1. Init => Unextendable
  BY DEF Init, Unextendable
<1>2. IInv /\ TypeOK /\ Unextendable /\ [Next]_vars => Unextendable'
  BY UnextendableStep DEF MinimalInv
<1>3. IInv /\ TypeOK /\ Unextendable => Fewest
  BY MinimalFewest DEF MinimalInv
<1> QED
  BY <1>1, <1>2, <1>3, Invariance, TypeCorrect, PTL DEF Spec
=============================================================================
