---------------------------- MODULE HostsFileProofs ----------------------------
(***************************************************************************)
(* Enable and Disable leave what they should, and the lines of other       *)
(* programs stay, for files of any length, any set of domains and any      *)
(* number of edits and of writes that end half way.                        *)
(***************************************************************************)
EXTENDS HostsFile, SequenceTheorems, FiniteSetTheorems, TLAPS

(* Induction and recursion over positions.                                 *)

\* Every set of numbers has a least member: its parts below a member are finite,
\* and strict inclusion of finite sets is well founded.
LEMMA Least ==
    ASSUME NEW T \in SUBSET Nat, T # {}
    PROVE  \E m \in T : \A k \in T : m <= k
<1> DEFINE Below(i) == T \cap (0 .. i)
           All == {Below(i) : i \in T}
<1>1. All \subseteq FiniteSubsetsOf(Nat)
  <2> SUFFICES ASSUME NEW i \in T PROVE Below(i) \in FiniteSubsetsOf(Nat)
    OBVIOUS
  <2>1. \A s \in Below(i) : s <= i
    OBVIOUS
  <2>2. IsFiniteSet(Below(i))
    BY <2>1, FS_BoundedSetOfNaturals
  <2> QED
    BY <2>2 DEF FiniteSubsetsOf
<1>2. PICK x \in All : \A y \in All : ~(<<y, x>> \in StrictSubsetOrdering(Nat))
  <2>1. All # {}
    OBVIOUS
  <2> HIDE DEF All
  <2> QED
    BY <1>1, <2>1, FS_StrictSubsetOrderingWellFounded, WFMin
<1>3. PICK m \in T : x = Below(m)
  BY <1>2
<1>4. ASSUME NEW k \in T, k < m PROVE FALSE
  <2>1. Below(k) \in All /\ Below(k) \subseteq Below(m) /\ m \in Below(m) /\ m \notin Below(k)
    BY <1>4
  <2>2. <<Below(k), x>> \in StrictSubsetOrdering(Nat)
    BY <1>3, <2>1 DEF StrictSubsetOrdering
  <2> QED
    BY <1>2, <2>1, <2>2
<1> QED
  BY <1>4

\* Induction up to N, for a set of numbers
LEMMA UpTo ==
    ASSUME NEW N \in Nat, NEW T, 0 \in T,
           \A n \in 0 .. N - 1 : n \in T => n + 1 \in T
    PROVE  0 .. N \subseteq T
<1> SUFFICES ASSUME (0 .. N) \ T # {} PROVE FALSE
  OBVIOUS
<1>1. PICK m \in (0 .. N) \ T : \A k \in (0 .. N) \ T : m <= k
  <2>1. (0 .. N) \ T \in SUBSET Nat
    OBVIOUS
  <2> QED
    BY <2>1, Least
<1>2. m # 0 /\ m - 1 \in 0 .. N - 1
  BY <1>1
<1>3. m - 1 \in T
  BY <1>1, <1>2
<1> QED
  BY <1>1, <1>2, <1>3

\* f is built step by step, from base.
Built(f, base, N, step) == f[0] = base /\ \A n \in 1 .. N : f[n] = step[n][f[n - 1]]

\* Such a function exists.
LEMMA Recursion ==
    ASSUME NEW A, NEW base \in A, NEW N \in Nat, NEW step \in [1 .. N -> [A -> A]]
    PROVE  \E f \in [0 .. N -> A] : Built(f, base, N, step)
<1> DEFINE Good(f, k) == /\ f[0] = base
                         /\ \A n \in 1 .. k : f[n] = step[n][f[n - 1]]
           T == {k \in 0 .. N : \E f \in [0 .. k -> A] : Good(f, k)}
<1>1. 0 \in T
  <2>1. Good([n \in 0 .. 0 |-> base], 0)
    OBVIOUS
  <2>2. [n \in 0 .. 0 |-> base] \in [0 .. 0 -> A] /\ 0 \in 0 .. N
    OBVIOUS
  <2> HIDE DEF Good
  <2> QED
    BY <2>1, <2>2, Zenon
<1>2. ASSUME NEW k \in 0 .. N - 1, k \in T PROVE k + 1 \in T
  <2>1. PICK f \in [0 .. k -> A] : Good(f, k)
    BY <1>2
  <2> DEFINE g == [n \in 0 .. k + 1 |-> IF n <= k THEN f[n] ELSE step[k + 1][f[k]]]
  <2>2. f[k] \in A /\ step[k + 1] \in [A -> A]
    OBVIOUS
  <2>3. g \in [0 .. k + 1 -> A]
    BY <2>2
  <2>4. Good(g, k + 1)
    <3>1. g[0] = base
      BY <2>1
    <3>2. ASSUME NEW n \in 1 .. k + 1 PROVE g[n] = step[n][g[n - 1]]
      <4>1. CASE n <= k
        BY <2>1, <4>1
      <4>2. CASE n = k + 1
        BY <4>2
      <4> QED
        BY <4>1, <4>2
    <3> QED
      BY <3>1, <3>2
  <2> HIDE DEF Good, g
  <2>5. \E h \in [0 .. k + 1 -> A] : Good(h, k + 1)
    BY <2>3, <2>4
  <2>6. k + 1 \in 0 .. N
    OBVIOUS
  <2> QED
    BY <2>5, <2>6, Zenon
<1> HIDE DEF T
<1>3. N \in T
  <2>1. 0 .. N \subseteq T
    BY <1>1, <1>2, UpTo
  <2> QED
    BY <2>1
<1> QED
  BY <1>3 DEF T, Built
-----------------------------------------------------------------------------
(* The lines that are in a set.                                            *)

\* What Only keeps of the first n lines, for every n
Kept(lines, S) ==
    CHOOSE kept : kept = [n \in 0 .. Len(lines) |->
        IF n = 0 THEN <<>>
        ELSE IF lines[n] \in S THEN Append(kept[n - 1], lines[n]) ELSE kept[n - 1]]

LEMMA KeptFacts ==
    ASSUME NEW X, NEW lines \in Seq(X), NEW S
    PROVE  /\ Kept(lines, S) \in [0 .. Len(lines) -> Seq(X)]
           /\ Kept(lines, S)[0] = <<>>
           /\ \A n \in 1 .. Len(lines) :
                 Kept(lines, S)[n] =
                     IF lines[n] \in S THEN Append(Kept(lines, S)[n - 1], lines[n])
                     ELSE Kept(lines, S)[n - 1]
           /\ Only(lines, S) = Kept(lines, S)[Len(lines)]
<1> DEFINE N == Len(lines)
           step == [n \in 1 .. N |->
                       [q \in Seq(X) |-> IF lines[n] \in S THEN Append(q, lines[n]) ELSE q]]
           IsKept(f) == f = [n \in 0 .. N |->
               IF n = 0 THEN <<>>
               ELSE IF lines[n] \in S THEN Append(f[n - 1], lines[n]) ELSE f[n - 1]]
<1>1. N \in Nat /\ <<>> \in Seq(X) /\ \A n \in 1 .. N : lines[n] \in X
  BY EmptySeq, LenProperties, ElementOfSeq
<1>2. step \in [1 .. N -> [Seq(X) -> Seq(X)]]
  <2> SUFFICES ASSUME NEW n \in 1 .. N, NEW q \in Seq(X)
               PROVE  (IF lines[n] \in S THEN Append(q, lines[n]) ELSE q) \in Seq(X)
    OBVIOUS
  <2> QED
    BY <1>1, AppendProperties
<1> DEFINE Q == Seq(X)
           base == <<>>
<1>3. N \in Nat /\ base \in Q /\ step \in [1 .. N -> [Q -> Q]]
  BY <1>1, <1>2
<1> HIDE DEF N, step, Q, base
<1>4. PICK f \in [0 .. N -> Q] : Built(f, base, N, step)
  BY <1>3, Recursion
<1> USE DEF N, step, Q, base, Built
<1>5. IsKept(f)
  <2>1. \A n \in 0 .. N :
            f[n] = IF n = 0 THEN <<>>
                   ELSE IF lines[n] \in S THEN Append(f[n - 1], lines[n]) ELSE f[n - 1]
    <3> SUFFICES ASSUME NEW n \in 0 .. N, n # 0
                 PROVE  f[n] = IF lines[n] \in S THEN Append(f[n - 1], lines[n])
                               ELSE f[n - 1]
      BY <1>4
    <3>1. n - 1 \in 0 .. N /\ n \in 1 .. N
      BY <1>1
    <3>2. f[n - 1] \in Seq(X)
      BY <3>1
    <3> QED
      BY <1>4, <3>1, <3>2
  <2> QED
    BY <2>1
<1> DEFINE K == Kept(lines, S)
<1>5a. IsKept(K)
  BY <1>5 DEF Kept
<1>6. Only(lines, S) = K[N]
  BY DEF Only, Kept
<1> HIDE DEF K
<1>7. /\ K[0] = <<>>
      /\ \A n \in 1 .. N :
            K[n] = IF lines[n] \in S THEN Append(K[n - 1], lines[n]) ELSE K[n - 1]
  <2> HIDE DEF N
  <2>1. \A n \in 0 .. N :
            K[n] = IF n = 0 THEN <<>>
                   ELSE IF lines[n] \in S THEN Append(K[n - 1], lines[n]) ELSE K[n - 1]
    BY <1>5a
  <2> QED
    BY <1>1, <2>1
<1>8. K \in [0 .. N -> Seq(X)]
  <2> DEFINE T == {n \in 0 .. N : K[n] \in Seq(X)}
  <2> HIDE DEF N
  <2>1. 0 \in T
    <3>1. K[0] \in Seq(X)
      BY <1>1, <1>7, Zenon
    <3> QED
      BY <1>1, <3>1
  <2>2. ASSUME NEW n \in 0 .. N - 1, n \in T PROVE n + 1 \in T
    <3>1. n + 1 \in 1 .. N /\ (n + 1) - 1 = n
      BY <1>1
    <3>2. K[n + 1] = IF lines[n + 1] \in S THEN Append(K[n], lines[n + 1]) ELSE K[n]
      BY <1>7, <3>1
    <3>3. K[n] \in Seq(X) /\ lines[n + 1] \in X
      BY <1>1, <2>2, <3>1
    <3>4. K[n + 1] \in Seq(X)
      BY <3>2, <3>3, AppendProperties
    <3> QED
      BY <3>1, <3>4
  <2> HIDE DEF T
  <2>3. 0 .. N \subseteq T
    BY <1>1, <2>1, <2>2, UpTo
  <2>4. \A n \in 0 .. N : K[n] \in Seq(X)
    BY <2>3 DEF T
  <2> QED
    BY <1>5a, <2>4
<1> QED
  BY <1>6, <1>7, <1>8 DEF K

LEMMA OnlyEmpty ==
    ASSUME NEW S
    PROVE  Only(<<>>, S) = <<>>
<1>1. \A none \in Seq({}) :
          Only(none, S) = Kept(none, S)[Len(none)] /\ Kept(none, S)[0] = <<>>
  BY KeptFacts
<1>2. <<>> \in Seq({}) /\ Len(<<>>) = 0
  BY EmptySeq
<1> QED
  BY <1>1, <1>2

LEMMA OnlyType ==
    ASSUME NEW X, NEW lines \in Seq(X), NEW S
    PROVE  Only(lines, S) \in Seq(X)
  BY KeptFacts, LenProperties

\* One line more
LEMMA OnlyAppend ==
    ASSUME NEW X, NEW lines \in Seq(X), NEW x \in X, NEW S
    PROVE  Only(Append(lines, x), S) =
               IF x \in S THEN Append(Only(lines, S), x) ELSE Only(lines, S)
<1> DEFINE N == Len(lines)
           more == Append(lines, x)
           K == Kept(lines, S)
           M == Kept(more, S)
           T == {n \in 0 .. N : M[n] = K[n]}
<1>1. /\ N \in Nat /\ more \in Seq(X) /\ Len(more) = N + 1 /\ more[N + 1] = x
      /\ \A n \in 1 .. N : more[n] = lines[n]
  BY LenProperties, AppendProperties
<1>2. /\ K[0] = <<>> /\ Only(lines, S) = K[N]
      /\ \A n \in 1 .. N : K[n] = IF lines[n] \in S THEN Append(K[n - 1], lines[n]) ELSE K[n - 1]
  BY KeptFacts
<1>3. /\ M[0] = <<>> /\ Only(more, S) = M[N + 1]
      /\ \A n \in 1 .. N + 1 : M[n] = IF more[n] \in S THEN Append(M[n - 1], more[n]) ELSE M[n - 1]
  <2> HIDE DEF more
  <2> QED
    BY <1>1, KeptFacts
<1> HIDE DEF more, K, M, N
<1>4. 0 \in T
  BY <1>1, <1>2, <1>3
<1>5. ASSUME NEW n \in 0 .. N - 1, n \in T PROVE n + 1 \in T
  <2>1. n + 1 \in 1 .. N /\ n + 1 \in 1 .. N + 1 /\ (n + 1) - 1 = n
    BY <1>1
  <2>2. M[n + 1] = K[n + 1]
    BY <1>1, <1>2, <1>3, <1>5, <2>1
  <2> QED
    BY <1>1, <2>1, <2>2
<1>6. M[N] = K[N]
  <2> HIDE DEF T
  <2>1. 0 .. N \subseteq T
    BY <1>1, <1>4, <1>5, UpTo
  <2> QED
    BY <1>1, <2>1 DEF T
<1>7. M[N + 1] = IF x \in S THEN Append(M[N], x) ELSE M[N]
  BY <1>1, <1>3
<1> QED
  BY <1>2, <1>3, <1>6, <1>7 DEF more

\* Induction for sequences, element by element
LEMMA LineByLine ==
    ASSUME NEW X, NEW T, <<>> \in T,
           \A s \in Seq(X), x \in X : s \in T => Append(s, x) \in T
    PROVE  Seq(X) \subseteq T
<1> SUFFICES ASSUME NEW t \in Seq(X) PROVE t \in T
  OBVIOUS
<1> DEFINE N == Len(t)
           L == {n \in 0 .. N : \A s \in Seq(X) : Len(s) = n => s \in T}
<1>1. N \in Nat
  BY LenProperties
<1>2. 0 \in L
  <2>1. ASSUME NEW s \in Seq(X), Len(s) = 0 PROVE s \in T
    BY <2>1, EmptySeq
  <2> QED
    BY <1>1, <2>1
<1>3. ASSUME NEW n \in 0 .. N - 1, n \in L PROVE n + 1 \in L
  <2>1. ASSUME NEW s \in Seq(X), Len(s) = n + 1 PROVE s \in T
    <3>1. s # <<>>
      BY <2>1, EmptySeq
    <3>2. PICK r \in Seq(X), x \in X : s = Append(r, x)
      BY <3>1, SequenceEmptyOrAppend
    <3>3. Len(r) = n
      BY <1>1, <2>1, <3>2, AppendProperties, LenProperties
    <3>4. r \in T
      BY <1>3, <3>3
    <3> QED
      BY <3>2, <3>4
  <2> QED
    BY <1>1, <2>1
<1> HIDE DEF L
<1>4. 0 .. N \subseteq L
  BY <1>1, <1>2, <1>3, UpTo
<1> QED
  BY <1>1, <1>4 DEF L

LEMMA ConcatAppend ==
    ASSUME NEW X, NEW s \in Seq(X), NEW t \in Seq(X), NEW x \in X
    PROVE  s \o Append(t, x) = Append(s \o t, x)
<1>1. Append(t, x) = t \o <<x>> /\ <<x>> \in Seq(X)
  BY AppendIsConcat
<1>2. s \o t \in Seq(X)
  BY ConcatProperties
<1>3. Append(s \o t, x) = (s \o t) \o <<x>>
  BY <1>2, AppendIsConcat
<1> QED
  BY <1>1, <1>3, ConcatAssociative

LEMMA OnlyConcat ==
    ASSUME NEW X, NEW s \in Seq(X), NEW S
    PROVE  \A t \in Seq(X) : Only(s \o t, S) = Only(s, S) \o Only(t, S)
<1> DEFINE T == {t \in Seq(X) : Only(s \o t, S) = Only(s, S) \o Only(t, S)}
<1>0. Only(s, S) \in Seq(X)
  BY OnlyType
<1>1. <<>> \in T
  BY <1>0, OnlyEmpty, ConcatEmptySeq, EmptySeq
<1>2. ASSUME NEW t \in Seq(X), NEW x \in X, t \in T PROVE Append(t, x) \in T
  <2>1. s \o t \in Seq(X) /\ Append(t, x) \in Seq(X) /\ Only(t, S) \in Seq(X)
    BY ConcatProperties, AppendProperties, OnlyType
  <2>2. Only(s \o Append(t, x), S) =
            IF x \in S THEN Append(Only(s \o t, S), x) ELSE Only(s \o t, S)
    <3>1. s \o Append(t, x) = Append(s \o t, x)
      BY ConcatAppend
    <3>2. Only(Append(s \o t, x), S) =
              IF x \in S THEN Append(Only(s \o t, S), x) ELSE Only(s \o t, S)
      BY <2>1, OnlyAppend
    <3> QED
      BY <3>1, <3>2
  <2>3. Only(Append(t, x), S) = IF x \in S THEN Append(Only(t, S), x) ELSE Only(t, S)
    BY OnlyAppend
  <2>4. Only(s, S) \o Append(Only(t, S), x) = Append(Only(s, S) \o Only(t, S), x)
    BY <1>0, <2>1, ConcatAppend
  <2>5. Only(s \o Append(t, x), S) = Only(s, S) \o Only(Append(t, x), S)
    BY <1>2, <2>2, <2>3, <2>4
  <2> QED
    BY <2>1, <2>5
<1> HIDE DEF T
<1>3. Seq(X) \subseteq T
  BY <1>1, <1>2, LineByLine
<1> QED
  BY <1>3 DEF T

LEMMA OnlyAll ==
    ASSUME NEW X, NEW S, X \subseteq S
    PROVE  \A t \in Seq(X) : Only(t, S) = t
<1> DEFINE T == {t \in Seq(X) : Only(t, S) = t}
<1>1. <<>> \in T
  BY OnlyEmpty, EmptySeq
<1>2. ASSUME NEW t \in Seq(X), NEW x \in X, t \in T PROVE Append(t, x) \in T
  BY <1>2, AppendProperties, OnlyAppend
<1> HIDE DEF T
<1>3. Seq(X) \subseteq T
  BY <1>1, <1>2, LineByLine
<1> QED
  BY <1>3 DEF T

LEMMA OnlyNone ==
    ASSUME NEW X, NEW S, X \cap S = {}
    PROVE  \A t \in Seq(X) : Only(t, S) = <<>>
<1> DEFINE T == {t \in Seq(X) : Only(t, S) = <<>>}
<1>1. <<>> \in T
  BY OnlyEmpty, EmptySeq
<1>2. ASSUME NEW t \in Seq(X), NEW x \in X, t \in T PROVE Append(t, x) \in T
  BY <1>2, AppendProperties, OnlyAppend
<1> HIDE DEF T
<1>3. Seq(X) \subseteq T
  BY <1>1, <1>2, LineByLine
<1> QED
  BY <1>3 DEF T

\* It does not matter which of two sets comes first.
LEMMA OnlyCommutes ==
    ASSUME NEW X, NEW A, NEW B
    PROVE  \A t \in Seq(X) : Only(Only(t, A), B) = Only(Only(t, B), A)
<1> DEFINE T == {t \in Seq(X) : Only(Only(t, A), B) = Only(Only(t, B), A)}
<1>1. <<>> \in T
  BY OnlyEmpty, EmptySeq
<1>2. ASSUME NEW t \in Seq(X), NEW x \in X, t \in T PROVE Append(t, x) \in T
  <2>1. Only(t, A) \in Seq(X) /\ Only(t, B) \in Seq(X) /\ Append(t, x) \in Seq(X)
    BY OnlyType, AppendProperties
  <2>2. /\ Only(Append(t, x), A) = IF x \in A THEN Append(Only(t, A), x) ELSE Only(t, A)
        /\ Only(Append(t, x), B) = IF x \in B THEN Append(Only(t, B), x) ELSE Only(t, B)
    BY OnlyAppend
  <2>3. Only(Append(Only(t, A), x), B) =
            IF x \in B THEN Append(Only(Only(t, A), B), x) ELSE Only(Only(t, A), B)
    BY <2>1, OnlyAppend
  <2>4. Only(Append(Only(t, B), x), A) =
            IF x \in A THEN Append(Only(Only(t, B), A), x) ELSE Only(Only(t, B), A)
    BY <2>1, OnlyAppend
  <2>5. Only(Only(Append(t, x), A), B) = Only(Only(Append(t, x), B), A)
    BY <1>2, <2>2, <2>3, <2>4
  <2> QED
    BY <2>1, <2>5
<1> HIDE DEF T
<1>3. Seq(X) \subseteq T
  BY <1>1, <1>2, LineByLine
<1> QED
  BY <1>3 DEF T
-----------------------------------------------------------------------------
(* What StripBlock makes of a file.                                        *)

Nothing == [out |-> <<>>, inBlock |-> FALSE]
Accs(X) == [out : Seq(X), inBlock : BOOLEAN]

\* What StripBlock has after the first n lines, for every n
Scanned(lines) ==
    CHOOSE scan : scan = [n \in 0 .. Len(lines) |->
        IF n = 0 THEN [out |-> <<>>, inBlock |-> FALSE]
        ELSE StripLine(scan[n - 1], lines[n])]

Scan(lines) == Scanned(lines)[Len(lines)]

LEMMA StripLineFacts ==
    ASSUME NEW X, NEW a \in Accs(X), NEW x \in X
    PROVE  /\ StripLine(a, x) \in Accs(X)
           /\ x = Begin => StripLine(a, x) = [out |-> a.out, inBlock |-> TRUE]
           /\ x = End => StripLine(a, x) = [out |-> a.out, inBlock |-> FALSE]
           /\ x \notin {Begin, End} /\ a.inBlock => StripLine(a, x) = a
           /\ x \notin {Begin, End} /\ ~a.inBlock =>
                 StripLine(a, x) = [out |-> Append(a.out, x), inBlock |-> FALSE]
<1>1. Begin # End
  BY DEF Begin, End
<1>2. Append(a.out, x) \in Seq(X)
  BY AppendProperties DEF Accs
<1>3. CASE x = Begin
  BY <1>1, <1>3 DEF StripLine, Accs
<1>4. CASE x = End
  BY <1>1, <1>4 DEF StripLine, Accs
<1>5. CASE x \notin {Begin, End} /\ a.inBlock
  BY <1>5 DEF StripLine, Accs
<1>6. CASE x \notin {Begin, End} /\ ~a.inBlock
  BY <1>2, <1>6 DEF StripLine, Accs
<1> QED
  BY <1>3, <1>4, <1>5, <1>6 DEF Accs

LEMMA ScannedFacts ==
    ASSUME NEW X, NEW lines \in Seq(X)
    PROVE  /\ Scanned(lines) \in [0 .. Len(lines) -> Accs(X)]
           /\ Scanned(lines)[0] = Nothing
           /\ \A n \in 1 .. Len(lines) :
                 Scanned(lines)[n] = StripLine(Scanned(lines)[n - 1], lines[n])
           /\ StripBlock(lines) = Scan(lines).out
<1> DEFINE N == Len(lines)
           step == [n \in 1 .. N |-> [a \in Accs(X) |-> StripLine(a, lines[n])]]
           IsScanned(f) == f = [n \in 0 .. N |->
               IF n = 0 THEN [out |-> <<>>, inBlock |-> FALSE]
               ELSE StripLine(f[n - 1], lines[n])]
           Q == Accs(X)
           base == Nothing
<1>1. N \in Nat /\ \A n \in 1 .. N : lines[n] \in X
  BY LenProperties, ElementOfSeq
<1>2. step \in [1 .. N -> [Q -> Q]]
  <2> SUFFICES ASSUME NEW n \in 1 .. N, NEW a \in Accs(X)
               PROVE  StripLine(a, lines[n]) \in Accs(X)
    OBVIOUS
  <2> QED
    BY <1>1, StripLineFacts
<1>3. base \in Q
  BY EmptySeq DEF Accs, Nothing
<1> HIDE DEF N, step, Q, base
<1>4. PICK f \in [0 .. N -> Q] : Built(f, base, N, step)
  BY <1>1, <1>2, <1>3, Recursion
<1>5. f[0] = base /\ \A n \in 1 .. N : f[n] = step[n][f[n - 1]]
  BY <1>4 DEF Built
<1> USE DEF N, step, Q, base
<1>6. IsScanned(f)
  <2>1. \A n \in 0 .. N :
            f[n] = IF n = 0 THEN [out |-> <<>>, inBlock |-> FALSE]
                   ELSE StripLine(f[n - 1], lines[n])
    <3> SUFFICES ASSUME NEW n \in 0 .. N, n # 0
                 PROVE  f[n] = StripLine(f[n - 1], lines[n])
      BY <1>5 DEF Nothing
    <3>1. n - 1 \in 0 .. N /\ n \in 1 .. N
      BY <1>1
    <3>2. f[n - 1] \in Accs(X)
      BY <3>1
    <3> QED
      BY <1>5, <3>1, <3>2
  <2> QED
    BY <2>1
<1> DEFINE K == Scanned(lines)
<1>7. IsScanned(K)
  BY <1>6 DEF Scanned
<1>8. StripBlock(lines) = K[N].out
  BY DEF StripBlock, Scanned
<1> HIDE DEF K
<1>9. /\ K[0] = Nothing
      /\ \A n \in 1 .. N : K[n] = StripLine(K[n - 1], lines[n])
  <2> HIDE DEF N
  <2>1. \A n \in 0 .. N :
            K[n] = IF n = 0 THEN [out |-> <<>>, inBlock |-> FALSE]
                   ELSE StripLine(K[n - 1], lines[n])
    BY <1>7
  <2> QED
    BY <1>1, <2>1 DEF Nothing
<1>10. K \in [0 .. N -> Accs(X)]
  <2> DEFINE T == {n \in 0 .. N : K[n] \in Accs(X)}
  <2> HIDE DEF N
  <2>1. 0 \in T
    BY <1>1, <1>3, <1>9
  <2>2. ASSUME NEW n \in 0 .. N - 1, n \in T PROVE n + 1 \in T
    <3>1. n + 1 \in 1 .. N /\ (n + 1) - 1 = n
      BY <1>1
    <3>2. K[n + 1] = StripLine(K[n], lines[n + 1])
      BY <1>9, <3>1
    <3>3. K[n] \in Accs(X) /\ lines[n + 1] \in X
      BY <1>1, <2>2, <3>1
    <3>4. K[n + 1] \in Accs(X)
      BY <3>2, <3>3, StripLineFacts
    <3> QED
      BY <3>1, <3>4
  <2> HIDE DEF T
  <2>3. 0 .. N \subseteq T
    BY <1>1, <2>1, <2>2, UpTo
  <2>4. \A n \in 0 .. N : K[n] \in Accs(X)
    BY <2>3 DEF T
  <2> QED
    BY <1>7, <2>4
<1> QED
  BY <1>8, <1>9, <1>10 DEF K, Scan

LEMMA ScanEmpty == Scan(<<>>) = Nothing
<1>1. \A none \in Seq({}) : Scanned(none)[0] = Nothing
  BY ScannedFacts
<1>2. <<>> \in Seq({}) /\ Len(<<>>) = 0
  BY EmptySeq
<1> QED
  BY <1>1, <1>2 DEF Scan

LEMMA ScanType ==
    ASSUME NEW X, NEW lines \in Seq(X)
    PROVE  Scan(lines) \in Accs(X)
  BY ScannedFacts, LenProperties DEF Scan

\* One line more
LEMMA ScanAppend ==
    ASSUME NEW X, NEW lines \in Seq(X), NEW x \in X
    PROVE  Scan(Append(lines, x)) = StripLine(Scan(lines), x)
<1> DEFINE N == Len(lines)
           more == Append(lines, x)
           K == Scanned(lines)
           M == Scanned(more)
           T == {n \in 0 .. N : M[n] = K[n]}
<1>1. /\ N \in Nat /\ more \in Seq(X) /\ Len(more) = N + 1 /\ more[N + 1] = x
      /\ \A n \in 1 .. N : more[n] = lines[n]
  BY LenProperties, AppendProperties
<1>2. /\ K[0] = Nothing
      /\ \A n \in 1 .. N : K[n] = StripLine(K[n - 1], lines[n])
  BY ScannedFacts
<1>3. /\ M[0] = Nothing
      /\ \A n \in 1 .. N + 1 : M[n] = StripLine(M[n - 1], more[n])
  <2> HIDE DEF more
  <2> QED
    BY <1>1, ScannedFacts
<1> HIDE DEF more, K, M, N
<1>4. 0 \in T
  BY <1>1, <1>2, <1>3
<1>5. ASSUME NEW n \in 0 .. N - 1, n \in T PROVE n + 1 \in T
  <2>1. n + 1 \in 1 .. N /\ n + 1 \in 1 .. N + 1 /\ (n + 1) - 1 = n
    BY <1>1
  <2>2. M[n + 1] = K[n + 1]
    BY <1>1, <1>2, <1>3, <1>5, <2>1
  <2> QED
    BY <1>1, <2>1, <2>2
<1>6. M[N] = K[N]
  <2> HIDE DEF T
  <2>1. 0 .. N \subseteq T
    BY <1>1, <1>4, <1>5, UpTo
  <2> QED
    BY <1>1, <2>1 DEF T
<1>7. M[N + 1] = StripLine(M[N], x)
  BY <1>1, <1>3
<1>8. Scan(lines) = K[N] /\ Scan(more) = M[N + 1]
  BY <1>1 DEF Scan, K, M, N
<1> QED
  BY <1>6, <1>7, <1>8 DEF more

Plain == Other \cup {CutOff}
Inner == Blocking \cup Plain

\* A file whose block has no end, and one whose block has
Opened(s, b) == Append(s, Begin) \o b
Closed(s, b, u) == Append(Opened(s, b), End) \o u

LEMMA LineFacts ==
    /\ Begin \in Line /\ End \in Line /\ CutOff \in Plain /\ Begin # End
    /\ Begin \notin Inner /\ End \notin Inner
    /\ CutOff \notin Other
    /\ Blocking \cap Plain = {}
    /\ Inner \subseteq Line /\ Plain \subseteq Inner /\ Blocking \subseteq Inner
    /\ Other \subseteq Plain
<1>1. Begin # End /\ Begin # CutOff /\ End # CutOff
  BY DEF Begin, End, CutOff
<1>2. \A x \in Blocking \cup Other : x # Begin /\ x # End /\ x # CutOff
  BY DEF Begin, End, CutOff, Blocking, Other
<1>3. Blocking \cap Other = {}
  BY DEF Blocking, Other
<1> QED
  BY <1>1, <1>2, <1>3 DEF Plain, Inner, Line

LEMMA SeqFacts ==
    /\ Seq(Plain) \subseteq Seq(Inner) /\ Seq(Blocking) \subseteq Seq(Inner)
    /\ Seq(Inner) \subseteq Seq(Line) /\ Seq(Other) \subseteq Seq(Plain)
    /\ Seq(Plain) \subseteq Seq(Line) /\ Seq(Other) \subseteq Seq(Line)
<1> HIDE DEF Plain, Inner
<1>1. /\ Plain \subseteq Inner /\ Blocking \subseteq Inner
      /\ Inner \subseteq Line /\ Other \subseteq Plain
  BY LineFacts
<1>2. \A A, B : A \subseteq B => Seq(A) \subseteq Seq(B)
  BY SeqMonotonic
<1> QED
  BY <1>1, <1>2

LEMMA ShapeTypes ==
    ASSUME NEW s \in Seq(Plain), NEW b \in Seq(Inner), NEW u \in Seq(Plain)
    PROVE  /\ s \in Seq(Line) /\ b \in Seq(Line) /\ u \in Seq(Line)
           /\ Append(s, Begin) \in Seq(Line)
           /\ Opened(s, b) \in Seq(Line)
           /\ Append(Opened(s, b), End) \in Seq(Line)
           /\ Closed(s, b, u) \in Seq(Line)
<1>1. s \in Seq(Line) /\ b \in Seq(Line) /\ u \in Seq(Line)
  BY SeqFacts
<1>2. Append(s, Begin) \in Seq(Line)
  BY <1>1, LineFacts, AppendProperties
<1>3. Opened(s, b) \in Seq(Line)
  BY <1>1, <1>2, ConcatProperties DEF Opened
<1>4. Append(Opened(s, b), End) \in Seq(Line)
  BY <1>3, LineFacts, AppendProperties
<1>5. Closed(s, b, u) \in Seq(Line)
  BY <1>1, <1>4, ConcatProperties DEF Closed
<1> QED
  BY <1>1, <1>2, <1>3, <1>4, <1>5

\* Outside a block every line of another program is kept.
LEMMA ScanKeeps ==
    ASSUME NEW c \in Seq(Line), NEW o \in Seq(Line),
           Scan(c) = [out |-> o, inBlock |-> FALSE]
    PROVE  \A u \in Seq(Plain) : Scan(c \o u) = [out |-> o \o u, inBlock |-> FALSE]
<1> DEFINE T == {u \in Seq(Plain) : Scan(c \o u) = [out |-> o \o u, inBlock |-> FALSE]}
<1>1. <<>> \in T
  BY ConcatEmptySeq, EmptySeq
<1>2. ASSUME NEW u \in Seq(Plain), NEW x \in Plain, u \in T PROVE Append(u, x) \in T
  <2>1. u \in Seq(Line) /\ x \in Line /\ x \notin {Begin, End}
    BY SeqFacts, LineFacts
  <2>2. c \o u \in Seq(Line) /\ o \o u \in Seq(Line)
    BY <2>1, ConcatProperties
  <2>3. c \o Append(u, x) = Append(c \o u, x) /\ o \o Append(u, x) = Append(o \o u, x)
    BY <2>1, ConcatAppend
  <2>4. Scan(c \o Append(u, x)) = StripLine(Scan(c \o u), x)
    <3>1. Scan(Append(c \o u, x)) = StripLine(Scan(c \o u), x)
      BY <2>1, <2>2, ScanAppend
    <3> QED
      BY <2>3, <3>1
  <2>5. Scan(c \o u) = [out |-> o \o u, inBlock |-> FALSE]
    BY <1>2
  <2>6. Scan(c \o u) \in Accs(Line) /\ Scan(c \o u).out = o \o u /\ ~Scan(c \o u).inBlock
    <3>1. Scan(c \o u) \in Accs(Line)
      BY <2>2, ScanType
    <3> QED
      BY <2>5, <3>1
  <2>7. StripLine(Scan(c \o u), x) = [out |-> Append(o \o u, x), inBlock |-> FALSE]
    <3>1. StripLine(Scan(c \o u), x) =
              [out |-> Append(Scan(c \o u).out, x), inBlock |-> FALSE]
      BY <2>1, <2>6, StripLineFacts
    <3> QED
      BY <2>6, <3>1
  <2>8. Append(u, x) \in Seq(Plain)
    BY AppendProperties
  <2> QED
    BY <2>3, <2>4, <2>7, <2>8
<1> HIDE DEF T
<1>3. Seq(Plain) \subseteq T
  BY <1>1, <1>2, LineByLine
<1> QED
  BY <1>3 DEF T

\* Inside a block every line but its end is dropped.
LEMMA ScanDrops ==
    ASSUME NEW c \in Seq(Line), Scan(c).inBlock
    PROVE  \A b \in Seq(Inner) : Scan(c \o b) = Scan(c)
<1> DEFINE T == {b \in Seq(Inner) : Scan(c \o b) = Scan(c)}
<1>1. <<>> \in T
  BY ConcatEmptySeq, EmptySeq
<1>2. ASSUME NEW b \in Seq(Inner), NEW x \in Inner, b \in T PROVE Append(b, x) \in T
  <2>1. b \in Seq(Line) /\ x \in Line /\ x \notin {Begin, End}
    BY SeqFacts, LineFacts
  <2>2. c \o b \in Seq(Line) /\ Scan(c \o b) \in Accs(Line)
    BY <2>1, ConcatProperties, ScanType
  <2>3. c \o Append(b, x) = Append(c \o b, x)
    BY <2>1, ConcatAppend
  <2>4. Scan(c \o Append(b, x)) = StripLine(Scan(c \o b), x)
    <3>1. Scan(Append(c \o b, x)) = StripLine(Scan(c \o b), x)
      BY <2>1, <2>2, ScanAppend
    <3> QED
      BY <2>3, <3>1
  <2>5. Scan(c \o b) = Scan(c)
    BY <1>2
  <2>6. StripLine(Scan(c \o b), x) = Scan(c \o b)
    BY <2>1, <2>2, <2>5, StripLineFacts
  <2>7. Append(b, x) \in Seq(Inner)
    BY AppendProperties
  <2> QED
    BY <2>4, <2>5, <2>6, <2>7
<1> HIDE DEF T
<1>3. Seq(Inner) \subseteq T
  BY <1>1, <1>2, LineByLine
<1> QED
  BY <1>3 DEF T

\* What is kept of each kind of file
LEMMA StripPlain ==
    ASSUME NEW s \in Seq(Plain)
    PROVE  Scan(s) = [out |-> s, inBlock |-> FALSE] /\ StripBlock(s) = s
<1>1. <<>> \in Seq(Line) /\ Scan(<<>>) = [out |-> <<>>, inBlock |-> FALSE]
  BY EmptySeq, ScanEmpty DEF Nothing
<1>2. Scan(<<>> \o s) = [out |-> <<>> \o s, inBlock |-> FALSE]
  BY <1>1, ScanKeeps
<1>3. <<>> \o s = s
  BY ConcatEmptySeq
<1>4. StripBlock(s) = Scan(s).out
  BY ScannedFacts
<1> QED
  BY <1>2, <1>3, <1>4

LEMMA StripOpened ==
    ASSUME NEW s \in Seq(Plain), NEW b \in Seq(Inner)
    PROVE  /\ Scan(Opened(s, b)) = [out |-> s, inBlock |-> TRUE]
           /\ StripBlock(Opened(s, b)) = s
<1>1. s \in Seq(Line) /\ Append(s, Begin) \in Seq(Line) /\ Opened(s, b) \in Seq(Line)
  BY ShapeTypes, EmptySeq
<1>2. Scan(s) \in Accs(Line) /\ Scan(s).out = s
  BY <1>1, ScanType, StripPlain
<1>3. Scan(Append(s, Begin)) = StripLine(Scan(s), Begin)
  BY <1>1, ScanAppend, LineFacts
<1>4. Scan(Append(s, Begin)) = [out |-> s, inBlock |-> TRUE]
  <2>1. StripLine(Scan(s), Begin) = [out |-> Scan(s).out, inBlock |-> TRUE]
    BY <1>2, StripLineFacts, LineFacts
  <2> QED
    BY <1>2, <1>3, <2>1
<1>5. Scan(Opened(s, b)) = Scan(Append(s, Begin))
  <2>1. Scan(Append(s, Begin)).inBlock
    BY <1>4
  <2> QED
    BY <1>1, <2>1, ScanDrops DEF Opened
<1>6. StripBlock(Opened(s, b)) = Scan(Opened(s, b)).out
  BY <1>1, ScannedFacts
<1> QED
  BY <1>4, <1>5, <1>6

LEMMA StripClosed ==
    ASSUME NEW s \in Seq(Plain), NEW b \in Seq(Inner), NEW u \in Seq(Plain)
    PROVE  StripBlock(Closed(s, b, u)) = s \o u
<1>1. /\ s \in Seq(Line) /\ Opened(s, b) \in Seq(Line)
      /\ Append(Opened(s, b), End) \in Seq(Line) /\ Closed(s, b, u) \in Seq(Line)
  BY ShapeTypes
<1> DEFINE o == Opened(s, b)
<1>2. Scan(o) \in Accs(Line) /\ Scan(o).out = s
  BY <1>1, ScanType, StripOpened
<1>3. Scan(Append(o, End)) = StripLine(Scan(o), End)
  BY <1>1, ScanAppend, LineFacts
<1>4. Scan(Append(o, End)) = [out |-> s, inBlock |-> FALSE]
  <2>1. StripLine(Scan(o), End) = [out |-> Scan(o).out, inBlock |-> FALSE]
    BY <1>2, StripLineFacts, LineFacts
  <2> QED
    BY <1>2, <1>3, <2>1
<1>5. Scan(Closed(s, b, u)) = [out |-> s \o u, inBlock |-> FALSE]
  BY <1>1, <1>4, ScanKeeps DEF Closed
<1>6. StripBlock(Closed(s, b, u)) = Scan(Closed(s, b, u)).out
  BY <1>1, ScannedFacts
<1> QED
  BY <1>5, <1>6
-----------------------------------------------------------------------------
(* What AddBlock puts into a file.                                         *)

Listing(domains) == {"0.0.0.0", "::"} \X domains

LEMMA InFacts ==
    ASSUME NEW X, NEW s \in Seq(X), NEW t \in Seq(X), NEW x \in X
    PROVE  /\ In(s) \subseteq X
           /\ In(s \o t) = In(s) \cup In(t)
           /\ In(Append(s, x)) = In(s) \cup {x}
<1>1. In(s) = Range(s) /\ In(t) = Range(t) /\ In(s \o t) = Range(s \o t)
  BY DEF In, Range
<1>2. In(s) \subseteq X
  BY <1>1, RangeOfSeq
<1>3. In(s \o t) = In(s) \cup In(t)
  BY <1>1, RangeConcatenation
<1>4. In(Append(s, x)) = In(s) \cup {x}
  <2> DEFINE a == Append(s, x)
  <2>1. /\ Len(s) \in Nat /\ DOMAIN s = 1 .. Len(s) /\ DOMAIN a = 1 .. Len(s) + 1
        /\ a[Len(s) + 1] = x /\ \A i \in 1 .. Len(s) : a[i] = s[i]
    BY LenProperties, AppendProperties
  <2> HIDE DEF a
  <2>2. In(a) \subseteq In(s) \cup {x}
    BY <2>1 DEF In
  <2>3. In(s) \cup {x} \subseteq In(a)
    BY <2>1 DEF In
  <2> QED
    BY <2>2, <2>3 DEF a
<1> QED
  BY <1>2, <1>3, <1>4

LEMMA SetToSeqFacts ==
    ASSUME NEW S, IsFiniteSet(S)
    PROVE  SetToSeq(S) \in Seq(S) /\ In(SetToSeq(S)) = S
<1> DEFINE n == Cardinality(S)
<1>1. n \in Nat /\ ExistsBijection(1 .. n, S)
  BY FS_CardinalityType
<1>2. \E f \in [1 .. n -> S] : IsInjective(f)
  BY <1>1 DEF ExistsBijection, Bijection, Injection
<1>3. SetToSeq(S) \in [1 .. n -> S] /\ IsInjective(SetToSeq(S))
  BY <1>2 DEF SetToSeq
<1>4. SetToSeq(S) \in Surjection(1 .. n, S)
  <2>1. SetToSeq(S) \in Injection(1 .. n, S)
    BY <1>3 DEF Injection
  <2>2. Cardinality(1 .. n) = n
    BY <1>1, FS_Interval
  <2> QED
    BY <2>1, <2>2, FS_Injection
<1> QED
  BY <1>1, <1>3, <1>4 DEF Surjection, In

LEMMA BlockLinesFacts ==
    ASSUME NEW w \in SUBSET Domain
    PROVE  /\ BlockLines(w) \in Seq(Blocking)
           /\ In(BlockLines(w)) = Listing(w)
<1> DEFINE ds == SetToSeq(w)
           n == Len(ds)
<1>1. IsFiniteSet(w)
  BY DomainAssumption, FS_Subset
<1>2. ds \in Seq(w) /\ In(ds) = w
  BY <1>1, SetToSeqFacts
<1>3. n \in Nat /\ DOMAIN ds = 1 .. n /\ \A k \in 1 .. n : ds[k] \in w
  <2> HIDE DEF ds
  <2> QED
    BY <1>2, LenProperties, ElementOfSeq
<1> DEFINE first(i) == IF i % 2 = 1 THEN "0.0.0.0" ELSE "::"
<1>4. BlockLines(w) = [i \in 1 .. 2 * n |-> <<first(i), ds[(i + 1) \div 2]>>]
  BY DEF BlockLines
<1> HIDE DEF n, ds
<1>5. \A i \in 1 .. 2 * n : (i + 1) \div 2 \in 1 .. n
  BY <1>3
<1>6. \A i \in 1 .. 2 * n : <<first(i), ds[(i + 1) \div 2]>> \in Listing(w)
  BY <1>3, <1>5 DEF Listing
<1>7. BlockLines(w) \in [1 .. 2 * n -> Blocking]
  <2>1. Listing(w) \subseteq Blocking
    BY DEF Listing, Blocking
  <2> QED
    BY <1>4, <1>6, <2>1
<1>8. BlockLines(w) \in Seq(Blocking)
  BY <1>3, <1>7, SeqDef, 2 * n \in Nat
<1>9. In(BlockLines(w)) \subseteq Listing(w)
  BY <1>4, <1>6 DEF In
<1>10. ASSUME NEW l \in Listing(w) PROVE l \in In(BlockLines(w))
  <2>1. PICK a \in {"0.0.0.0", "::"}, d \in w : l = <<a, d>>
    BY DEF Listing
  <2>2. PICK k \in 1 .. n : ds[k] = d
    BY <1>2, <1>3 DEF In
  <2> DEFINE i == IF a = "0.0.0.0" THEN 2 * k - 1 ELSE 2 * k
  <2>3. i \in 1 .. 2 * n /\ (i + 1) \div 2 = k /\ first(i) = a
    BY <1>3, <2>1, <2>2
  <2> HIDE DEF first, i
  <2>4. BlockLines(w)[i] = l /\ i \in DOMAIN BlockLines(w)
    BY <1>4, <2>1, <2>2, <2>3
  <2> QED
    BY <2>4 DEF In
<1> QED
  BY <1>8, <1>9, <1>10

LEMMA AddBlockShape ==
    ASSUME NEW lines, StripBlock(lines) \in Seq(Plain), NEW w \in SUBSET Domain
    PROVE  AddBlock(lines, w) = Closed(StripBlock(lines), BlockLines(w), <<>>)
<1> DEFINE s == StripBlock(lines)
           b == BlockLines(w)
<1>1. s \in Seq(Plain) /\ b \in Seq(Inner) /\ <<>> \in Seq(Plain)
  BY BlockLinesFacts, SeqFacts, EmptySeq
<1> HIDE DEF s, b
<1>2. /\ s \in Seq(Line) /\ Opened(s, b) \in Seq(Line) /\ Append(Opened(s, b), End) \in Seq(Line)
  BY <1>1, ShapeTypes
<1>3. s \o <<Begin>> = Append(s, Begin)
  BY <1>2, LineFacts, AppendIsConcat
<1>4. Opened(s, b) \o <<End>> = Append(Opened(s, b), End)
  BY <1>2, LineFacts, AppendIsConcat
<1>5. Append(Opened(s, b), End) \o <<>> = Append(Opened(s, b), End)
  BY <1>2, ConcatEmptySeq
<1>6. AddBlock(lines, w) = s \o <<Begin>> \o b \o <<End>>
  BY DEF AddBlock, s, b
<1> QED
  BY <1>3, <1>4, <1>5, <1>6 DEF Opened, Closed, s, b

\* The block and what is below it
Rest(b, u) == Append(b, End) \o u

LEMMA ClosedSplit ==
    ASSUME NEW s \in Seq(Plain), NEW b \in Seq(Inner), NEW u \in Seq(Plain)
    PROVE  /\ Closed(s, b, u) = Append(s, Begin) \o Rest(b, u)
           /\ Rest(b, u) \in Seq(Line \ {Begin})
<1> DEFINE p == Append(s, Begin)
           q == Append(b, End)
<1>1. p \in Seq(Line) /\ b \in Seq(Line) /\ u \in Seq(Line) /\ q \in Seq(Line)
  BY ShapeTypes, LineFacts, AppendProperties
<1>2. Append(p \o b, End) = p \o q
  <2>1. \A t, v \in Seq(Line), x \in Line : t \o Append(v, x) = Append(t \o v, x)
    BY ConcatAppend
  <2>2. p \o Append(b, End) = Append(p \o b, End)
    BY <1>1, <2>1, LineFacts
  <2> QED
    BY <2>2
<1>3. (p \o q) \o u = p \o (q \o u)
  BY <1>1, ConcatAssociative
<1>4. q \o u \in Seq(Line \ {Begin})
  <2>1. Inner \subseteq Line \ {Begin} /\ Plain \subseteq Line \ {Begin} /\ End \in Line \ {Begin}
    BY LineFacts
  <2>2. b \in Seq(Line \ {Begin}) /\ u \in Seq(Line \ {Begin})
    BY <2>1, SeqMonotonic
  <2>3. q \in Seq(Line \ {Begin})
    BY <2>1, <2>2, AppendProperties
  <2> QED
    BY <2>2, <2>3, ConcatProperties
<1> QED
  BY <1>2, <1>3, <1>4 DEF Closed, Opened, Rest

\* One block, and in it what b lists
LEMMA ClosedFacts ==
    ASSUME NEW s \in Seq(Plain), NEW b \in Seq(Blocking), NEW u \in Seq(Plain)
    PROVE  LET c == Closed(s, b, u)
           IN  /\ In(c) \cap Blocking = In(b)
               /\ \E i \in DOMAIN c : \A j \in DOMAIN c : c[j] = Begin <=> j = i
               /\ Begin \in In(c)
<1> DEFINE p == Append(s, Begin)
           r == Rest(b, u)
           c == Closed(s, b, u)
<1>1. b \in Seq(Inner)
  BY SeqFacts
<1>2. /\ s \in Seq(Line) /\ b \in Seq(Line) /\ u \in Seq(Line) /\ p \in Seq(Line)
      /\ Opened(s, b) \in Seq(Line) /\ Append(Opened(s, b), End) \in Seq(Line)
  BY <1>1, ShapeTypes
<1>3. /\ In(p) = In(s) \cup {Begin}
      /\ In(Opened(s, b)) = In(p) \cup In(b)
      /\ In(Append(Opened(s, b), End)) = In(Opened(s, b)) \cup {End}
      /\ In(c) = In(Append(Opened(s, b), End)) \cup In(u)
  <2>1. Begin \in Line /\ End \in Line
    BY LineFacts
  <2>2. /\ \A t, v \in Seq(Line) : In(t \o v) = In(t) \cup In(v)
        /\ \A t \in Seq(Line), x \in Line : In(Append(t, x)) = In(t) \cup {x}
    BY <2>1, InFacts
  <2>3. In(p) = In(s) \cup {Begin} /\ In(p \o b) = In(p) \cup In(b)
    BY <1>2, <2>1, <2>2
  <2>4. In(Append(Opened(s, b), End)) = In(Opened(s, b)) \cup {End}
    BY <1>2, <2>1, <2>2
  <2>5. In(Append(Opened(s, b), End) \o u) = In(Append(Opened(s, b), End)) \cup In(u)
    BY <1>2, <2>2
  <2> QED
    BY <2>3, <2>4, <2>5 DEF Opened, Closed
<1>4. In(s) \subseteq Plain /\ In(u) \subseteq Plain /\ In(b) \subseteq Blocking
  <2>1. CutOff \in Plain
    BY LineFacts
  <2>2. In(s) \subseteq Plain /\ In(u) \subseteq Plain
    BY <2>1, InFacts
  <2>3. In(b) \subseteq Blocking
    BY RangeOfSeq DEF In, Range
  <2> QED
    BY <2>2, <2>3
<1>5. In(c) \cap Blocking = In(b)
  BY <1>3, <1>4, LineFacts
<1>6. Begin \in In(c)
  BY <1>3
<1>7. c = p \o r /\ r \in Seq(Line \ {Begin})
  BY <1>1, ClosedSplit
<1>8. r \in Seq(Line)
  BY <1>7, SeqMonotonic, Line \ {Begin} \subseteq Line
<1> HIDE DEF c, r
<1>9. \E i \in DOMAIN c : \A j \in DOMAIN c : c[j] = Begin <=> j = i
  <2> DEFINE n == Len(s)
  <2>1. n \in Nat /\ \A j \in 1 .. n : s[j] # Begin
    BY LenProperties, ElementOfSeq, LineFacts
  <2>2. Len(p) = n + 1 /\ p[n + 1] = Begin /\ \A j \in 1 .. n : p[j] = s[j]
    BY <1>2, LineFacts, AppendProperties
  <2>3. Len(r) \in Nat /\ \A j \in 1 .. Len(r) : r[j] # Begin
    BY <1>7, LenProperties, ElementOfSeq
  <2> HIDE DEF p, n
  <2>4. /\ DOMAIN c = 1 .. (n + 1) + Len(r)
        /\ \A j \in 1 .. (n + 1) + Len(r) : c[j] = IF j <= n + 1 THEN p[j] ELSE r[j - (n + 1)]
    <3>1. c \in Seq(Line) /\ Len(c) = (n + 1) + Len(r)
      <4>1. c \in Seq(Line) /\ Len(c) = Len(p) + Len(r)
        BY <1>2, <1>7, <1>8, ConcatProperties
      <4> QED
        BY <2>2, <4>1
    <3>2. DOMAIN c = 1 .. Len(c)
      BY <3>1, LenProperties
    <3>3. \A j \in 1 .. Len(p) + Len(r) : c[j] = IF j <= Len(p) THEN p[j] ELSE r[j - Len(p)]
      BY <1>2, <1>7, <1>8, ConcatProperties
    <3> QED
      BY <2>2, <3>1, <3>2, <3>3
  <2>5. n + 1 \in DOMAIN c
    BY <2>1, <2>3, <2>4
  <2>6. ASSUME NEW j \in DOMAIN c PROVE c[j] = Begin <=> j = n + 1
    <3>1. CASE j <= n
      BY <2>1, <2>2, <2>4, <3>1
    <3>2. CASE j = n + 1
      BY <2>2, <2>4, <3>2
    <3>3. CASE j > n + 1
      <4>1. j - (n + 1) \in 1 .. Len(r)
        BY <2>1, <2>3, <2>4, <3>3
      <4>2. c[j] = r[j - (n + 1)]
        BY <2>1, <2>4, <3>3
      <4>3. c[j] # Begin
        BY <2>3, <4>1, <4>2
      <4>4. j # n + 1
        BY <2>1, <2>4, <3>3
      <4> QED
        BY <4>3, <4>4
    <3> QED
      BY <2>1, <2>4, <3>1, <3>2, <3>3
  <2> QED
    BY <2>5, <2>6
<1> QED
  BY <1>5, <1>6, <1>9 DEF c
-----------------------------------------------------------------------------
(* The files that can be: the start of a whole one, with lines added at    *)
(* both ends.                                                              *)

Formed(c) ==
    \/ c \in Seq(Plain)
    \/ \E s \in Seq(Plain), b \in Seq(Inner) : c = Opened(s, b)
    \/ \E s, u \in Seq(Plain), b \in Seq(Inner) : c = Closed(s, b, u)

Whole(c) ==
    \/ c \in Seq(Plain)
    \/ \E s, u \in Seq(Plain), b \in Seq(Blocking) : c = Closed(s, b, u)

LEMMA FormedStrips ==
    ASSUME NEW c, Formed(c)
    PROVE  c \in Seq(Line) /\ StripBlock(c) \in Seq(Plain)
<1>1. CASE c \in Seq(Plain)
  BY <1>1, StripPlain, SeqFacts
<1>2. ASSUME NEW s \in Seq(Plain), NEW b \in Seq(Inner), c = Opened(s, b)
      PROVE  c \in Seq(Line) /\ StripBlock(c) \in Seq(Plain)
  <2>1. s \in Seq(Plain)
    OBVIOUS
  <2>2. Opened(s, b) \in Seq(Line)
    BY ShapeTypes, <2>1
  <2>3. StripBlock(Opened(s, b)) = s
    BY StripOpened
  <2> QED
    BY <1>2, <2>1, <2>2, <2>3
<1>3. ASSUME NEW s \in Seq(Plain), NEW u \in Seq(Plain), NEW b \in Seq(Inner), c = Closed(s, b, u)
      PROVE  c \in Seq(Line) /\ StripBlock(c) \in Seq(Plain)
  <2>1. Closed(s, b, u) \in Seq(Line)
    BY ShapeTypes
  <2>2. StripBlock(Closed(s, b, u)) = s \o u
    BY StripClosed
  <2>3. s \o u \in Seq(Plain)
    BY ConcatProperties
  <2> QED
    BY <1>3, <2>1, <2>2, <2>3
<1> QED
  BY <1>1, <1>2, <1>3 DEF Formed

LEMMA WholeFormed ==
    ASSUME NEW c, Whole(c)
    PROVE  Formed(c)
  BY SeqFacts DEF Whole, Formed

\* What Only keeps of each kind of file
LEMMA OnlyShapes ==
    ASSUME NEW s \in Seq(Plain), NEW b \in Seq(Inner), NEW u \in Seq(Plain), NEW S
    PROVE  /\ Begin \in S => Only(Opened(s, b), S) = Opened(Only(s, S), Only(b, S))
           /\ Begin \in S /\ End \in S =>
                 Only(Closed(s, b, u), S) = Closed(Only(s, S), Only(b, S), Only(u, S))
           /\ Begin \notin S /\ End \notin S =>
                 Only(Closed(s, b, u), S) = (Only(s, S) \o Only(b, S)) \o Only(u, S)
<1> DEFINE p == Append(s, Begin)
           o == Opened(s, b)
           q == Append(o, End)
<1>1. /\ s \in Seq(Line) /\ b \in Seq(Line) /\ u \in Seq(Line)
      /\ p \in Seq(Line) /\ o \in Seq(Line) /\ q \in Seq(Line)
  BY ShapeTypes
<1>2. /\ \A t, v \in Seq(Line) : Only(t \o v, S) = Only(t, S) \o Only(v, S)
      /\ \A t \in Seq(Line), x \in Line :
            Only(Append(t, x), S) = IF x \in S THEN Append(Only(t, S), x) ELSE Only(t, S)
  BY OnlyConcat, OnlyAppend
<1>3. Begin \in Line /\ End \in Line
  BY LineFacts
<1>4. Only(p, S) = IF Begin \in S THEN Append(Only(s, S), Begin) ELSE Only(s, S)
  BY <1>1, <1>2, <1>3
<1>5. Only(o, S) = Only(p, S) \o Only(b, S)
  <2>1. Only(p \o b, S) = Only(p, S) \o Only(b, S)
    BY <1>1, <1>2
  <2> QED
    BY <2>1 DEF Opened
<1>6. Only(q, S) = IF End \in S THEN Append(Only(o, S), End) ELSE Only(o, S)
  BY <1>1, <1>2, <1>3
<1>7. Only(Closed(s, b, u), S) = Only(q, S) \o Only(u, S)
  <2>1. Only(q \o u, S) = Only(q, S) \o Only(u, S)
    BY <1>1, <1>2
  <2> QED
    BY <2>1 DEF Closed
<1> HIDE DEF p, o, q
<1>8. Begin \in S => Only(o, S) = Opened(Only(s, S), Only(b, S))
  BY <1>4, <1>5 DEF Opened
<1>9. Begin \in S /\ End \in S =>
          Only(Closed(s, b, u), S) = Closed(Only(s, S), Only(b, S), Only(u, S))
  BY <1>6, <1>7, <1>8 DEF Closed
<1>10. Begin \notin S /\ End \notin S =>
          Only(Closed(s, b, u), S) = (Only(s, S) \o Only(b, S)) \o Only(u, S)
  BY <1>4, <1>5, <1>6, <1>7
<1> QED
  BY <1>8, <1>9, <1>10 DEF o

\* Taking the block out of a whole file takes no line of another program with it.
LEMMA WholeKeeps ==
    ASSUME NEW c, Whole(c)
    PROVE  Only(StripBlock(c), Other) = Only(c, Other)
<1>1. CASE c \in Seq(Plain)
  BY <1>1, StripPlain
<1>2. ASSUME NEW s \in Seq(Plain), NEW u \in Seq(Plain), NEW b \in Seq(Blocking),
             c = Closed(s, b, u)
      PROVE  Only(StripBlock(c), Other) = Only(c, Other)
  <2>1. b \in Seq(Inner) /\ Begin \notin Other /\ End \notin Other /\ Blocking \cap Other = {}
    BY SeqFacts, LineFacts
  <2>2. Only(b, Other) = <<>>
    BY <2>1, OnlyNone
  <2>3. Only(Closed(s, b, u), Other) = (Only(s, Other) \o <<>>) \o Only(u, Other)
    <3>1. Only(Closed(s, b, u), Other) = (Only(s, Other) \o Only(b, Other)) \o Only(u, Other)
      BY <2>1, OnlyShapes
    <3> QED
      BY <2>2, <3>1
  <2>4. Only(s, Other) \o <<>> = Only(s, Other)
    BY OnlyType, ConcatEmptySeq
  <2>5. Only(s \o u, Other) = Only(s, Other) \o Only(u, Other)
    BY OnlyConcat
  <2>6. StripBlock(Closed(s, b, u)) = s \o u
    BY <2>1, StripClosed
  <2> QED
    BY <1>2, <2>3, <2>4, <2>5, <2>6
<1> QED
  BY <1>1, <1>2 DEF Whole

\* Another program removes its line l.
LEMMA RemovedShapes ==
    ASSUME NEW s \in Seq(Plain), NEW b \in Seq(Inner), NEW u \in Seq(Plain), NEW l \in Other
    PROVE  LET S == Line \ {l}
           IN  /\ Only(s, S) \in Seq(Plain) /\ Only(u, S) \in Seq(Plain)
               /\ Only(b, S) \in Seq(Inner)
               /\ b \in Seq(Blocking) => Only(b, S) = b
               /\ Only(Opened(s, b), S) = Opened(Only(s, S), Only(b, S))
               /\ Only(Closed(s, b, u), S) = Closed(Only(s, S), Only(b, S), Only(u, S))
<1> DEFINE S == Line \ {l}
<1>1. l \in Plain /\ Begin \in S /\ End \in S /\ Blocking \subseteq S
  BY LineFacts
<1>2. Only(s, S) \in Seq(Plain) /\ Only(u, S) \in Seq(Plain) /\ Only(b, S) \in Seq(Inner)
  BY OnlyType
<1>3. b \in Seq(Blocking) => Only(b, S) = b
  BY <1>1, OnlyAll
<1> HIDE DEF S
<1>4. /\ Only(Opened(s, b), S) = Opened(Only(s, S), Only(b, S))
      /\ Only(Closed(s, b, u), S) = Closed(Only(s, S), Only(b, S), Only(u, S))
  BY <1>1, OnlyShapes
<1> QED
  BY <1>2, <1>3, <1>4 DEF S

Before(x, lines) == <<x>> \o lines

\* Another program adds a line, or the last line is cut off.
LEMMA AddedShapes ==
    ASSUME NEW s \in Seq(Plain), NEW b \in Seq(Inner), NEW u \in Seq(Plain), NEW x \in Plain
    PROVE  /\ Before(x, s) \in Seq(Plain) /\ Append(s, x) \in Seq(Plain)
           /\ Append(b, x) \in Seq(Inner) /\ Append(u, x) \in Seq(Plain)
           /\ Before(x, Opened(s, b)) = Opened(Before(x, s), b)
           /\ Append(Opened(s, b), x) = Opened(s, Append(b, x))
           /\ Before(x, Closed(s, b, u)) = Closed(Before(x, s), b, u)
           /\ Append(Closed(s, b, u), x) = Closed(s, b, Append(u, x))
<1> DEFINE p == Append(s, Begin)
           o == Opened(s, b)
           q == Append(o, End)
           one == <<x>>
<1>1. /\ s \in Seq(Line) /\ b \in Seq(Line) /\ u \in Seq(Line)
      /\ p \in Seq(Line) /\ o \in Seq(Line) /\ q \in Seq(Line)
  BY ShapeTypes
<1>2. x \in Line /\ x \in Inner /\ Begin \in Line /\ End \in Line
  BY LineFacts
<1>3. one \in Seq(Plain) /\ one \in Seq(Line)
  <2>1. \A X : \A y \in X : <<y>> \in Seq(X)
    OBVIOUS
  <2> QED
    BY <1>2, <2>1
<1>4. /\ one \o s \in Seq(Plain) /\ Append(s, x) \in Seq(Plain)
      /\ Append(b, x) \in Seq(Inner) /\ Append(u, x) \in Seq(Plain)
  BY <1>2, <1>3, ConcatProperties, AppendProperties
<1>5. /\ \A r, t, v \in Seq(Line) : (r \o t) \o v = r \o (t \o v)
      /\ \A t, v \in Seq(Line), y \in Line : t \o Append(v, y) = Append(t \o v, y)
  BY ConcatAssociative, ConcatAppend
<1> HIDE DEF one, Before
<1>6. one \o p = Append(one \o s, Begin)
  BY <1>1, <1>2, <1>3, <1>5
<1>7. one \o o = Opened(one \o s, b)
  <2>1. one \o (p \o b) = (one \o p) \o b
    BY <1>1, <1>3, <1>5
  <2> QED
    BY <1>6, <2>1 DEF Opened
<1>8. Append(o, x) = Opened(s, Append(b, x))
  <2>1. p \o Append(b, x) = Append(p \o b, x)
    BY <1>1, <1>2, <1>5
  <2> QED
    BY <2>1 DEF Opened
<1>9. one \o Closed(s, b, u) = Closed(one \o s, b, u)
  <2>1. one \o (q \o u) = (one \o q) \o u
    BY <1>1, <1>3, <1>5
  <2>2. one \o q = Append(one \o o, End)
    BY <1>1, <1>2, <1>3, <1>5
  <2> QED
    BY <1>7, <2>1, <2>2 DEF Closed
<1>10. Append(Closed(s, b, u), x) = Closed(s, b, Append(u, x))
  <2>1. q \o Append(u, x) = Append(q \o u, x)
    BY <1>1, <1>2, <1>5
  <2> QED
    BY <2>1 DEF Closed
<1> QED
  BY <1>4, <1>7, <1>8, <1>9, <1>10 DEF one, Before

LEMMA FormedRemoved ==
    ASSUME NEW c, NEW l \in Other
    PROVE  /\ Formed(c) => Formed(Only(c, Line \ {l}))
           /\ Whole(c) => Whole(Only(c, Line \ {l}))
<1> DEFINE S == Line \ {l}
<1>1. ASSUME c \in Seq(Plain) PROVE Only(c, S) \in Seq(Plain)
  BY <1>1, OnlyType
<1>2. ASSUME NEW s \in Seq(Plain), NEW b \in Seq(Inner), c = Opened(s, b)
      PROVE  Formed(Only(c, S))
  <2>1. Only(s, S) \in Seq(Plain) /\ Only(b, S) \in Seq(Inner)
    BY OnlyType
  <2>2. Only(c, S) = Opened(Only(s, S), Only(b, S))
    <3>1. <<>> \in Seq(Plain)
      BY EmptySeq
    <3> QED
      BY <1>2, <3>1, RemovedShapes
  <2> QED
    BY <2>1, <2>2 DEF Formed
<1>3. ASSUME NEW s \in Seq(Plain), NEW u \in Seq(Plain), NEW b \in Seq(Inner), c = Closed(s, b, u)
      PROVE  /\ Formed(Only(c, S))
             /\ b \in Seq(Blocking) => Whole(Only(c, S))
  <2>1. Only(s, S) \in Seq(Plain) /\ Only(b, S) \in Seq(Inner) /\ Only(u, S) \in Seq(Plain)
    BY OnlyType
  <2>2. Only(c, S) = Closed(Only(s, S), Only(b, S), Only(u, S))
    BY <1>3, RemovedShapes
  <2>3. b \in Seq(Blocking) => Only(b, S) \in Seq(Blocking)
    BY OnlyType
  <2> QED
    BY <2>1, <2>2, <2>3 DEF Formed, Whole
<1>4. Formed(c) => Formed(Only(c, S))
  <2> HIDE DEF S
  <2> QED
    BY <1>1, <1>2, <1>3 DEF Formed
<1>5. Whole(c) => Whole(Only(c, S))
  <2>1. Seq(Blocking) \subseteq Seq(Inner)
    BY SeqFacts
  <2> HIDE DEF S
  <2> QED
    BY <1>1, <1>3, <2>1 DEF Whole
<1> QED
  BY <1>4, <1>5

LEMMA FormedAdded ==
    ASSUME NEW c, NEW x \in Plain
    PROVE  /\ Formed(c) => Formed(Before(x, c)) /\ Formed(Append(c, x))
           /\ Whole(c) => Whole(Before(x, c)) /\ Whole(Append(c, x))
<1>0. <<>> \in Seq(Plain) /\ <<>> \in Seq(Inner)
  BY EmptySeq
<1>1. ASSUME c \in Seq(Plain) PROVE Before(x, c) \in Seq(Plain) /\ Append(c, x) \in Seq(Plain)
  BY <1>0, <1>1, AddedShapes
<1>2. ASSUME NEW s \in Seq(Plain), NEW b \in Seq(Inner), c = Opened(s, b)
      PROVE  Formed(Before(x, c)) /\ Formed(Append(c, x))
  <2>1. Before(x, s) \in Seq(Plain) /\ Append(b, x) \in Seq(Inner)
    BY <1>0, AddedShapes
  <2>2. Before(x, c) = Opened(Before(x, s), b) /\ Append(c, x) = Opened(s, Append(b, x))
    <3>1. /\ Before(x, Opened(s, b)) = Opened(Before(x, s), b)
          /\ Append(Opened(s, b), x) = Opened(s, Append(b, x))
      BY AddedShapes
    <3> QED
      BY <1>2, <3>1
  <2> QED
    BY <2>1, <2>2 DEF Formed
<1>3. ASSUME NEW s \in Seq(Plain), NEW u \in Seq(Plain), NEW b \in Seq(Inner), c = Closed(s, b, u)
      PROVE  /\ Formed(Before(x, c)) /\ Formed(Append(c, x))
             /\ b \in Seq(Blocking) => Whole(Before(x, c)) /\ Whole(Append(c, x))
  <2>1. Before(x, s) \in Seq(Plain) /\ Append(u, x) \in Seq(Plain)
    BY <1>0, AddedShapes
  <2>2. Before(x, c) = Closed(Before(x, s), b, u) /\ Append(c, x) = Closed(s, b, Append(u, x))
    <3>1. /\ Before(x, Closed(s, b, u)) = Closed(Before(x, s), b, u)
          /\ Append(Closed(s, b, u), x) = Closed(s, b, Append(u, x))
      BY AddedShapes
    <3> QED
      BY <1>3, <3>1
  <2> QED
    BY <2>1, <2>2 DEF Formed, Whole
<1>4. Formed(c) => Formed(Before(x, c)) /\ Formed(Append(c, x))
  BY <1>1, <1>2, <1>3 DEF Formed
<1>5. Whole(c) => Whole(Before(x, c)) /\ Whole(Append(c, x))
  <2>1. Seq(Blocking) \subseteq Seq(Inner)
    BY SeqFacts
  <2> QED
    BY <1>1, <1>3, <2>1 DEF Whole
<1> QED
  BY <1>4, <1>5

Starts(c) == {SubSeq(c, 1, n) : n \in 0 .. Len(c)}

\* The start of one part of a file after another
LEMMA StartOfConcat ==
    ASSUME NEW X, NEW s \in Seq(X), NEW t \in Seq(X), NEW r \in Starts(s \o t)
    PROVE  r \in Starts(s) \/ \E v \in Starts(t) : r = s \o v
<1> SUFFICES ASSUME NEW n \in 0 .. Len(s \o t)
             PROVE  \/ \E m \in 0 .. Len(s) : SubSeq(s \o t, 1, n) = SubSeq(s, 1, m)
                    \/ \E m \in 0 .. Len(t) : SubSeq(s \o t, 1, n) = s \o SubSeq(t, 1, m)
  BY DEF Starts
<1> DEFINE c == s \o t
<1>1. /\ Len(s) \in Nat /\ Len(t) \in Nat /\ Len(c) = Len(s) + Len(t) /\ c \in Seq(X)
      /\ \A i \in 1 .. Len(s) + Len(t) : c[i] = IF i <= Len(s) THEN s[i] ELSE t[i - Len(s)]
  BY LenProperties, ConcatProperties
<1>2. /\ \A i \in 1 .. Len(s) : s[i] \in X
      /\ \A i \in 1 .. Len(t) : t[i] \in X
      /\ \A i \in 1 .. Len(c) : c[i] \in X
  BY <1>1, ElementOfSeq
<1> HIDE DEF c
<1>3. /\ SubSeq(c, 1, n) \in Seq(X) /\ Len(SubSeq(c, 1, n)) = n
      /\ \A i \in 1 .. n : SubSeq(c, 1, n)[i] = c[i]
  <2>1. \A i \in 1 .. n : c[i] \in X
    BY <1>1, <1>2 DEF c
  <2>2. n \in Nat
    BY <1>1 DEF c
  <2> QED
    BY <2>1, <2>2, SubSeqProperties
<1>4. CASE n <= Len(s)
  <2>0. n \in 0 .. Len(s)
    BY <1>1, <1>4 DEF c
  <2>1. /\ SubSeq(s, 1, n) \in Seq(X) /\ Len(SubSeq(s, 1, n)) = n
        /\ \A i \in 1 .. n : SubSeq(s, 1, n)[i] = s[i]
    <3>1. \A i \in 1 .. n : s[i] \in X
      BY <1>1, <1>2, <2>0
    <3> QED
      BY <1>1, <2>0, <3>1, SubSeqProperties
  <2>2. \A i \in 1 .. n : SubSeq(c, 1, n)[i] = SubSeq(s, 1, n)[i]
    BY <1>1, <1>3, <2>0, <2>1
  <2>3. SubSeq(c, 1, n) = SubSeq(s, 1, n)
    BY <1>3, <2>1, <2>2, SeqEqual
  <2> QED
    BY <2>0, <2>3 DEF c
<1>5. CASE n > Len(s)
  <2> DEFINE m == n - Len(s)
             v == SubSeq(t, 1, m)
  <2>0. m \in 0 .. Len(t) /\ n \in Nat /\ n = Len(s) + m
    BY <1>1, <1>5 DEF c
  <2>1. v \in Seq(X) /\ Len(v) = m /\ \A i \in 1 .. m : v[i] = t[i]
    <3> HIDE DEF m
    <3>1. \A i \in 1 .. m : t[i] \in X
      BY <1>1, <1>2, <2>0
    <3> QED
      BY <1>1, <2>0, <3>1, SubSeqProperties
  <2> HIDE DEF m, v
  <2>2. /\ s \o v \in Seq(X) /\ Len(s \o v) = n
        /\ \A i \in 1 .. n : (s \o v)[i] = IF i <= Len(s) THEN s[i] ELSE v[i - Len(s)]
    BY <2>0, <2>1, ConcatProperties
  <2>3. ASSUME NEW i \in 1 .. n PROVE SubSeq(c, 1, n)[i] = (s \o v)[i]
    <3>1. CASE i <= Len(s)
      BY <1>1, <1>3, <2>0, <2>2, <3>1
    <3>2. CASE i > Len(s)
      <4>1. i - Len(s) \in 1 .. m
        BY <1>1, <2>0, <3>2
      <4>2. c[i] = t[i - Len(s)] /\ (s \o v)[i] = v[i - Len(s)]
        BY <1>1, <2>0, <2>2, <3>2
      <4> QED
        BY <1>3, <2>1, <4>1, <4>2
    <3>3. i <= Len(s) \/ i > Len(s)
      BY <1>1, <2>0
    <3> QED
      BY <3>1, <3>2, <3>3
  <2>4. SubSeq(c, 1, n) = s \o v
    BY <1>3, <2>2, <2>3, SeqEqual
  <2> QED
    BY <2>0, <2>4 DEF c, v
<1>6. n <= Len(s) \/ n > Len(s)
  BY <1>1 DEF c
<1> QED
  BY <1>4, <1>5, <1>6

LEMMA StartType ==
    ASSUME NEW X, NEW s \in Seq(X), NEW r \in Starts(s)
    PROVE  r \in Seq(X)
<1>1. PICK n \in 0 .. Len(s) : r = SubSeq(s, 1, n)
  BY DEF Starts
<1>2. n \in Nat /\ \A i \in 1 .. n : s[i] \in X
  BY LenProperties, ElementOfSeq
<1> QED
  BY <1>1, <1>2, SubSeqProperties

LEMMA StartOfAppend ==
    ASSUME NEW X, NEW s \in Seq(X), NEW x \in X, NEW r \in Starts(Append(s, x))
    PROVE  r = Append(s, x) \/ r \in Starts(s)
<1> DEFINE a == Append(s, x)
<1>1. PICK n \in 0 .. Len(a) : r = SubSeq(a, 1, n)
  BY DEF Starts
<1>2. /\ Len(s) \in Nat /\ Len(a) = Len(s) + 1 /\ n \in Nat
      /\ \A i \in 1 .. Len(s) : a[i] = s[i] /\ s[i] \in X
  BY LenProperties, AppendProperties, ElementOfSeq
<1>3. a \in Seq(X)
  BY AppendProperties
<1> HIDE DEF a
<1>4. CASE n = Len(s) + 1
  BY <1>1, <1>2, <1>3, <1>4, SubSeqFull DEF a
<1>5. CASE n <= Len(s)
  <2>1. \A i \in 1 .. n : a[i] = s[i] /\ s[i] \in X /\ a[i] \in X
    BY <1>2, <1>5
  <2>2. /\ SubSeq(s, 1, n) \in Seq(X) /\ Len(SubSeq(s, 1, n)) = n
        /\ \A i \in 1 .. n : SubSeq(s, 1, n)[i] = s[i]
    BY <1>2, <2>1, SubSeqProperties
  <2>3. /\ SubSeq(a, 1, n) \in Seq(X) /\ Len(SubSeq(a, 1, n)) = n
        /\ \A i \in 1 .. n : SubSeq(a, 1, n)[i] = a[i]
    BY <1>2, <2>1, SubSeqProperties
  <2>4. SubSeq(a, 1, n) = SubSeq(s, 1, n)
    BY <2>1, <2>2, <2>3, SeqEqual
  <2> QED
    BY <1>1, <1>2, <1>5, <2>4 DEF Starts
<1> QED
  BY <1>2, <1>4, <1>5

\* A write that ends half way leaves a file that can be.
LEMMA FormedStarts ==
    ASSUME NEW c, Formed(c), NEW r \in Starts(c)
    PROVE  Formed(r)
<1>0. <<>> \in Seq(Plain) /\ <<>> \in Seq(Inner) /\ Begin \in Line /\ End \in Line
  BY EmptySeq, LineFacts
<1>1. \A s, t \in Seq(Line) : \A v \in Starts(s \o t) :
          v \in Starts(s) \/ \E w \in Starts(t) : v = s \o w
  BY StartOfConcat
<1>2. ASSUME NEW s \in Seq(Plain), NEW v \in Starts(s)
      PROVE  Formed(v)
  BY StartType DEF Formed
<1>3. ASSUME NEW s \in Seq(Plain), NEW b \in Seq(Inner), NEW v \in Starts(Opened(s, b))
      PROVE  Formed(v)
  <2> DEFINE p == Append(s, Begin)
  <2>1. s \in Seq(Line) /\ b \in Seq(Line) /\ p \in Seq(Line)
    BY <1>0, ShapeTypes
  <2>2. ASSUME NEW t \in Starts(p) PROVE Formed(t)
    <3>1. CASE t = p
      <4>1. p = Opened(s, <<>>)
        BY <2>1, ConcatEmptySeq DEF Opened
      <4> QED
        BY <1>0, <3>1, <4>1 DEF Formed
    <3>2. CASE t \in Starts(s)
      BY <1>2, <3>2
    <3> QED
      BY <1>0, <2>1, <3>1, <3>2, StartOfAppend
  <2>3. ASSUME NEW t \in Starts(b) PROVE Formed(p \o t)
    BY StartType DEF Formed, Opened
  <2>4. v \in Starts(p \o b)
    BY DEF Opened
  <2> HIDE DEF p
  <2>5. v \in Starts(p) \/ \E t \in Starts(b) : v = p \o t
    BY <1>1, <2>1, <2>4
  <2> QED
    BY <2>2, <2>3, <2>5
<1>4. ASSUME NEW s \in Seq(Plain), NEW b \in Seq(Inner), NEW u \in Seq(Plain),
             NEW v \in Starts(Closed(s, b, u))
      PROVE  Formed(v)
  <2> DEFINE o == Opened(s, b)
             q == Append(o, End)
  <2>1. o \in Seq(Line) /\ u \in Seq(Line) /\ q \in Seq(Line)
    BY ShapeTypes
  <2>2. ASSUME NEW t \in Starts(q) PROVE Formed(t)
    <3>1. CASE t = q
      <4>1. q = Closed(s, b, <<>>)
        BY <2>1, ConcatEmptySeq DEF Closed
      <4> QED
        BY <1>0, <3>1, <4>1 DEF Formed
    <3>2. CASE t \in Starts(o)
      BY <1>3, <3>2
    <3> HIDE DEF o
    <3> QED
      BY <1>0, <2>1, <3>1, <3>2, StartOfAppend
  <2>3. ASSUME NEW t \in Starts(u) PROVE Formed(q \o t)
    BY StartType DEF Formed, Closed
  <2>4. v \in Starts(q \o u)
    BY DEF Closed
  <2> HIDE DEF o, q
  <2>5. v \in Starts(q) \/ \E t \in Starts(u) : v = q \o t
    BY <1>1, <2>1, <2>4
  <2> QED
    BY <2>2, <2>3, <2>5
<1> QED
  BY <1>2, <1>3, <1>4 DEF Formed

LEMMA TornFormed ==
    ASSUME NEW lines, Formed(lines), NEW c \in Torn(lines)
    PROVE  Formed(c)
<1>1. \A t \in Starts(lines) : Formed(t)
  BY FormedStarts
<1>2. \A t \in Starts(lines) : Formed(Append(t, CutOff))
  BY <1>1, FormedAdded, LineFacts
<1>3. c \in Starts(lines) \/ \E t \in Starts(lines) : c = Append(t, CutOff)
  BY DEF Torn, Starts
<1> QED
  BY <1>1, <1>2, <1>3
-----------------------------------------------------------------------------
(* The inductive invariant.                                                *)

\* c has one block, for the domains of w.
Lists(c, w) == \E s, u \in Seq(Plain) : c = Closed(s, BlockLines(w), u)

Intended(c) == IF enable THEN Lists(c, wanted) ELSE c \in Seq(Plain)

\* What was read before somebody edited the file may lack their line: Unmoved
\* is lost only with a mishap.
Unmoved(c) == Only(c, Other) = others

IInv ==
    /\ TypeOK
    /\ Formed(content)
    /\ ~mishap => Whole(content) /\ Unmoved(content)
    /\ pc = "write" => Intended(next)
    /\ pc = "write" /\ ~mishap => Unmoved(next)
    /\ Succeeded => Intended(content)

LEMMA ListsFacts ==
    ASSUME NEW c, NEW w \in SUBSET Domain, Lists(c, w)
    PROVE  Whole(c) /\ Formed(c) /\ c \in Seq(Line)
<1>1. Whole(c)
  BY BlockLinesFacts DEF Lists, Whole
<1> QED
  BY <1>1, WholeFormed, FormedStrips

LEMMA ListsEdited ==
    ASSUME NEW c, NEW w \in SUBSET Domain, Lists(c, w), NEW l \in Other
    PROVE  /\ Lists(Before(l, c), w) /\ Lists(Append(c, l), w)
           /\ Lists(Only(c, Line \ {l}), w)
<1> DEFINE b == BlockLines(w)
<1>1. b \in Seq(Blocking) /\ b \in Seq(Inner) /\ l \in Plain
  BY BlockLinesFacts, SeqFacts, LineFacts
<1> HIDE DEF b
<1>2. PICK s \in Seq(Plain), u \in Seq(Plain) : c = Closed(s, b, u)
  BY DEF Lists, b
<1>3. Before(l, c) = Closed(Before(l, s), b, u) /\ Before(l, s) \in Seq(Plain)
  <2>1. Before(l, Closed(s, b, u)) = Closed(Before(l, s), b, u) /\ Before(l, s) \in Seq(Plain)
    BY <1>1, AddedShapes
  <2> QED
    BY <1>2, <2>1
<1>4. Append(c, l) = Closed(s, b, Append(u, l)) /\ Append(u, l) \in Seq(Plain)
  <2>1. Append(Closed(s, b, u), l) = Closed(s, b, Append(u, l)) /\ Append(u, l) \in Seq(Plain)
    BY <1>1, AddedShapes
  <2> QED
    BY <1>2, <2>1
<1>5. /\ Only(c, Line \ {l}) = Closed(Only(s, Line \ {l}), b, Only(u, Line \ {l}))
      /\ Only(s, Line \ {l}) \in Seq(Plain) /\ Only(u, Line \ {l}) \in Seq(Plain)
  BY <1>1, <1>2, RemovedShapes
<1> QED
  BY <1>3, <1>4, <1>5 DEF Lists, b

\* Enable and Disable write what they are to, from any file that can be.
LEMMA ReadIntended ==
    ASSUME NEW c, Formed(c), NEW w \in SUBSET Domain
    PROVE  /\ StripBlock(c) \in Seq(Plain)
           /\ Lists(AddBlock(c, w), w)
           /\ Whole(c) => /\ Only(StripBlock(c), Other) = Only(c, Other)
                          /\ Only(AddBlock(c, w), Other) = Only(c, Other)
<1> DEFINE s == StripBlock(c)
           b == BlockLines(w)
<1>1. s \in Seq(Plain) /\ <<>> \in Seq(Plain)
  BY FormedStrips, EmptySeq
<1>2. AddBlock(c, w) = Closed(s, b, <<>>)
  BY <1>1, AddBlockShape
<1>3. b \in Seq(Blocking) /\ b \in Seq(Inner)
  BY BlockLinesFacts, SeqFacts
<1>4. Whole(c) => Only(s, Other) = Only(c, Other)
  BY WholeKeeps
<1> HIDE DEF s, b
<1>5. Lists(AddBlock(c, w), w)
  BY <1>1, <1>2 DEF Lists, b
<1>6. Only(Closed(s, b, <<>>), Other) = Only(s, Other)
  <2>1. Begin \notin Other /\ End \notin Other /\ Blocking \cap Other = {}
    BY LineFacts
  <2>2. Only(b, Other) = <<>> /\ Only(<<>>, Other) = <<>>
    BY <1>3, <2>1, OnlyNone, OnlyEmpty
  <2>3. Only(Closed(s, b, <<>>), Other) = (Only(s, Other) \o Only(b, Other)) \o Only(<<>>, Other)
    <3>1. \A u \in Seq(Plain) :
              Only(Closed(s, b, u), Other) = (Only(s, Other) \o Only(b, Other)) \o Only(u, Other)
      BY <1>1, <1>3, <2>1, OnlyShapes
    <3> QED
      BY <1>1, <3>1
  <2>4. Only(s, Other) \in Seq(Plain)
    BY <1>1, OnlyType
  <2>5. Only(s, Other) \o <<>> = Only(s, Other)
    BY <2>4, ConcatEmptySeq
  <2> QED
    BY <2>2, <2>3, <2>5
<1> QED
  BY <1>1, <1>2, <1>4, <1>5, <1>6 DEF s

LEMMA InitIInv ==
    ASSUME Init
    PROVE  IInv
<1> USE DEF Init
<1>1. <<>> \in Seq(Line) /\ <<>> \in Seq(Plain) /\ <<>> \in Seq(Other)
  BY EmptySeq
<1>2. TypeOK
  BY <1>1 DEF TypeOK
<1>3. Formed(content) /\ Whole(content)
  BY <1>1 DEF Formed, Whole
<1>4. Unmoved(content)
  BY OnlyEmpty DEF Unmoved
<1> QED
  BY <1>2, <1>3, <1>4 DEF IInv, Succeeded

\* Steps of the manager before it writes, and after
LEMMA QuietStep ==
    ASSUME IInv, Start \/ ReadFails \/ Finish
    PROVE  IInv'
<1> USE DEF IInv
<1>1. CASE Start
  <2>1. TypeOK'
    <3>1. wanted' \in SUBSET Domain /\ enable' \in BOOLEAN
      BY <1>1 DEF Start
    <3>2. spent' \in [{"run", "edit", "torn"} -> Nat]
      BY <1>1 DEF TypeOK, Start, Spend
    <3> QED
      BY <1>1, <3>1, <3>2 DEF TypeOK, Start
  <2> QED
    BY <1>1, <2>1 DEF Start, Unmoved, Succeeded
<1>2. CASE ReadFails
  <2>1. TypeOK'
    BY <1>2 DEF TypeOK, ReadFails
  <2> QED
    BY <1>2, <2>1 DEF ReadFails, Unmoved, Succeeded
<1>3. CASE Finish
  <2>1. TypeOK'
    BY <1>3, EmptySeq DEF TypeOK, Finish, Exit
  <2> QED
    BY <1>3, <2>1 DEF Finish, Exit, Unmoved, Succeeded
<1> QED
  BY <1>1, <1>2, <1>3

LEMMA ReadStep ==
    ASSUME IInv, Read
    PROVE  IInv'
<1> USE DEF IInv, Read
<1>1. /\ wanted \in SUBSET Domain /\ Formed(content) /\ result = "none"
      /\ enable \in BOOLEAN
  BY DEF TypeOK
<1>2. /\ StripBlock(content) \in Seq(Plain)
      /\ Lists(AddBlock(content, wanted), wanted)
      /\ Whole(content) => /\ Only(StripBlock(content), Other) = Only(content, Other)
                           /\ Only(AddBlock(content, wanted), Other) = Only(content, Other)
  BY <1>1, ReadIntended
<1>3. next' \in Seq(Line)
  <2>1. AddBlock(content, wanted) \in Seq(Line)
    BY <1>1, <1>2, ListsFacts
  <2>2. StripBlock(content) \in Seq(Line)
    BY <1>2, SeqFacts
  <2> QED
    BY <2>1, <2>2
<1>4. TypeOK'
  BY <1>3 DEF TypeOK
<1>5. Intended(next)'
  BY <1>2 DEF Intended
<1>6. ~mishap' => Unmoved(next)'
  BY <1>2 DEF Unmoved
<1> QED
  BY <1>4, <1>5, <1>6 DEF Unmoved, Succeeded

LEMMA WriteStep ==
    ASSUME IInv, Write
    PROVE  IInv'
<1> USE DEF IInv, Write
<1>1. TypeOK'
  BY DEF TypeOK
<1>2. Intended(next) /\ wanted \in SUBSET Domain
  BY DEF TypeOK
<1>3. Formed(next) /\ Whole(next)
  BY <1>2, ListsFacts DEF Intended, Formed, Whole
<1>4. Intended(content)'
  BY <1>2 DEF Intended
<1>5. ~mishap' => Unmoved(content)'
  BY DEF Unmoved
<1> QED
  BY <1>1, <1>3, <1>4, <1>5

LEMMA TornStep ==
    ASSUME IInv, WriteFails \/ Crash
    PROVE  IInv'
<1> USE DEF IInv
<1>1. TearWrite
  BY DEF WriteFails, Crash
<1>2. Intended(next) /\ wanted \in SUBSET Domain
  BY <1>1 DEF TypeOK, TearWrite
<1>3. Formed(next)
  BY <1>2, ListsFacts DEF Intended, Formed
<1>4. Formed(content') /\ content' \in Seq(Line)
  BY <1>1, <1>3, TornFormed, FormedStrips DEF TearWrite
<1>5. mishap' = TRUE /\ pc' \in {"done", "idle"} /\ result' # "ok"
  BY <1>1 DEF TearWrite, WriteFails, Crash, Exit
<1>6. TypeOK'
  <2>1. spent' \in [{"run", "edit", "torn"} -> Nat]
    BY <1>1 DEF TypeOK, TearWrite, Spend
  <2>2. CASE WriteFails
    BY <1>4, <1>5, <2>1, <2>2 DEF TypeOK, WriteFails
  <2>3. CASE Crash
    BY <1>4, <1>5, <2>1, <2>3, EmptySeq DEF TypeOK, Crash, Exit
  <2> QED
    BY <2>2, <2>3
<1> QED
  BY <1>4, <1>5, <1>6 DEF Succeeded

\* Another program edits the file: what was read is old now, what is there has
\* its shape.
LEMMA EditStep ==
    ASSUME IInv, NEW lines, NEW theirs, Edit(lines, theirs),
           Formed(lines), Whole(content) => Whole(lines),
           theirs \in Seq(Other), Unmoved(content) => Only(lines, Other) = theirs,
           Intended(content) => Intended(lines)
    PROVE  IInv'
<1> USE DEF IInv, Edit, run
<1>1. lines \in Seq(Line)
  BY FormedStrips
<1>2. TypeOK'
  BY <1>1 DEF TypeOK, Spend
<1>3. Formed(content)'
  BY DEF Formed
<1>4. ~mishap' => Whole(content)' /\ Unmoved(content)'
  BY DEF TypeOK, Unmoved
<1>5. pc' = "write" => Intended(next)' /\ mishap'
  BY DEF TypeOK, Intended
<1>6. Succeeded' => Intended(content)'
  BY DEF Succeeded, Intended
<1> QED
  BY <1>2, <1>3, <1>4, <1>5, <1>6

LEMMA AddLineStep ==
    ASSUME IInv, NEW l \in Other, AddLine(l)
    PROVE  IInv'
<1>1. /\ l \in Plain /\ others \in Seq(Other) /\ content \in Seq(Line) /\ Formed(content)
      /\ wanted \in SUBSET Domain /\ l \in Line
  BY LineFacts DEF IInv, TypeOK
<1>2. CASE Edit(Before(l, content), <<l>> \o others)
  <2>1. Formed(Before(l, content)) /\ (Whole(content) => Whole(Before(l, content)))
    BY <1>1, FormedAdded
  <2>2. <<l>> \in Seq(Other) /\ <<l>> \in Seq(Line)
    <3>1. \A X : \A y \in X : <<y>> \in Seq(X)
      OBVIOUS
    <3> QED
      BY <1>1, <3>1
  <2>3. <<l>> \o others \in Seq(Other)
    BY <1>1, <2>2, ConcatProperties
  <2>4. Only(Before(l, content), Other) = <<l>> \o Only(content, Other)
    <3>0. \A t, v \in Seq(Line) : Only(t \o v, Other) = Only(t, Other) \o Only(v, Other)
      BY OnlyConcat
    <3>1. Only(<<l>> \o content, Other) = Only(<<l>>, Other) \o Only(content, Other)
      BY <1>1, <2>2, <3>0
    <3>2. Only(<<l>>, Other) = <<l>>
      BY <2>2, OnlyAll
    <3> QED
      BY <3>1, <3>2 DEF Before
  <2>5. Intended(content) => Intended(Before(l, content))
    <3>1. content \in Seq(Plain) => Before(l, content) \in Seq(Plain)
      BY <1>1, AddedShapes, EmptySeq
    <3>2. Lists(content, wanted) => Lists(Before(l, content), wanted)
      BY <1>1, ListsEdited
    <3> QED
      BY <3>1, <3>2 DEF Intended
  <2> QED
    BY <1>2, <2>1, <2>3, <2>4, <2>5, EditStep DEF Unmoved
<1>3. CASE Edit(Append(content, l), Append(others, l))
  <2>1. Formed(Append(content, l)) /\ (Whole(content) => Whole(Append(content, l)))
    BY <1>1, FormedAdded
  <2>2. Append(others, l) \in Seq(Other)
    BY <1>1, AppendProperties
  <2>3. Only(Append(content, l), Other) = Append(Only(content, Other), l)
    BY <1>1, OnlyAppend
  <2>4. Intended(content) => Intended(Append(content, l))
    <3>1. content \in Seq(Plain) => Append(content, l) \in Seq(Plain)
      BY <1>1, AppendProperties
    <3>2. Lists(content, wanted) => Lists(Append(content, l), wanted)
      BY <1>1, ListsEdited
    <3> QED
      BY <3>1, <3>2 DEF Intended
  <2> QED
    BY <1>3, <2>1, <2>2, <2>3, <2>4, EditStep DEF Unmoved
<1> QED
  BY <1>2, <1>3 DEF AddLine, Before

LEMMA RemoveLineStep ==
    ASSUME IInv, NEW l \in Other, RemoveLine(l)
    PROVE  IInv'
<1> DEFINE S == Line \ {l}
<1>1. /\ others \in Seq(Other) /\ content \in Seq(Line) /\ Formed(content)
      /\ wanted \in SUBSET Domain
  BY DEF IInv, TypeOK
<1>2. Formed(Only(content, S)) /\ (Whole(content) => Whole(Only(content, S)))
  BY <1>1, FormedRemoved
<1>3. Only(others, S) \in Seq(Other)
  BY <1>1, OnlyType
<1>4. Only(Only(content, S), Other) = Only(Only(content, Other), S)
  BY <1>1, OnlyCommutes
<1>5. Intended(content) => Intended(Only(content, S))
  <2>1. content \in Seq(Plain) => Only(content, S) \in Seq(Plain)
    BY OnlyType
  <2>2. Lists(content, wanted) => Lists(Only(content, S), wanted)
    BY <1>1, ListsEdited
  <2> QED
    BY <2>1, <2>2 DEF Intended
<1>6. Edit(Only(content, S), Only(others, S))
  BY DEF RemoveLine
<1> HIDE DEF S
<1> QED
  BY <1>2, <1>3, <1>4, <1>5, <1>6, EditStep DEF Unmoved

LEMMA IInvStep ==
    ASSUME IInv, [Next]_vars
    PROVE  IInv'
<1>1. CASE Next
  BY <1>1, QuietStep, ReadStep, WriteStep, TornStep, AddLineStep, RemoveLineStep DEF Next
<1>2. CASE UNCHANGED vars
  BY <1>2 DEF vars, run, IInv, TypeOK, Formed, Whole, Unmoved, Intended, Lists, Succeeded
<1> QED
  BY <1>1, <1>2

\* The shape of the file, what a run is about to write and what a successful run
\* has left, in every behaviour (hosts.go Enable, Disable and other programs).
THEOREM Invariance == Spec => []IInv
<1>1. Init => IInv
  BY InitIInv
<1>2. IInv /\ [Next]_vars => IInv'
  BY IInvStep
<1> QED
  BY <1>1, <1>2, PTL DEF Spec
-----------------------------------------------------------------------------
(* What the runs check.                                                    *)

\* The variables keep their types.
THEOREM TypeCorrect == Spec => []TypeOK
<1>1. IInv => TypeOK
  BY DEF IInv
<1> QED
  BY <1>1, Invariance, PTL

\* After Enable the file has one block, and it lists exactly the wanted domains
\* (hosts.go AddBlock).
THEOREM EnabledExactHolds == Spec => []EnabledExact
<1>1. IInv => EnabledExact
  <2> SUFFICES ASSUME IInv, Succeeded, enable PROVE EnabledExact
    BY DEF EnabledExact
  <2>1. wanted \in SUBSET Domain /\ Lists(content, wanted)
    BY DEF IInv, TypeOK, Intended
  <2>2. BlockLines(wanted) \in Seq(Blocking) /\ In(BlockLines(wanted)) = Listing(wanted)
    BY <2>1, BlockLinesFacts
  <2>3. PICK s \in Seq(Plain), u \in Seq(Plain) : content = Closed(s, BlockLines(wanted), u)
    BY <2>1 DEF Lists
  <2>4. /\ In(content) \cap Blocking = Listing(wanted)
        /\ \E i \in DOMAIN content : \A j \in DOMAIN content : content[j] = Begin <=> j = i
        /\ Begin \in In(content)
    BY <2>2, <2>3, ClosedFacts
  <2> QED
    BY <2>4 DEF EnabledExact, HasBlock, Listing
<1> QED
  BY <1>1, Invariance, PTL

\* After Disable no domain is blocked and there is no block, so that what status
\* takes for one is a line of another program (hosts.go StripBlock, HasBlock).
THEOREM DisabledCleanHolds == Spec => []DisabledClean
<1>1. IInv => DisabledClean
  <2> SUFFICES ASSUME IInv, Succeeded, ~enable PROVE DisabledClean
    BY DEF DisabledClean
  <2>1. content \in Seq(Plain)
    BY DEF IInv, Intended
  <2>2. In(content) \subseteq Plain
    BY <2>1, RangeOfSeq DEF In, Range
  <2> QED
    BY <2>2, LineFacts DEF DisabledClean, HasBlock
<1> QED
  BY <1>1, Invariance, PTL

\* Until a mishap the lines of other programs are as they left them (hosts.go
\* StripBlock and AddBlock).
THEOREM OthersKeptHolds == Spec => []OthersKept
<1>1. IInv => OthersKept
  BY DEF IInv, OthersKept, Unmoved
<1> QED
  BY <1>1, Invariance, PTL
==============================================================================
