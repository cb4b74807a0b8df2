---- MODULE LiveRead_proofs ----
(***************************************************************************)
(* Proofs about LiveRead: what the engine holds of a file is the parse of    *)
(* its beginning; a read answers as one of the whole file would (LiveRead     *)
(* implements FullRead); after refreshPricing no read returns old prices.    *)
(*                                                                         *)
(* The first half is about the readers.  Full lists the objects of a file    *)
(* by their positions; the incremental reader finds them one symbol at a     *)
(* time.  They are brought together by EventsTo and ErrorsTo, what is to be   *)
(* found in the first n symbols: one more symbol adds at most one entry at   *)
(* the end.  The induction over the file is HasAll's, on the set of numbers   *)
(* of symbols after which the reader is right.                               *)
(*                                                                         *)
(* The second half is the inductive invariant ReadInv: what is kept in        *)
(* memory, in the cache and in the read under way is tied to the file as it  *)
(* is by its inode, its time and, for a file cut short, its size.  PriceInv   *)
(* is the one about prices.                                                  *)
(***************************************************************************)
EXTENDS LiveRead, WellFoundedInduction, SequenceTheorems, FiniteSetTheorems, TLAPS

\* A set of natural numbers has a least element.
LEMMA LeastExists == ASSUME NEW S \in SUBSET Nat, S # {}
                     PROVE  \E m \in S : \A k \in S : m <= k
<1>1. PICK m \in S : \A k \in S : ~ (<<k, m>> \in OpToRel(<, Nat))
  BY NatLessThanWellFounded, WFMin
<1>2. \A k \in S : ~(k < m)
  BY <1>1 DEF OpToRel
<1> QED BY <1>2

---------------------------------------------------------------------------
\* InOrder lists a set of positions from the first to the last.

Before(S, s) == {p \in S : p < s}

LEMMA BeforeIsFinite ==
    ASSUME NEW n \in Nat, NEW S \in SUBSET Nat, \A p \in S : p <= n, NEW s
    PROVE  /\ IsFiniteSet(S) /\ Cardinality(S) \in Nat
           /\ IsFiniteSet(Before(S, s)) /\ Cardinality(Before(S, s)) \in Nat
<1>1. IsFiniteSet(S)
  BY FS_BoundedSetOfNaturals
<1>2. Before(S, s) \in SUBSET S
  BY DEF Before
<1> QED BY <1>1, <1>2, FS_Subset, FS_CardinalityType

\* Later positions have more before them.
LEMMA MoreBefore ==
    ASSUME NEW n \in Nat, NEW S \in SUBSET Nat, \A p \in S : p <= n, NEW s \in S, NEW t \in S, s < t
    PROVE  Cardinality(Before(S, s)) < Cardinality(Before(S, t))
<1> DEFINE upToS == Before(S, s) \cup {s}
<1>1. IsFiniteSet(Before(S, s)) /\ IsFiniteSet(Before(S, t))
  BY BeforeIsFinite
<1>2. Cardinality(upToS) = Cardinality(Before(S, s)) + 1
  <2>1. s \notin Before(S, s)
    BY DEF Before
  <2> QED BY <1>1, <2>1, FS_AddElement
<1>3. upToS \in SUBSET Before(S, t)
  <2>1. \A p \in S : p < s => p < t
    OBVIOUS
  <2> QED BY <2>1 DEF Before
<1>4. Cardinality(upToS) <= Cardinality(Before(S, t))
  BY <1>1, <1>3, FS_Subset
<1>5. Cardinality(Before(S, s)) \in Nat /\ Cardinality(Before(S, t)) \in Nat
  BY BeforeIsFinite
<1> HIDE DEF upToS
<1> QED BY <1>2, <1>4, <1>5

\* The i-th position, which InOrder chooses, exists.
LEMMA RankExists ==
    ASSUME NEW n \in Nat, NEW S \in SUBSET Nat, \A p \in S : p <= n, NEW i \in 1..Cardinality(S)
    PROVE  \E s \in S : Cardinality(Before(S, s)) = i - 1
<1> DEFINE Enough == {k \in Nat : Cardinality(Before(S, k)) >= i}
<1>1. Before(S, n + 1) = S
  <2>1. \A p \in S : p < n + 1
    OBVIOUS
  <2> QED BY <2>1 DEF Before
<1>2. n + 1 \in Enough
  BY <1>1, BeforeIsFinite
<1>3. PICK k \in Enough : \A j \in Enough : k <= j
  <2>1. Enough \in SUBSET Nat
    OBVIOUS
  <2> HIDE DEF Enough
  <2> QED BY <1>2, <2>1, LeastExists
<1>4. k \in Nat /\ Cardinality(Before(S, k)) >= i
  BY <1>3
<1>5. k # 0
  <2> SUFFICES ASSUME k = 0 PROVE FALSE
    OBVIOUS
  <2>1. Before(S, k) = {}
    <3>1. \A p \in S : ~(p < 0)
      OBVIOUS
    <3> QED BY <3>1 DEF Before
  <2>2. Cardinality(Before(S, k)) = 0
    BY <2>1, FS_EmptySet
  <2> QED BY <1>4, <2>2
<1>6. k - 1 \in Nat /\ ~(Cardinality(Before(S, k - 1)) >= i)
  <2>1. k - 1 \in Nat /\ ~(k <= k - 1)
    BY <1>4, <1>5
  <2>2. k - 1 \notin Enough
    BY <1>3, <2>1
  <2> QED BY <2>1, <2>2
<1> HIDE DEF Enough
<1>7. Before(S, k) = IF k - 1 \in S THEN Before(S, k - 1) \cup {k - 1} ELSE Before(S, k - 1)
  <2>1. \A p \in S : p < k <=> (p < k - 1 \/ p = k - 1)
    BY <1>4
  <2> QED BY <2>1 DEF Before
<1>8. k - 1 \in S
  BY <1>4, <1>6, <1>7
<1>9. Cardinality(Before(S, k)) = Cardinality(Before(S, k - 1)) + 1
  <2>1. k - 1 \notin Before(S, k - 1)
    BY <1>6 DEF Before
  <2>2. IsFiniteSet(Before(S, k - 1))
    BY BeforeIsFinite
  <2> QED BY <1>7, <1>8, <2>1, <2>2, FS_AddElement
<1>10. Cardinality(Before(S, k - 1)) \in Nat /\ Cardinality(S) \in Nat
  BY BeforeIsFinite
<1> QED BY <1>4, <1>6, <1>8, <1>9, <1>10

LEMMA InOrderHas ==
    ASSUME NEW n \in Nat, NEW S \in SUBSET Nat, \A p \in S : p <= n, NEW i \in 1..Cardinality(S)
    PROVE  InOrder(S)[i] \in S /\ Cardinality(Before(S, InOrder(S)[i])) = i - 1
<1>1. \E s \in S : Cardinality({p \in S : p < s}) = i - 1
  BY RankExists DEF Before
<1>2. InOrder(S)[i] = CHOOSE s \in S : Cardinality({p \in S : p < s}) = i - 1
  BY DEF InOrder
<1> QED BY <1>1, <1>2 DEF Before

LEMMA InOrderIs ==
    ASSUME NEW n \in Nat, NEW S \in SUBSET Nat, \A p \in S : p <= n, NEW i \in 1..Cardinality(S),
           NEW s \in S, Cardinality(Before(S, s)) = i - 1
    PROVE  InOrder(S)[i] = s
<1> DEFINE t == InOrder(S)[i]
<1>1. t \in S /\ Cardinality(Before(S, t)) = i - 1
  BY InOrderHas
<1> HIDE DEF t
<1>2. ~(s < t) /\ ~(t < s)
  <2>1. Cardinality(Before(S, s)) \in Nat
    BY BeforeIsFinite
  <2>2. ~(Cardinality(Before(S, s)) < Cardinality(Before(S, t)))
        /\ ~(Cardinality(Before(S, t)) < Cardinality(Before(S, s)))
    BY <1>1, <2>1
  <2> QED BY <1>1, <2>2, MoreBefore
<1>3. s \in Nat /\ t \in Nat
  BY <1>1
<1>4. t = s
  BY <1>2, <1>3
<1> QED BY <1>4 DEF t

\* A position after all others comes last.
LEMMA InOrderAdd ==
    ASSUME NEW n \in Nat, NEW S \in SUBSET Nat, \A p \in S : p <= n, NEW m \in Nat, m <= n, \A s \in S : s < m
    PROVE  /\ Cardinality(S \cup {m}) = Cardinality(S) + 1 /\ Cardinality(S) \in Nat
           /\ \A i \in 1..Cardinality(S) : InOrder(S \cup {m})[i] = InOrder(S)[i]
           /\ InOrder(S \cup {m})[Cardinality(S) + 1] = m
<1> DEFINE T == S \cup {m}
<1>1. T \in SUBSET Nat /\ (\A p \in T : p <= n) /\ m \notin S
  OBVIOUS
<1>2. Cardinality(T) = Cardinality(S) + 1 /\ Cardinality(S) \in Nat
  BY <1>1, FS_AddElement, BeforeIsFinite
<1>3. ASSUME NEW i \in 1..Cardinality(S) PROVE InOrder(T)[i] = InOrder(S)[i]
  <2> DEFINE s == InOrder(S)[i]
  <2>1. s \in S /\ Cardinality(Before(S, s)) = i - 1
    BY InOrderHas
  <2> HIDE DEF s
  <2>2. Before(T, s) = Before(S, s)
    <3>1. ~(m < s)
      BY <2>1
    <3> QED BY <3>1 DEF Before
  <2>3. i \in 1..Cardinality(T) /\ s \in T
    BY <1>2, <2>1
  <2>4. InOrder(T)[i] = s
    <3> HIDE DEF T
    <3> QED BY <1>1, <2>1, <2>2, <2>3, InOrderIs
  <2> QED BY <2>4 DEF s
<1>4. InOrder(T)[Cardinality(S) + 1] = m
  <2>1. Before(T, m) = S
    <3>1. ~(m < m)
      OBVIOUS
    <3> QED BY <3>1 DEF Before
  <2>2. m \in T /\ Cardinality(S) + 1 \in 1..Cardinality(T) /\ (Cardinality(S) + 1) - 1 = Cardinality(S)
    BY <1>2
  <2> HIDE DEF T
  <2> QED BY <1>1, <2>1, <2>2, InOrderIs
<1> QED BY <1>2, <1>3, <1>4

\* Induction: a set that has 0 and the successor of each of its elements.
LEMMA HasAll == ASSUME NEW n \in Nat, NEW S, 0 \in S, \A k \in 0..(n - 1) : k \in S => k + 1 \in S
                PROVE  0..n \subseteq S
<1> DEFINE Missing == {k \in 0..n : k \notin S}
<1> SUFFICES ASSUME Missing # {} PROVE FALSE
  OBVIOUS
<1>1. PICK m \in Missing : \A k \in Missing : m <= k
  <2>1. Missing \in SUBSET Nat
    OBVIOUS
  <2> HIDE DEF Missing
  <2> QED BY <2>1, LeastExists
<1>2. m # 0 /\ m - 1 \in 0..(n - 1) /\ m - 1 \notin Missing
  BY <1>1
<1>3. (m - 1) + 1 \in S
  BY <1>2
<1>4. (m - 1) + 1 = m
  BY <1>1
<1> QED BY <1>1, <1>3, <1>4


\* A chain of n steps from a, each a function of where the last one led.
Chain(f, S, a, g, n) == f \in [0..n -> S] /\ f[0] = a /\ \A i \in 1..n : f[i] = g[i][f[i - 1]]

LEMMA ChainExists ==
    ASSUME NEW S, NEW a \in S, NEW n \in Nat, NEW g, \A k \in 1..n : \A x \in S : g[k][x] \in S
    PROVE  \E f : Chain(f, S, a, g, n)
<1> DEFINE Reached == {k \in 0..n : \E f : Chain(f, S, a, g, k)}
<1>1. 0 \in Reached
  <2>1. Chain([k \in 0..0 |-> a], S, a, g, 0)
    BY DEF Chain
  <2> QED BY <2>1
<1>2. ASSUME NEW k \in 0..(n - 1), k \in Reached PROVE k + 1 \in Reached
  <2>1. PICK f : Chain(f, S, a, g, k)
    BY <1>2
  <2> DEFINE h == [i \in 0..(k + 1) |-> IF i = k + 1 THEN g[k + 1][f[k]] ELSE f[i]]
  <2>2. f \in [0..k -> S] /\ f[0] = a /\ \A i \in 1..k : f[i] = g[i][f[i - 1]]
    BY <2>1 DEF Chain
  <2>3. g[k + 1][f[k]] \in S
    BY <2>2
  <2>4. h \in [0..(k + 1) -> S] /\ h[0] = a
    BY <2>2, <2>3
  <2>5. ASSUME NEW i \in 1..(k + 1) PROVE h[i] = g[i][h[i - 1]]
    <3>1. i - 1 \in 0..k /\ h[i - 1] = f[i - 1]
      OBVIOUS
    <3> QED BY <2>2, <3>1
  <2>6. Chain(h, S, a, g, k + 1)
    <3> HIDE DEF h
    <3> QED BY <2>4, <2>5 DEF Chain
  <2>7. k + 1 \in 0..n
    OBVIOUS
  <2> QED BY <2>6, <2>7
<1> HIDE DEF Reached
<1>3. 0..n \subseteq Reached
  BY <1>1, <1>2, HasAll
<1>4. n \in Reached
  BY <1>3
<1> QED BY <1>4 DEF Reached

---------------------------------------------------------------------------
\* What another program can have written: a line is an object, perhaps without
\* its closing brace, or blank.

Symbols == Heads \cup {End, NL}

WellFormed(c) ==
    /\ c \in Seq(Symbols)
    /\ \A i \in 1..Len(c) : /\ c[i] = End => i > 1 /\ c[i - 1] \in Heads
                            /\ c[i] \in Heads => i = 1 \/ c[i - 1] = NL

LEMMA SymbolsDiffer == NL \notin Heads /\ End \notin Heads /\ NL # End
<1>1. \A h \in Heads : h[1] \in {"turn", "native", "meta"}
  BY DEF Heads, Turn, Native
<1>2. NL[1] = "nl" /\ End[1] = "end"
  BY DEF NL, End
<1> QED BY <1>1, <1>2

LEMMA SymbolAt == ASSUME NEW c, WellFormed(c), NEW i \in 1..Len(c)
                  PROVE  /\ Len(c) \in Nat /\ DOMAIN c = 1..Len(c)
                         /\ c[i] \in Heads \/ c[i] = End \/ c[i] = NL
<1>1. c \in Seq(Symbols)
  BY DEF WellFormed
<1>2. c[i] \in Symbols
  BY <1>1, ElementOfSeq
<1> QED BY <1>1, <1>2, LenProperties DEF Symbols

LEMMA LineEndIs ==
    ASSUME NEW c, Len(c) \in Nat, NEW s \in Nat, NEW e \in s..(Len(c) + 1),
           e = Len(c) + 1 \/ c[e] = NL, \A i \in s..(e - 1) : c[i] # NL
    PROVE  LineEnd(c, s) = e
<1> DEFINE Ends(k) == /\ k = Len(c) + 1 \/ c[k] = NL
                      /\ \A i \in s..(k - 1) : c[i] # NL
<1>1. Ends(e)
  OBVIOUS
<1>2. ASSUME NEW k \in s..(Len(c) + 1), Ends(k) PROVE k = e
  <2>1. CASE k < e
    <3>1. k \in s..(e - 1) /\ k # Len(c) + 1
      BY <2>1
    <3> QED BY <1>2, <3>1
  <2>2. CASE e < k
    <3>1. e \in s..(k - 1) /\ e # Len(c) + 1
      BY <2>2
    <3> QED BY <1>2, <3>1
  <2> QED BY <2>1, <2>2
<1>3. LineEnd(c, s) = CHOOSE k \in s..(Len(c) + 1) : Ends(k)
  BY DEF LineEnd
<1> HIDE DEF Ends
<1> QED BY <1>1, <1>2, <1>3

\* The text of a line.
LEMMA LineAtIs ==
    ASSUME NEW c, WellFormed(c), NEW s \in 1..(Len(c) + 1), NEW e \in s..(Len(c) + 1), LineEnd(c, s) = e
    PROVE  /\ Len(LineAt(c, s)) = e - s
           /\ \A i \in 1..(e - s) : LineAt(c, s)[i] = c[s + i - 1]
<1>1. c \in Seq(Symbols) /\ Len(c) \in Nat
  BY LenProperties DEF WellFormed
<1>2. \A i \in s..(e - 1) : c[i] \in Symbols
  BY <1>1, ElementOfSeq
<1>3. s \in Int /\ e - 1 \in Int /\ (e - 1) - s + 1 = e - s
  BY <1>1
<1>4. LineAt(c, s) = SubSeq(c, s, e - 1)
  BY DEF LineAt
<1>5. /\ Len(SubSeq(c, s, e - 1)) = IF s <= e - 1 THEN (e - 1) - s + 1 ELSE 0
      /\ \A i \in 1..((e - 1) - s + 1) : SubSeq(c, s, e - 1)[i] = c[s + i - 1]
  BY <1>2, <1>3, SubSeqProperties
<1> QED BY <1>1, <1>3, <1>4, <1>5

\* Every line has one of five shapes.
Blank(c, s) == LineEnd(c, s) = s /\ (s = Len(c) + 1 \/ c[s] = NL)
Unfinished(c, s) == s = Len(c) /\ c[s] \in Heads /\ LineEnd(c, s) = s + 1
CutShort(c, s) == s < Len(c) /\ c[s] \in Heads /\ c[s + 1] = NL /\ LineEnd(c, s) = s + 1
Object(c, s) == s < Len(c) /\ c[s] \in Heads /\ c[s + 1] = End /\ LineEnd(c, s) = s + 2

LEMMA LineShapes ==
    ASSUME NEW c, WellFormed(c), NEW s \in LineStarts(c)
    PROVE  s \in 1..(Len(c) + 1) /\ (Blank(c, s) \/ Unfinished(c, s) \/ CutShort(c, s) \/ Object(c, s))
<1>1. Len(c) \in Nat
  BY LenProperties DEF WellFormed
<1>2. s \in 1..(Len(c) + 1) /\ (s = 1 \/ c[s - 1] = NL)
  BY <1>1 DEF LineStarts
<1>3. CASE s = Len(c) + 1 \/ c[s] = NL
  <2>1. LineEnd(c, s) = s
    BY <1>1, <1>2, <1>3, LineEndIs
  <2> QED BY <1>2, <1>3, <2>1 DEF Blank
<1>4. CASE s # Len(c) + 1 /\ c[s] # NL
  <2>1. s \in 1..Len(c)
    BY <1>1, <1>2, <1>4
  <2>2. c[s] # End
    <3> SUFFICES ASSUME c[s] = End PROVE FALSE
      OBVIOUS
    <3>1. s > 1 /\ c[s - 1] \in Heads
      BY <2>1 DEF WellFormed
    <3> QED BY <1>2, <3>1, SymbolsDiffer
  <2>3. c[s] \in Heads
    BY <1>4, <2>1, <2>2, SymbolAt
  <2>4. CASE s = Len(c)
    <3>1. LineEnd(c, s) = s + 1
      BY <1>1, <1>4, <2>1, <2>4, LineEndIs
    <3> QED BY <1>2, <2>3, <2>4, <3>1 DEF Unfinished
  <2>5. CASE s # Len(c)
    <3>1. s + 1 \in 1..Len(c) /\ s < Len(c) /\ (s + 1) - 1 = s
      BY <1>1, <2>1, <2>5
    <3>2. c[s + 1] \notin Heads
      <4> SUFFICES ASSUME c[s + 1] \in Heads PROVE FALSE
        OBVIOUS
      <4>1. s + 1 = 1 \/ c[(s + 1) - 1] = NL
        BY <3>1 DEF WellFormed
      <4> QED BY <1>4, <2>1, <3>1, <4>1
    <3>3. CASE c[s + 1] = NL
      <4>1. LineEnd(c, s) = s + 1
        BY <1>1, <1>4, <2>1, <3>1, <3>3, LineEndIs
      <4> QED BY <1>2, <2>3, <3>1, <3>3, <4>1 DEF CutShort
    <3>4. CASE c[s + 1] = End
      <4>1. s + 2 = Len(c) + 1 \/ c[s + 2] = NL
        <5> SUFFICES ASSUME s + 2 # Len(c) + 1 PROVE c[s + 2] = NL
          OBVIOUS
        <5>1. s + 2 \in 1..Len(c) /\ (s + 2) - 1 = s + 1 /\ s + 2 # 1
          BY <1>1, <3>1
        <5>2. c[s + 2] # End /\ c[s + 2] \notin Heads
          <6>1. /\ c[s + 2] = End => c[(s + 2) - 1] \in Heads
                /\ c[s + 2] \in Heads => c[(s + 2) - 1] = NL
            BY <5>1 DEF WellFormed
          <6>2. c[(s + 2) - 1] = End
            BY <3>4, <5>1
          <6> QED BY <6>1, <6>2, SymbolsDiffer
        <5> QED BY <5>1, <5>2, SymbolAt
      <4>2. \A i \in s..(s + 1) : c[i] # NL
        <5>1. \A i \in s..(s + 1) : i = s \/ i = s + 1
          BY <2>1
        <5> QED BY <1>4, <3>4, <5>1, SymbolsDiffer
      <4>3. s + 2 \in s..(Len(c) + 1) /\ (s + 2) - 1 = s + 1 /\ s \in Nat
        BY <1>1, <3>1
      <4>4. LineEnd(c, s) = s + 2
        BY <1>1, <4>1, <4>2, <4>3, LineEndIs
      <4> QED BY <1>2, <2>3, <3>1, <3>4, <4>4 DEF Object
    <3> QED BY <3>1, <3>2, <3>3, <3>4, SymbolAt
  <2> QED BY <2>4, <2>5
<1> QED BY <1>3, <1>4

\* The objects begun and closed, and the lines cut short by a newline, in the
\* first n symbols.
Objects(c, n) == {s \in 1..(n - 1) : c[s + 1] = End}
Cuts(c, n) == {s \in 1..(n - 1) : c[s] \in Heads /\ c[s + 1] = NL}

LEMMA StartsAreStarts ==
    ASSUME NEW c, WellFormed(c), NEW s \in 1..Len(c), c[s] \in Heads
    PROVE  s \in LineStarts(c)
<1>1. s = 1 \/ (c[s - 1] = NL /\ s - 1 \in 1..Len(c) /\ s = (s - 1) + 1)
  <2>1. s = 1 \/ c[s - 1] = NL
    BY DEF WellFormed
  <2> QED BY <2>1, SymbolAt
<1> QED BY <1>1 DEF LineStarts

LEMMA ValidIs ==
    ASSUME NEW c, WellFormed(c), NEW s \in LineStarts(c)
    PROVE  Valid(LineAt(c, s)) <=> s \in Objects(c, Len(c))
<1> DEFINE e == LineEnd(c, s)
           line == LineAt(c, s)
<1>1. s \in 1..(Len(c) + 1) /\ (Blank(c, s) \/ Unfinished(c, s) \/ CutShort(c, s) \/ Object(c, s))
  BY LineShapes
<1>2. Len(c) \in Nat
  BY LenProperties DEF WellFormed
<1>3. e \in s..(Len(c) + 1)
  BY <1>1, <1>2 DEF Blank, Unfinished, CutShort, Object
<1>4. Len(line) = e - s /\ \A i \in 1..(e - s) : line[i] = c[s + i - 1]
  BY <1>1, <1>3, LineAtIs
<1>5. CASE Blank(c, s) \/ Unfinished(c, s) \/ CutShort(c, s)
  <2>1. Len(line) # 2
    BY <1>1, <1>4, <1>5 DEF Blank, Unfinished, CutShort
  <2>2. s \notin Objects(c, Len(c))
    <3>1. CASE Blank(c, s)
      <4> SUFFICES ASSUME s \in 1..(Len(c) - 1), c[s + 1] = End PROVE FALSE
        BY DEF Objects
      <4>1. s + 1 \in 1..Len(c) /\ (s + 1) - 1 = s
        BY <1>2
      <4>2. c[s] \in Heads
        <5>1. c[(s + 1) - 1] \in Heads
          BY <4>1 DEF WellFormed
        <5> QED BY <4>1, <5>1
      <4>3. c[s] = NL
        BY <1>2, <3>1 DEF Blank
      <4> QED BY <4>2, <4>3, SymbolsDiffer
    <3>2. CASE Unfinished(c, s)
      BY <1>2, <3>2 DEF Objects, Unfinished
    <3>3. CASE CutShort(c, s)
      BY <3>3, SymbolsDiffer DEF Objects, CutShort
    <3> QED BY <1>5, <3>1, <3>2, <3>3
  <2> HIDE DEF line
  <2>3. ~Valid(line)
    BY <2>1 DEF Valid
  <2> QED BY <2>2, <2>3 DEF line
<1>6. CASE Object(c, s)
  <2>1. e - s = 2 /\ s + 1 - 1 = s /\ s + 2 - 1 = s + 1
    BY <1>1, <1>2, <1>6 DEF Object
  <2>2. Len(line) = 2 /\ line[1] = c[s] /\ line[2] = c[s + 1]
    BY <1>4, <2>1
  <2>3. c[s] \in Heads /\ c[s + 1] = End
    BY <1>6 DEF Object
  <2> HIDE DEF line
  <2>4. Valid(line)
    BY <2>2, <2>3, SymbolsDiffer DEF Valid
  <2>5. s \in Objects(c, Len(c))
    BY <1>1, <1>2, <1>6 DEF Object, Objects
  <2> QED BY <2>4, <2>5 DEF line
<1> QED BY <1>1, <1>5, <1>6

LEMMA ValidLinesAre == ASSUME NEW c, WellFormed(c) PROVE ValidLines(c) = Objects(c, Len(c))
<1>1. Len(c) \in Nat
  BY LenProperties DEF WellFormed
<1>2. Objects(c, Len(c)) \subseteq LineStarts(c)
  <2> SUFFICES ASSUME NEW s \in 1..(Len(c) - 1), c[s + 1] = End PROVE s \in LineStarts(c)
    BY DEF Objects
  <2>1. s + 1 \in 1..Len(c) /\ (s + 1) - 1 = s /\ s \in 1..Len(c)
    BY <1>1
  <2>2. c[s] \in Heads
    <3>1. c[(s + 1) - 1] \in Heads
      BY <2>1 DEF WellFormed
    <3> QED BY <2>1, <3>1
  <2> QED BY <2>1, <2>2, StartsAreStarts
<1>3. \A s \in LineStarts(c) : Valid(LineAt(c, s)) <=> s \in Objects(c, Len(c))
  BY ValidIs
<1> QED BY <1>2, <1>3 DEF ValidLines

LEMMA WrongLinesAre == ASSUME NEW c, WellFormed(c) PROVE WrongLines(c) = Cuts(c, Len(c))
<1>1. Len(c) \in Nat
  BY LenProperties DEF WellFormed
<1>2. Cuts(c, Len(c)) \subseteq LineStarts(c)
  BY <1>1, StartsAreStarts DEF Cuts
<1>3. ASSUME NEW s \in LineStarts(c)
      PROVE  (LineEnd(c, s) <= Len(c) /\ LineAt(c, s) # <<>> /\ ~Valid(LineAt(c, s))) <=> s \in Cuts(c, Len(c))
  <2> DEFINE e == LineEnd(c, s)
             line == LineAt(c, s)
  <2>1. s \in 1..(Len(c) + 1) /\ (Blank(c, s) \/ Unfinished(c, s) \/ CutShort(c, s) \/ Object(c, s))
    BY LineShapes
  <2>2. e \in s..(Len(c) + 1)
    BY <1>1, <2>1 DEF Blank, Unfinished, CutShort, Object
  <2>3. Len(line) = e - s
    BY <2>1, <2>2, LineAtIs
  <2>4. CASE Blank(c, s)
    <3>1. Len(line) = 0
      BY <2>1, <2>3, <2>4 DEF Blank
    <3>2. line = <<>>
      <4>1. line \in Seq(Symbols)
        <5>1. \A i \in s..(e - 1) : c[i] \in Symbols
          BY <2>1, <2>2, <2>4 DEF Blank
        <5>2. s \in Int /\ e - 1 \in Int
          BY <2>1, <2>2
        <5>3. SubSeq(c, s, e - 1) \in Seq(Symbols)
          BY <5>1, <5>2, SubSeqProperties
        <5> QED BY <5>3 DEF LineAt
      <4> HIDE DEF line
      <4> QED BY <3>1, <4>1, EmptySeq
    <3>3. s \notin Cuts(c, Len(c))
      BY <1>1, <2>4, SymbolsDiffer DEF Blank, Cuts
    <3> QED BY <3>2, <3>3
  <2>5. CASE Unfinished(c, s)
    BY <1>1, <2>5 DEF Unfinished, Cuts
  <2>6. CASE CutShort(c, s)
    <3>1. e <= Len(c) /\ Len(line) = 1 /\ s \in Cuts(c, Len(c))
      BY <1>1, <2>1, <2>3, <2>6 DEF CutShort, Cuts
    <3> HIDE DEF line
    <3>2. line # <<>> /\ ~Valid(line)
      BY <3>1 DEF Valid
    <3> QED BY <3>1, <3>2 DEF line
  <2>7. CASE Object(c, s)
    <3>1. s \in Objects(c, Len(c))
      BY <1>1, <2>1, <2>7 DEF Object, Objects
    <3>2. Valid(line)
      BY <3>1, ValidIs
    <3>3. s \notin Cuts(c, Len(c))
      BY <2>7, SymbolsDiffer DEF Object, Cuts
    <3> QED BY <3>2, <3>3
  <2> QED BY <2>1, <2>4, <2>5, <2>6, <2>7
<1> QED BY <1>2, <1>3 DEF WrongLines

\* The events and the errors of the first n symbols.
EventsTo(c, n) == [i \in DOMAIN InOrder(Objects(c, n)) |-> c[InOrder(Objects(c, n))[i]]]
ErrorsTo(c, n) == [i \in DOMAIN InOrder(Cuts(c, n)) |-> InOrder(Cuts(c, n))[i] - 1]

LEMMA FullIs ==
    ASSUME NEW c, WellFormed(c)
    PROVE  /\ Full(c) = [events |-> EventsTo(c, Len(c)), errors |-> ErrorsTo(c, Len(c)),
                         ledger |-> LedgerOf(EventsTo(c, Len(c)))]
           /\ Full(c).events = EventsTo(c, Len(c)) /\ Full(c).errors = ErrorsTo(c, Len(c))
<1>1. Full(c) = [events |-> EventsTo(c, Len(c)), errors |-> ErrorsTo(c, Len(c)),
                 ledger |-> LedgerOf(EventsTo(c, Len(c)))]
  BY ValidLinesAre, WrongLinesAre DEF Full, EventsTo, ErrorsTo
<1> QED BY <1>1

LEMMA PositionsBounded ==
    ASSUME NEW c, NEW n \in Nat
    PROVE  /\ Objects(c, n) \in SUBSET Nat /\ \A p \in Objects(c, n) : p <= n
           /\ Cuts(c, n) \in SUBSET Nat /\ \A p \in Cuts(c, n) : p <= n
  BY DEF Objects, Cuts

\* Only what comes first matters.
LEMMA SamePrefix ==
    ASSUME NEW c, NEW d, NEW n \in Nat, \A i \in 1..n : c[i] = d[i]
    PROVE  EventsTo(c, n) = EventsTo(d, n) /\ ErrorsTo(c, n) = ErrorsTo(d, n)
<1>1. \A s \in 1..(n - 1) : c[s] = d[s] /\ c[s + 1] = d[s + 1]
  OBVIOUS
<1>2. Objects(c, n) = Objects(d, n) /\ Cuts(c, n) = Cuts(d, n)
  BY <1>1 DEF Objects, Cuts
<1>3. DOMAIN InOrder(Objects(d, n)) = 1..Cardinality(Objects(d, n))
  BY DEF InOrder
<1>4. \A i \in DOMAIN InOrder(Objects(d, n)) :
          c[InOrder(Objects(d, n))[i]] = d[InOrder(Objects(d, n))[i]]
  <2> SUFFICES ASSUME NEW i \in 1..Cardinality(Objects(d, n))
               PROVE  c[InOrder(Objects(d, n))[i]] = d[InOrder(Objects(d, n))[i]]
    BY <1>3
  <2>1. InOrder(Objects(d, n))[i] \in Objects(d, n)
    BY PositionsBounded, InOrderHas
  <2>2. InOrder(Objects(d, n))[i] \in 1..(n - 1)
    BY <2>1 DEF Objects
  <2> QED BY <1>1, <2>2
<1> QED BY <1>2, <1>4 DEF EventsTo, ErrorsTo

\* The list of the values at the positions of a set.
Listed(f, S) == [i \in DOMAIN InOrder(S) |-> f[InOrder(S)[i]]]

\* f has a value in T at each position of S.
Values(f, S, n, T) ==
    /\ n \in Nat /\ S \in SUBSET Nat
    /\ \A p \in S : p <= n /\ f[p] \in T

LEMMA ListIs ==
    ASSUME NEW T, NEW n, NEW S, NEW f, Values(f, S, n, T)
    PROVE  /\ Listed(f, S) \in Seq(T) /\ Len(Listed(f, S)) = Cardinality(S)
           /\ \A i \in 1..Cardinality(S) : Listed(f, S)[i] = f[InOrder(S)[i]]
<1> DEFINE k == Cardinality(S)
           list == Listed(f, S)
<1>1. k \in Nat
  BY BeforeIsFinite DEF Values
<1>2. DOMAIN InOrder(S) = 1..k
  BY DEF InOrder
<1>3. \A i \in 1..k : InOrder(S)[i] \in S
  BY InOrderHas DEF Values
<1>4. list = [i \in 1..k |-> f[InOrder(S)[i]]]
  BY <1>2 DEF Listed
<1> HIDE DEF k, list
<1>5. list \in [1..k -> T]
  BY <1>3, <1>4 DEF Values
<1>6. list \in Seq(T)
  BY <1>1, <1>5, SeqDef
<1>7. list \in Seq(T) /\ Len(list) = k
  BY <1>1, <1>5, <1>6, LenProperties
<1>8. \A i \in 1..k : list[i] = f[InOrder(S)[i]]
  BY <1>4
<1> QED BY <1>7, <1>8 DEF k, list

\* A position after all others adds its value at the end.
Added(list, old, x) == list = Append(old, x)

LEMMA ListAdd ==
    ASSUME NEW T, NEW n, NEW S, NEW m, NEW f, Values(f, S \cup {m}, n, T), \A p \in S : p < m
    PROVE  Added(Listed(f, S \cup {m}), Listed(f, S), f[m])
<1> DEFINE k == Cardinality(S)
           U == S \cup {m}
           old == Listed(f, S)
           new == Listed(f, U)
<1>1. /\ Cardinality(U) = k + 1 /\ k \in Nat
      /\ \A i \in 1..k : InOrder(U)[i] = InOrder(S)[i]
      /\ InOrder(U)[k + 1] = m
  <2>1. /\ n \in Nat /\ S \in SUBSET Nat /\ m \in Nat /\ m <= n
        /\ \A p \in S : p <= n
    BY DEF Values
  <2> QED BY <2>1, InOrderAdd
<1>2. Values(f, S, n, T) /\ f[m] \in T
  BY DEF Values
<1>3. old \in Seq(T) /\ Len(old) = k /\ \A i \in 1..k : old[i] = f[InOrder(S)[i]]
  BY <1>2, ListIs
<1> HIDE DEF U
<1>4. /\ new \in Seq(T) /\ Len(new) = Cardinality(U)
      /\ \A i \in 1..Cardinality(U) : new[i] = f[InOrder(U)[i]]
  <2>1. Values(f, U, n, T)
    BY DEF U
  <2> QED BY <2>1, ListIs
<1> HIDE DEF k, old, new
<1>5. \A i \in 1..(k + 1) : i \in 1..k \/ i = k + 1
  BY <1>1
<1>6. new[k + 1] = f[m] /\ \A i \in 1..k : new[i] = old[i]
  <2>1. k + 1 \in 1..(k + 1) /\ \A i \in 1..k : i \in 1..(k + 1)
    BY <1>1
  <2> QED BY <1>1, <1>3, <1>4, <2>1
<1> DEFINE longer == Append(old, f[m])
<1>7. /\ longer \in Seq(T) /\ Len(longer) = k + 1 /\ longer[k + 1] = f[m]
      /\ \A i \in 1..k : longer[i] = old[i]
  BY <1>2, <1>3, AppendProperties
<1> HIDE DEF longer
<1>8. \A i \in 1..Len(new) : new[i] = longer[i]
  BY <1>1, <1>4, <1>5, <1>6, <1>7
<1>9. new = longer
  BY <1>1, <1>4, <1>7, <1>8, SeqEqual
<1> QED BY <1>9 DEF Added, longer, new, old, U

LEMMA EventsListed == ASSUME NEW c, NEW n PROVE EventsTo(c, n) = Listed(c, Objects(c, n))
  BY DEF EventsTo, Listed

Offsets == [s \in Nat |-> s - 1]

LEMMA ErrorsListed == ASSUME NEW c, NEW n \in Nat PROVE ErrorsTo(c, n) = Listed(Offsets, Cuts(c, n))
<1>1. DOMAIN InOrder(Cuts(c, n)) = 1..Cardinality(Cuts(c, n))
  BY DEF InOrder
<1>2. \A i \in 1..Cardinality(Cuts(c, n)) : InOrder(Cuts(c, n))[i] \in Cuts(c, n)
  BY PositionsBounded, InOrderHas
<1>3. \A i \in DOMAIN InOrder(Cuts(c, n)) : InOrder(Cuts(c, n))[i] \in Nat
  BY <1>1, <1>2, PositionsBounded
<1> QED BY <1>3 DEF ErrorsTo, Listed, Offsets

LEMMA EventsNext ==
    ASSUME NEW c, WellFormed(c), NEW n \in Nat, n < Len(c)
    PROVE  /\ EventsTo(c, n) \in Seq(Heads)
           /\ c[n + 1] = End => n > 0 /\ c[n] \in Heads /\ Added(EventsTo(c, n + 1), EventsTo(c, n), c[n])
           /\ c[n + 1] # End => EventsTo(c, n + 1) = EventsTo(c, n)
<1>1. Len(c) \in Nat
  BY LenProperties DEF WellFormed
<1>2. \A s \in Objects(c, n + 1) : c[s] \in Heads
  <2> SUFFICES ASSUME NEW s \in 1..n, c[s + 1] = End PROVE c[s] \in Heads
    BY DEF Objects
  <2>1. s + 1 \in 1..Len(c) /\ (s + 1) - 1 = s
    BY <1>1
  <2>2. c[(s + 1) - 1] \in Heads
    BY <2>1 DEF WellFormed
  <2> QED BY <2>1, <2>2
<1>3. \A s \in Objects(c, n) : s < n /\ s \in Objects(c, n + 1)
  BY DEF Objects
<1>4. EventsTo(c, n) \in Seq(Heads)
  <2>1. Values(c, Objects(c, n), n, Heads)
    BY <1>2, <1>3, PositionsBounded DEF Values
  <2> QED BY <2>1, ListIs, EventsListed
<1>5. CASE c[n + 1] = End
  <2>1. n > 0 /\ c[n] \in Heads
    <3>1. n + 1 \in 1..Len(c) /\ (n + 1) - 1 = n
      BY <1>1
    <3>2. n + 1 > 1 /\ c[(n + 1) - 1] \in Heads
      BY <1>5, <3>1 DEF WellFormed
    <3> QED BY <3>1, <3>2
  <2>2. Objects(c, n + 1) = Objects(c, n) \cup {n}
    <3>1. \A s \in 1..n : s \in 1..(n - 1) \/ s = n
      OBVIOUS
    <3>2. (n + 1) - 1 = n /\ n \in 1..n /\ \A s \in 1..(n - 1) : s \in 1..n
      BY <2>1
    <3> QED BY <1>5, <3>1, <3>2 DEF Objects
  <2>3. Values(c, Objects(c, n) \cup {n}, n, Heads)
    BY <1>2, <2>2, PositionsBounded DEF Values
  <2>4. Added(EventsTo(c, n + 1), EventsTo(c, n), c[n])
    <3>1. Added(Listed(c, Objects(c, n) \cup {n}), Listed(c, Objects(c, n)), c[n])
      BY <1>3, <2>3, ListAdd
    <3> QED BY <2>2, <3>1, EventsListed
  <2> QED BY <1>4, <1>5, <2>1, <2>4
<1>6. CASE c[n + 1] # End
  <2>1. \A s \in 1..n : s \in 1..(n - 1) \/ s = n
    OBVIOUS
  <2>2. (n + 1) - 1 = n /\ \A s \in 1..(n - 1) : s \in 1..n
    OBVIOUS
  <2>3. Objects(c, n + 1) = Objects(c, n)
    BY <1>6, <2>1, <2>2 DEF Objects
  <2> QED BY <1>4, <1>6, <2>3 DEF EventsTo
<1> QED BY <1>5, <1>6

LEMMA ErrorsNext ==
    ASSUME NEW c, WellFormed(c), NEW n \in Nat, n < Len(c)
    PROVE  /\ ErrorsTo(c, n) \in Seq(Nat)
           /\ n > 0 /\ c[n] \in Heads /\ c[n + 1] = NL => Added(ErrorsTo(c, n + 1), ErrorsTo(c, n), n - 1)
           /\ ~(n > 0 /\ c[n] \in Heads /\ c[n + 1] = NL) => ErrorsTo(c, n + 1) = ErrorsTo(c, n)
<1>1. \A s \in Cuts(c, n) : s \in Nat /\ s < n /\ Offsets[s] \in Nat
  BY DEF Cuts, Offsets
<1>2. Values(Offsets, Cuts(c, n), n, Nat)
  BY <1>1, PositionsBounded DEF Values
<1>3. ErrorsTo(c, n) \in Seq(Nat)
  BY <1>2, ListIs, ErrorsListed
<1>4. CASE n > 0 /\ c[n] \in Heads /\ c[n + 1] = NL
  <2>1. Cuts(c, n + 1) = Cuts(c, n) \cup {n}
    <3>1. \A s \in 1..n : s \in 1..(n - 1) \/ s = n
      OBVIOUS
    <3>2. (n + 1) - 1 = n /\ n \in 1..n /\ \A s \in 1..(n - 1) : s \in 1..n
      BY <1>4
    <3> QED BY <1>4, <3>1, <3>2 DEF Cuts
  <2>2. Offsets[n] = n - 1 /\ n - 1 \in Nat
    BY <1>4 DEF Offsets
  <2>3. Values(Offsets, Cuts(c, n) \cup {n}, n, Nat)
    BY <1>2, <2>2 DEF Values
  <2>4. Added(Listed(Offsets, Cuts(c, n) \cup {n}), Listed(Offsets, Cuts(c, n)), Offsets[n])
    BY <1>1, <2>3, ListAdd
  <2>5. Added(ErrorsTo(c, n + 1), ErrorsTo(c, n), n - 1)
    <3>1. ErrorsTo(c, n + 1) = Listed(Offsets, Cuts(c, n + 1)) /\ ErrorsTo(c, n) = Listed(Offsets, Cuts(c, n))
      <4>1. n + 1 \in Nat
        OBVIOUS
      <4> QED BY <4>1, ErrorsListed
    <3> QED BY <2>1, <2>2, <2>4, <3>1
  <2> QED BY <1>3, <1>4, <2>5
<1>5. CASE ~(n > 0 /\ c[n] \in Heads /\ c[n + 1] = NL)
  <2>1. \A s \in 1..n : s \in 1..(n - 1) \/ (s = n /\ n > 0)
    OBVIOUS
  <2>2. (n + 1) - 1 = n /\ \A s \in 1..(n - 1) : s \in 1..n
    OBVIOUS
  <2>3. Cuts(c, n + 1) = Cuts(c, n)
    BY <1>5, <2>1, <2>2 DEF Cuts
  <2> QED BY <1>3, <1>5, <2>3 DEF ErrorsTo
<1> QED BY <1>4, <1>5

---------------------------------------------------------------------------
\* The incremental reader: it stands after the first r.offset + Len(r.rest)
\* symbols, r.rest is the line it has begun, and what it has found, after the
\* events es and the errors rs found before it was started, is what is to be
\* found up to r.offset.

Reader == [rest : Seq(Symbols), offset : Nat, events : Seq(Heads), errors : Seq(Nat)]

Stands(c, rest, offset, n) ==
    /\ rest \in Seq(Symbols) /\ offset \in Nat
    /\ n = offset + Len(rest) /\ n <= Len(c)
    /\ \A i \in 1..Len(rest) : rest[i] = c[offset + i] /\ rest[i] # NL
    /\ offset = 0 \/ c[offset] = NL \/ (c[offset] = End /\ Len(rest) = 0)

ReadSoFar(c, r, n, es, rs) ==
    /\ r \in Reader /\ Stands(c, r.rest, r.offset, n)
    /\ EventsTo(c, r.offset) = es \o r.events
    /\ ErrorsTo(c, r.offset) = rs \o r.errors

\* The line it has begun is empty, an object begun, or a whole one.
LEMMA RestIs ==
    ASSUME NEW c, WellFormed(c), NEW rest, NEW o, NEW n, Stands(c, rest, o, n)
    PROVE  /\ Len(rest) \in {0, 1, 2} /\ Len(c) \in Nat
           /\ Len(rest) > 0 => (o = 0 \/ c[o] = NL) /\ c[o + 1] \in Heads /\ rest[1] = c[o + 1]
           /\ Len(rest) = 2 => c[o + 2] = End /\ rest[2] = End
           /\ Len(rest) = 2 => Valid(rest)
           /\ Len(rest) # 2 => ~Valid(rest)
           /\ Len(rest) = 0 => rest = <<>>
           /\ Len(rest) # 0 => rest # <<>>
<1>1. Len(c) \in Nat /\ Len(rest) \in Nat /\ o \in Nat /\ rest \in Seq(Symbols)
  BY LenProperties DEF WellFormed, Stands
<1>2. \A i \in 1..Len(rest) : o + i \in 1..Len(c) /\ c[o + i] # NL /\ rest[i] = c[o + i]
  BY <1>1 DEF Stands
<1>3. Len(rest) > 0 => (o = 0 \/ c[o] = NL) /\ c[o + 1] \in Heads /\ rest[1] = c[o + 1]
  <2> SUFFICES ASSUME Len(rest) > 0
               PROVE  (o = 0 \/ c[o] = NL) /\ c[o + 1] \in Heads /\ rest[1] = c[o + 1]
    OBVIOUS
  <2>1. o = 0 \/ c[o] = NL
    BY DEF Stands
  <2>2. 1 \in 1..Len(rest)
    BY <1>1
  <2>3. o + 1 \in 1..Len(c) /\ c[o + 1] # NL /\ rest[1] = c[o + 1]
    BY <1>2, <2>2
  <2>4. c[o + 1] # End
    <3> SUFFICES ASSUME c[o + 1] = End PROVE FALSE
      OBVIOUS
    <3>1. o + 1 > 1 /\ c[(o + 1) - 1] \in Heads
      BY <2>3 DEF WellFormed
    <3>2. (o + 1) - 1 = o /\ o # 0
      BY <1>1, <3>1
    <3> QED BY <2>1, <3>1, <3>2, SymbolsDiffer
  <2>5. c[o + 1] \in Heads
    BY <2>3, <2>4, SymbolAt
  <2> QED BY <2>1, <2>3, <2>5
<1>4. Len(rest) > 1 => c[o + 2] = End /\ rest[2] = End
  <2> SUFFICES ASSUME Len(rest) > 1 PROVE c[o + 2] = End /\ rest[2] = End
    OBVIOUS
  <2>1. 1 \in 1..Len(rest) /\ 2 \in 1..Len(rest)
    BY <1>1
  <2>2. o + 2 \in 1..Len(c) /\ c[o + 2] # NL /\ c[o + 1] # NL /\ rest[2] = c[o + 2]
    BY <1>2, <2>1
  <2>3. c[o + 2] \notin Heads
    <3> SUFFICES ASSUME c[o + 2] \in Heads PROVE FALSE
      OBVIOUS
    <3>1. o + 2 = 1 \/ c[(o + 2) - 1] = NL
      BY <2>2 DEF WellFormed
    <3>2. (o + 2) - 1 = o + 1 /\ o + 2 # 1
      BY <1>1
    <3> QED BY <2>2, <3>1, <3>2
  <2> QED BY <2>2, <2>3, SymbolAt
<1>5. ~(Len(rest) > 2)
  <2> SUFFICES ASSUME Len(rest) > 2 PROVE FALSE
    OBVIOUS
  <2>1. 3 \in 1..Len(rest)
    BY <1>1
  <2>2. o + 3 \in 1..Len(c) /\ c[o + 3] # NL /\ (o + 3) - 1 = o + 2 /\ o + 3 # 1
    BY <1>1, <1>2, <2>1
  <2>3. c[(o + 3) - 1] = End
    BY <1>4, <2>2
  <2>4. c[o + 3] \in Heads \/ c[o + 3] = End
    BY <2>2, SymbolAt
  <2>5. /\ c[o + 3] = End => c[(o + 3) - 1] \in Heads
        /\ c[o + 3] \in Heads => c[(o + 3) - 1] = NL
    BY <2>2 DEF WellFormed
  <2> QED BY <2>3, <2>4, <2>5, SymbolsDiffer
<1>6. Len(rest) \in {0, 1, 2}
  <2>1. \A k \in Nat : ~(k > 2) => k \in {0, 1, 2}
    OBVIOUS
  <2> QED BY <1>1, <1>5, <2>1
<1>7. Valid(rest) <=> Len(rest) = 2
  BY <1>3, <1>4, SymbolsDiffer DEF Valid
<1>8. rest = <<>> <=> Len(rest) = 0
  BY <1>1, EmptySeq
<1> QED BY <1>1, <1>3, <1>4, <1>6, <1>7, <1>8

\* What is to be found up to where the reader stands.
LEMMA FoundThere ==
    ASSUME NEW c, WellFormed(c), NEW rest, NEW o, NEW n, Stands(c, rest, o, n)
    PROVE  /\ n \in Nat /\ n <= Len(c)
           /\ ErrorsTo(c, n) = ErrorsTo(c, o)
           /\ Valid(rest) => Added(EventsTo(c, n), EventsTo(c, o), rest[1])
           /\ ~Valid(rest) => EventsTo(c, n) = EventsTo(c, o)
<1>1. /\ Len(rest) \in {0, 1, 2} /\ Len(c) \in Nat
      /\ Len(rest) > 0 => c[o + 1] \in Heads /\ rest[1] = c[o + 1]
      /\ Len(rest) = 2 => c[o + 2] = End
      /\ Len(rest) = 2 => Valid(rest)
      /\ Len(rest) # 2 => ~Valid(rest)
  BY RestIs
<1>2. o \in Nat /\ n \in Nat /\ n <= Len(c) /\ n = o + Len(rest)
  BY <1>1 DEF Stands
<1>3. CASE Len(rest) = 0
  <2>1. n = o
    BY <1>2, <1>3
  <2> QED BY <1>1, <1>2, <1>3, <2>1
<1>4. CASE Len(rest) > 0
  <2>1. o < Len(c) /\ c[o + 1] \in Heads /\ c[o + 1] # End /\ c[o + 1] # NL
    BY <1>1, <1>2, <1>4, SymbolsDiffer
  <2>2. EventsTo(c, o + 1) = EventsTo(c, o) /\ ErrorsTo(c, o + 1) = ErrorsTo(c, o)
    BY <1>2, <2>1, EventsNext, ErrorsNext
  <2>3. CASE Len(rest) = 1
    BY <1>1, <1>2, <2>2, <2>3
  <2>4. CASE Len(rest) = 2
    <3>1. o + 1 \in Nat /\ o + 1 < Len(c) /\ (o + 1) + 1 = n /\ o + 2 = n
      BY <1>1, <1>2, <2>4
    <3>2. c[(o + 1) + 1] = End /\ c[(o + 1) + 1] # NL
      BY <1>1, <2>4, <3>1, SymbolsDiffer
    <3>3. Added(EventsTo(c, (o + 1) + 1), EventsTo(c, o + 1), c[o + 1])
      BY <3>1, <3>2, EventsNext
    <3>4. ErrorsTo(c, (o + 1) + 1) = ErrorsTo(c, o + 1)
      BY <3>1, <3>2, ErrorsNext
    <3> QED BY <1>1, <1>2, <2>2, <2>4, <3>1, <3>3, <3>4
  <2> QED BY <1>1, <1>4, <2>3, <2>4
<1> QED BY <1>1, <1>3, <1>4

AppendsLast(s, t, x) == Append(s \o t, x) = s \o Append(t, x)

LEMMA AppendLast ==
    ASSUME NEW S, NEW s \in Seq(S), NEW t \in Seq(S), NEW x \in S
    PROVE  AppendsLast(s, t, x)
<1>1. <<x>> \in Seq(S) /\ s \o t \in Seq(S)
  BY ConcatProperties
<1>2. Append(s \o t, x) = (s \o t) \o <<x>>
  BY <1>1, AppendIsConcat
<1>3. Append(t, x) = t \o <<x>>
  BY AppendIsConcat
<1>4. (s \o t) \o <<x>> = s \o (t \o <<x>>)
  BY <1>1, ConcatAssociative
<1> QED BY <1>2, <1>3, <1>4 DEF AppendsLast

LEMMA ConsumedIsReader ==
    ASSUME NEW r \in Reader, NEW sym \in Symbols
    PROVE  Consumed(r, sym) \in Reader
<1>1. /\ r.rest \in Seq(Symbols) /\ r.offset \in Nat /\ r.events \in Seq(Heads) /\ r.errors \in Seq(Nat)
      /\ Len(r.rest) \in Nat
  BY LenProperties DEF Reader
<1>2. CASE sym # NL
  <2>1. Append(r.rest, sym) \in Seq(Symbols)
    BY <1>1, AppendProperties
  <2>2. Consumed(r, sym) = [r EXCEPT !.rest = Append(r.rest, sym)]
    BY <1>2 DEF Consumed
  <2> QED BY <2>1, <2>2 DEF Reader
<1>3. CASE sym = NL
  <2> DEFINE evs == IF Valid(r.rest) THEN Append(r.events, r.rest[1]) ELSE r.events
             ers == IF r.rest = <<>> \/ Valid(r.rest) THEN r.errors ELSE Append(r.errors, r.offset)
  <2>1. evs \in Seq(Heads)
    <3>1. CASE Valid(r.rest)
      <4>1. Len(r.rest) = 2 /\ r.rest[1] # NL /\ r.rest[1] # End
        BY <3>1 DEF Valid
      <4>2. r.rest[1] \in Symbols
        BY <1>1, <4>1, ElementOfSeq
      <4>3. r.rest[1] \in Heads
        BY <4>1, <4>2 DEF Symbols
      <4> QED BY <1>1, <4>3, AppendProperties
    <3>2. CASE ~Valid(r.rest)
      BY <1>1, <3>2
    <3> QED BY <3>1, <3>2
  <2>2. ers \in Seq(Nat)
    BY <1>1, AppendProperties
  <2>3. Consumed(r, sym) = [rest |-> <<>>, offset |-> r.offset + Len(r.rest) + 1, events |-> evs, errors |-> ers]
    BY <1>3 DEF Consumed
  <2> HIDE DEF evs, ers
  <2>4. <<>> \in Seq(Symbols)
    BY EmptySeq
  <2> QED BY <1>1, <2>1, <2>2, <2>3, <2>4 DEF Reader
<1> QED BY <1>2, <1>3

LEMMA ConsumedReads ==
    ASSUME NEW c, WellFormed(c), NEW es \in Seq(Heads), NEW rs \in Seq(Nat), NEW r, NEW n,
           ReadSoFar(c, r, n, es, rs), n < Len(c)
    PROVE  ReadSoFar(c, Consumed(r, c[n + 1]), n + 1, es, rs)
<1> DEFINE rest == r.rest
           o == r.offset
           sym == c[n + 1]
           d == Consumed(r, sym)
<1>1. /\ r \in Reader /\ Stands(c, rest, o, n)
      /\ EventsTo(c, o) = es \o r.events /\ ErrorsTo(c, o) = rs \o r.errors
  BY DEF ReadSoFar
<1>2. /\ rest \in Seq(Symbols) /\ o \in Nat /\ r.events \in Seq(Heads) /\ r.errors \in Seq(Nat)
      /\ n = o + Len(rest)
  BY <1>1 DEF Reader, Stands
<1> HIDE DEF rest, o, d
<1>3. /\ Len(rest) \in {0, 1, 2} /\ Len(c) \in Nat
      /\ Len(rest) > 0 => (o = 0 \/ c[o] = NL) /\ c[o + 1] \in Heads /\ rest[1] = c[o + 1]
      /\ Len(rest) = 2 => c[o + 2] = End
      /\ Len(rest) = 2 => Valid(rest)
      /\ Len(rest) # 2 => ~Valid(rest)
      /\ Len(rest) = 0 => rest = <<>>
      /\ Len(rest) # 0 => rest # <<>>
  BY <1>1, RestIs
<1>4. /\ n \in Nat /\ ErrorsTo(c, n) = ErrorsTo(c, o)
      /\ Valid(rest) => Added(EventsTo(c, n), EventsTo(c, o), rest[1])
      /\ ~Valid(rest) => EventsTo(c, n) = EventsTo(c, o)
  <2>1. Stands(c, rest, o, n)
    BY <1>1
  <2> QED BY <2>1, FoundThere
<1>5. n + 1 \in 1..Len(c) /\ sym \in Symbols /\ (n + 1) - 1 = n
  <2>1. n + 1 \in 1..Len(c)
    BY <1>3, <1>4
  <2> QED BY <1>4, <2>1, SymbolAt DEF Symbols
<1>6. CASE sym # NL
  <2>2. /\ Append(rest, sym) \in Seq(Symbols) /\ Len(Append(rest, sym)) = Len(rest) + 1
        /\ \A i \in 1..Len(rest) : Append(rest, sym)[i] = rest[i]
        /\ Append(rest, sym)[Len(rest) + 1] = sym
    BY <1>2, <1>5, AppendProperties
  <2>3. o = 0 \/ c[o] = NL
    <3> SUFFICES ASSUME o # 0, c[o] = End, Len(rest) = 0 PROVE FALSE
      BY <1>1, <1>3 DEF Stands
    <3>1. n = o /\ n + 1 # 1
      BY <1>1, <1>2
    <3>2. /\ c[n + 1] = End => c[(n + 1) - 1] \in Heads
          /\ c[n + 1] \in Heads => c[(n + 1) - 1] = NL
      BY <1>5, <3>1 DEF WellFormed
    <3>3. c[(n + 1) - 1] = End
      BY <1>5, <3>1
    <3> QED BY <1>5, <1>6, <3>2, <3>3, SymbolsDiffer DEF Symbols
  <2> DEFINE longer == Append(rest, sym)
  <2> HIDE DEF longer
  <2>4. Stands(c, longer, o, n + 1)
    <3>1. /\ longer \in Seq(Symbols) /\ Len(longer) = Len(rest) + 1 /\ longer[Len(rest) + 1] = sym
          /\ \A i \in 1..Len(rest) : longer[i] = rest[i]
      BY <2>2 DEF longer
    <3>2. n + 1 = o + Len(longer) /\ n + 1 <= Len(c)
      BY <1>2, <1>3, <1>5, <3>1
    <3>3. ASSUME NEW i \in 1..Len(longer) PROVE longer[i] = c[o + i] /\ longer[i] # NL
      <4>1. CASE i = Len(rest) + 1
        <5>1. o + i = n + 1
          BY <1>2, <1>3, <4>1
        <5> QED BY <1>6, <3>1, <4>1, <5>1
      <4>2. CASE i # Len(rest) + 1
        <5>1. i \in 1..Len(rest)
          BY <1>3, <3>1, <4>2
        <5> QED BY <1>1, <3>1, <5>1 DEF Stands
      <4> QED BY <4>1, <4>2
    <3> QED BY <1>2, <2>3, <3>1, <3>2, <3>3 DEF Stands
  <2>5. d.rest = longer /\ d.offset = o /\ d.events = r.events /\ d.errors = r.errors /\ d \in Reader
    <3>1. d = [r EXCEPT !.rest = longer]
      BY <1>6 DEF Consumed, d, longer, rest
    <3>2. longer \in Seq(Symbols)
      BY <2>2 DEF longer
    <3> QED BY <1>1, <3>1, <3>2 DEF Reader, o
  <2> QED BY <1>1, <2>4, <2>5 DEF ReadSoFar, d
<1>7. CASE sym = NL
  <2> DEFINE evs == IF Valid(rest) THEN Append(r.events, rest[1]) ELSE r.events
             ers == IF rest = <<>> \/ Valid(rest) THEN r.errors ELSE Append(r.errors, o)
  <2>1. d = [rest |-> <<>>, offset |-> o + Len(rest) + 1, events |-> evs, errors |-> ers]
    BY <1>7 DEF Consumed, d, rest, o
  <2>2. Valid(rest) => rest[1] \in Heads
    BY <1>3
  <2>3. evs \in Seq(Heads) /\ ers \in Seq(Nat)
    BY <1>2, <2>2, AppendProperties
  <2>4. EventsTo(c, n + 1) = EventsTo(c, n)
    BY <1>3, <1>4, <1>7, EventsNext, SymbolsDiffer
  <2>5. EventsTo(c, n + 1) = es \o evs
    <3>1. CASE Valid(rest)
      <4>1. EventsTo(c, n) = Append(es \o r.events, rest[1])
        BY <1>1, <1>4, <3>1 DEF Added
      <4>2. AppendsLast(es, r.events, rest[1])
        BY <1>2, <2>2, <3>1, AppendLast
      <4> QED BY <2>4, <3>1, <4>1, <4>2 DEF AppendsLast
    <3>2. CASE ~Valid(rest)
      BY <1>1, <1>4, <2>4, <3>2
    <3> QED BY <3>1, <3>2
  <2>6. ErrorsTo(c, n + 1) = rs \o ers
    <3>1. CASE Len(rest) = 1
      <4>1. n = o + 1 /\ n > 0 /\ n - 1 = o
        BY <1>2, <3>1
      <4>2. c[n] \in Heads /\ n < Len(c)
        BY <1>3, <3>1, <4>1
      <4>3. Added(ErrorsTo(c, n + 1), ErrorsTo(c, n), n - 1)
        BY <1>4, <1>7, <4>1, <4>2, ErrorsNext
      <4>4. ErrorsTo(c, n + 1) = Append(rs \o r.errors, o)
        BY <1>1, <1>4, <4>1, <4>3 DEF Added
      <4>5. AppendsLast(rs, r.errors, o)
        BY <1>2, AppendLast
      <4>6. rest # <<>> /\ ~Valid(rest)
        BY <1>3, <3>1
      <4> QED BY <4>4, <4>5, <4>6 DEF AppendsLast
    <3>2. CASE Len(rest) # 1
      <4>1. ~(n > 0 /\ c[n] \in Heads)
        <5>1. CASE Len(rest) = 0
          <6>1. n = o
            BY <1>2, <5>1
          <6> QED BY <1>1, <6>1, SymbolsDiffer DEF Stands
        <5>2. CASE Len(rest) = 2
          <6>1. n = o + 2
            BY <1>2, <5>2
          <6> QED BY <1>3, <5>2, <6>1, SymbolsDiffer
        <5> QED BY <1>3, <3>2, <5>1, <5>2
      <4>2. ErrorsTo(c, n + 1) = ErrorsTo(c, n)
        BY <1>4, <4>1, ErrorsNext
      <4>3. ers = r.errors
        BY <1>3, <3>2
      <4> QED BY <1>1, <1>4, <4>2, <4>3
    <3> QED BY <3>1, <3>2
  <2> HIDE DEF evs, ers
  <2>7. o + Len(rest) + 1 = n + 1
    BY <1>2, <1>3
  <2>8. Stands(c, <<>>, n + 1, n + 1)
    <3>1. <<>> \in Seq(Symbols) /\ Len(<<>>) = 0
      BY EmptySeq
    <3> QED BY <1>4, <1>5, <1>7, <3>1 DEF Stands
  <2>9. d \in Reader /\ d.rest = <<>> /\ d.offset = n + 1 /\ d.events = evs /\ d.errors = ers
    <3>1. <<>> \in Seq(Symbols) /\ n + 1 \in Nat
      BY <1>4
    <3> QED BY <2>1, <2>3, <2>7, <3>1 DEF Reader
  <2> QED BY <2>5, <2>6, <2>8, <2>9 DEF ReadSoFar, d
<1> QED BY <1>6, <1>7

LEMMA WithTailReads ==
    ASSUME NEW c, WellFormed(c), NEW es \in Seq(Heads), NEW rs \in Seq(Nat), NEW r,
           ReadSoFar(c, r, Len(c), es, rs)
    PROVE  ReadSoFar(c, WithTail(r), Len(c), es, rs) /\ ~Valid(WithTail(r).rest)
<1> DEFINE rest == r.rest
           o == r.offset
           d == WithTail(r)
<1>1. /\ r \in Reader /\ Stands(c, rest, o, Len(c))
      /\ EventsTo(c, o) = es \o r.events /\ ErrorsTo(c, o) = rs \o r.errors
  BY DEF ReadSoFar
<1>2. /\ rest \in Seq(Symbols) /\ o \in Nat /\ r.events \in Seq(Heads) /\ r.errors \in Seq(Nat)
      /\ Len(c) = o + Len(rest)
  BY <1>1 DEF Reader, Stands
<1>3. CASE ~Valid(rest)
  BY <1>1, <1>3 DEF WithTail
<1>4. CASE Valid(rest)
  <2> HIDE DEF rest, o, d
  <2>1. /\ Len(rest) = 2 /\ Len(c) \in Nat /\ c[o + 1] \in Heads /\ rest[1] = c[o + 1] /\ c[o + 2] = End
    <3>1. Len(rest) = 2
      BY <1>1, <1>4, RestIs
    <3> QED BY <1>1, <3>1, RestIs
  <2>2. /\ ErrorsTo(c, Len(c)) = ErrorsTo(c, o) /\ Added(EventsTo(c, Len(c)), EventsTo(c, o), rest[1])
    BY <1>1, <1>4, FoundThere
  <2>4. Append(r.events, rest[1]) \in Seq(Heads)
    BY <1>2, <2>1, AppendProperties
  <2>5. EventsTo(c, Len(c)) = es \o Append(r.events, rest[1])
    <3>1. EventsTo(c, Len(c)) = Append(es \o r.events, rest[1])
      BY <1>1, <2>2 DEF Added
    <3>2. AppendsLast(es, r.events, rest[1])
      BY <1>2, <2>1, AppendLast
    <3> QED BY <3>1, <3>2 DEF AppendsLast
  <2>6. <<>> \in Seq(Symbols) /\ Len(<<>>) = 0
    BY EmptySeq
  <2>7. Stands(c, <<>>, Len(c), Len(c))
    <3>1. Len(c) = o + 2
      BY <1>2, <2>1
    <3> QED BY <2>1, <2>6, <3>1 DEF Stands
  <2>8. d \in Reader /\ d.rest = <<>> /\ d.offset = Len(c) /\ d.errors = r.errors
        /\ d.events = Append(r.events, rest[1])
    <3>1. d = [r EXCEPT !.rest = <<>>, !.offset = Len(c), !.events = Append(r.events, rest[1])]
      BY <1>2, <1>4 DEF WithTail, d, rest, o
    <3> QED BY <1>1, <2>1, <2>4, <2>6, <3>1 DEF Reader
  <2>9. ~Valid(<<>>)
    BY <2>6 DEF Valid
  <2> QED BY <1>1, <2>1, <2>2, <2>5, <2>6, <2>7, <2>8, <2>9 DEF ReadSoFar, d
<1> QED BY <1>3, <1>4

\* ReadFrom goes through the rest of the file: it ends where the file ends.
LEMMA ReadFromReads ==
    ASSUME WellFormed(content), NEW es \in Seq(Heads), NEW rs \in Seq(Nat), NEW offset, NEW rest, NEW m,
           ReadSoFar(content, [rest |-> rest, offset |-> offset, events |-> <<>>, errors |-> <<>>], m, es, rs)
    PROVE  /\ ReadSoFar(content, ReadFrom(offset, rest), Len(content), es, rs)
           /\ ~Valid(ReadFrom(offset, rest).rest)
<1> DEFINE start == [rest |-> rest, offset |-> offset, events |-> <<>>, errors |-> <<>>]
           bytes == SubSeq(content, offset + Len(rest) + 1, Len(content))
           n == Len(bytes)
<1>1. /\ start \in Reader /\ Len(content) \in Nat /\ m \in Nat /\ m = offset + Len(rest) /\ m <= Len(content)
      /\ content \in Seq(Symbols)
  <2>1. start \in Reader /\ Stands(content, rest, offset, m)
    BY DEF ReadSoFar
  <2>2. m \in Nat /\ m <= Len(content) /\ m = offset + Len(rest)
    BY <2>1, LenProperties DEF Stands
  <2> QED BY <2>1, <2>2, LenProperties DEF WellFormed
<1>2. n \in Nat /\ n = Len(content) - m /\ \A i \in 1..n : bytes[i] = content[m + i] /\ bytes[i] \in Symbols
  <2>1. \A i \in (m + 1)..Len(content) : content[i] \in Symbols
    BY <1>1, ElementOfSeq
  <2>2. m + 1 \in Int /\ Len(content) \in Int
    BY <1>1
  <2>3. /\ Len(SubSeq(content, m + 1, Len(content))) =
               IF m + 1 <= Len(content) THEN Len(content) - (m + 1) + 1 ELSE 0
        /\ \A i \in 1..(Len(content) - (m + 1) + 1) :
               SubSeq(content, m + 1, Len(content))[i] = content[(m + 1) + i - 1]
    BY <2>1, <2>2, SubSeqProperties
  <2>4. bytes = SubSeq(content, m + 1, Len(content))
    BY <1>1
  <2> HIDE DEF bytes
  <2>5. n = Len(content) - m /\ n \in Nat
    BY <1>1, <2>3, <2>4
  <2>6. ASSUME NEW i \in 1..n PROVE bytes[i] = content[m + i] /\ bytes[i] \in Symbols
    <3>1. (m + 1) + i - 1 = m + i /\ m + i \in (m + 1)..Len(content) /\ i \in 1..(Len(content) - (m + 1) + 1)
      BY <1>1, <2>5
    <3> QED BY <2>1, <2>3, <2>4, <3>1
  <2> QED BY <2>5, <2>6
<1> DEFINE g == [k \in 1..n |-> [x \in Reader |-> Consumed(x, bytes[k])]]
           Reads(f) == [k \in 0..n |-> IF k = 0 THEN start ELSE Consumed(f[k - 1], bytes[k])]
           upTo == CHOOSE f : f = Reads(f)
<1>3. ReadFrom(offset, rest) = WithTail(upTo[n])
  BY DEF ReadFrom
<1> HIDE DEF bytes, n, start
<1>4. ASSUME NEW k \in 1..n, NEW x \in Reader PROVE g[k][x] = Consumed(x, bytes[k]) /\ g[k][x] \in Reader
  <2>1. Consumed(x, bytes[k]) \in Reader
    BY <1>2, ConsumedIsReader
  <2> QED BY <2>1
<1> HIDE DEF g
<1>5. PICK f : Chain(f, Reader, start, g, n)
  BY <1>1, <1>2, <1>4, ChainExists
<1>6. f \in [0..n -> Reader] /\ f[0] = start /\ \A k \in 1..n : f[k] = Consumed(f[k - 1], bytes[k])
  <2>1. f \in [0..n -> Reader] /\ f[0] = start /\ \A k \in 1..n : f[k] = g[k][f[k - 1]]
    BY <1>5 DEF Chain
  <2>2. \A k \in 1..n : f[k - 1] \in Reader
    BY <1>2, <2>1
  <2> QED BY <1>4, <2>1, <2>2
<1>7. f = Reads(f)
  BY <1>2, <1>6
<1>8. upTo = Reads(upTo)
  BY <1>7
<1> HIDE DEF upTo
<1>9. upTo[0] = start /\ \A k \in 1..n : upTo[k] = Consumed(upTo[k - 1], bytes[k])
  BY <1>2, <1>8
<1> DEFINE Fine == {k \in 0..n : ReadSoFar(content, upTo[k], m + k, es, rs)}
<1>10. 0 \in Fine
  <2>1. m + 0 = m
    BY <1>1
  <2> QED BY <1>2, <1>9, <2>1 DEF start
<1>11. ASSUME NEW k \in 0..(n - 1), k \in Fine PROVE k + 1 \in Fine
  <2>1. k + 1 \in 1..n /\ k + 1 \in 0..n /\ (k + 1) - 1 = k
    BY <1>2
  <2>2. upTo[k + 1] = Consumed(upTo[k], content[m + (k + 1)])
    BY <1>2, <1>9, <2>1
  <2>3. m + k < Len(content) /\ (m + k) + 1 = m + (k + 1)
    BY <1>1, <1>2
  <2>4. ReadSoFar(content, upTo[k], m + k, es, rs)
    BY <1>11
  <2>5. ReadSoFar(content, Consumed(upTo[k], content[(m + k) + 1]), (m + k) + 1, es, rs)
    BY <2>3, <2>4, ConsumedReads
  <2> QED BY <2>1, <2>2, <2>3, <2>5
<1>12. n \in Fine
  <2> HIDE DEF Fine
  <2> QED BY <1>2, <1>10, <1>11, HasAll
<1>13. ReadSoFar(content, upTo[n], Len(content), es, rs)
  <2>1. m + n = Len(content)
    BY <1>1, <1>2
  <2> QED BY <1>12, <2>1
<1> QED BY <1>3, <1>13, WithTailReads

\* Before the first symbol there is nothing to be found.
LEMMA NothingThere ==
    ASSUME NEW c
    PROVE  EventsTo(c, 0) = <<>> /\ ErrorsTo(c, 0) = <<>>
<1>1. Objects(c, 0) = {} /\ Cuts(c, 0) = {}
  <2>1. 1..(0 - 1) = {}
    OBVIOUS
  <2> QED BY <2>1 DEF Objects, Cuts
<1>2. Values(c, {}, 0, Heads) /\ Values(Offsets, {}, 0, Nat) /\ Cardinality({}) = 0
  BY FS_EmptySet DEF Values
<1>3. /\ Listed(c, {}) \in Seq(Heads) /\ Len(Listed(c, {})) = 0
      /\ Listed(Offsets, {}) \in Seq(Nat) /\ Len(Listed(Offsets, {})) = 0
  BY <1>2, ListIs
<1>4. Listed(c, {}) = <<>> /\ Listed(Offsets, {}) = <<>>
  BY <1>3, EmptySeq
<1> QED BY <1>1, <1>4, EventsListed, ErrorsListed

\* Where a reader stopped that has seen the whole file: what it found is what a
\* full read finds.
LEMMA EndIsFull ==
    ASSUME NEW c, WellFormed(c), NEW r, NEW es \in Seq(Heads), NEW rs \in Seq(Nat),
           ReadSoFar(c, r, Len(c), es, rs), ~Valid(r.rest)
    PROVE  Full(c).events = es \o r.events /\ Full(c).errors = rs \o r.errors
<1>1. Stands(c, r.rest, r.offset, Len(c)) /\ EventsTo(c, r.offset) = es \o r.events /\ ErrorsTo(c, r.offset) = rs \o r.errors
  BY DEF ReadSoFar
<1>2. EventsTo(c, Len(c)) = EventsTo(c, r.offset)
  BY <1>1, FoundThere
<1>3. ErrorsTo(c, Len(c)) = ErrorsTo(c, r.offset)
  BY <1>1, FoundThere
<1> QED BY <1>1, <1>2, <1>3, FullIs

---------------------------------------------------------------------------
\* What is held of a file, up to where its last read stopped.

HeldReads(c, h) ==
    /\ Stands(c, h.rest, h.offset, h.offset + Len(h.rest)) /\ ~Valid(h.rest)
    /\ h.events \in Seq(Heads) /\ h.errors \in Seq(Nat)
    /\ EventsTo(c, h.offset) = h.events /\ ErrorsTo(c, h.offset) = h.errors

\* Only writing on keeps it.
LEMMA HeldReadsOn ==
    ASSUME NEW c, NEW d, NEW h, HeldReads(c, h), Len(c) \in Nat, Len(d) \in Nat, Len(c) <= Len(d),
           \A i \in 1..Len(c) : c[i] = d[i]
    PROVE  HeldReads(d, h)
<1> DEFINE n == h.offset + Len(h.rest)
<1>1. Stands(c, h.rest, h.offset, n)
  BY DEF HeldReads
<1>2. h.offset \in Nat /\ Len(h.rest) \in Nat /\ n \in Nat /\ n <= Len(c)
  BY <1>1, LenProperties DEF Stands
<1>3. \A i \in 1..h.offset : c[i] = d[i]
  BY <1>2
<1>4. EventsTo(d, h.offset) = EventsTo(c, h.offset) /\ ErrorsTo(d, h.offset) = ErrorsTo(c, h.offset)
  BY <1>2, <1>3, SamePrefix
<1>5. Stands(d, h.rest, h.offset, n)
  <2>1. \A i \in 1..Len(h.rest) : c[h.offset + i] = d[h.offset + i]
    <3>1. \A i \in 1..Len(h.rest) : h.offset + i \in 1..Len(c)
      BY <1>2
    <3> QED BY <3>1
  <2>2. h.offset # 0 => c[h.offset] = d[h.offset]
    <3>1. h.offset # 0 => h.offset \in 1..h.offset
      BY <1>2
    <3> QED BY <1>3, <3>1
  <2>3. n <= Len(d)
    BY <1>2
  <2> QED BY <1>1, <2>1, <2>2, <2>3 DEF Stands
<1> QED BY <1>4, <1>5 DEF HeldReads

\* Reading on from what is held, and reading from the beginning.
All(es, rs, r) == [r EXCEPT !.events = es \o @, !.errors = rs \o @]

Begins(c, rest, offset, m, es, rs) ==
    /\ es \in Seq(Heads) /\ rs \in Seq(Nat) /\ Stands(c, rest, offset, m)
    /\ EventsTo(c, offset) = es /\ ErrorsTo(c, offset) = rs

Joined(list, es, more) == list = es \o more

LEMMA AllIs ==
    ASSUME WellFormed(content), NEW offset, NEW rest, NEW m, NEW es, NEW rs,
           Begins(content, rest, offset, m, es, rs),
           NEW new, new = ReadFrom(offset, rest), NEW all, all = All(es, rs, new)
    PROVE  /\ HeldReads(content, all) /\ new.events \in Seq(Heads)
           /\ new \in Reader /\ all \in Reader
           /\ Joined(all.events, es, new.events)
           /\ all.events = Full(content).events /\ all.errors = Full(content).errors
<1> DEFINE start == [rest |-> rest, offset |-> offset, events |-> <<>>, errors |-> <<>>]
<1>1. /\ es \in Seq(Heads) /\ rs \in Seq(Nat) /\ Stands(content, rest, offset, m)
      /\ EventsTo(content, offset) = es /\ ErrorsTo(content, offset) = rs
  BY DEF Begins
<1>2. ReadSoFar(content, start, m, es, rs)
  <2>1. start \in Reader
    <3>1. rest \in Seq(Symbols) /\ offset \in Nat
      BY <1>1 DEF Stands
    <3>2. <<>> \in Seq(Heads) /\ <<>> \in Seq(Nat)
      BY EmptySeq
    <3> QED BY <3>1, <3>2 DEF Reader
  <2>2. es \o <<>> = es /\ rs \o <<>> = rs
    BY <1>1, ConcatEmptySeq
  <2> QED BY <1>1, <2>1, <2>2 DEF ReadSoFar
<1>3. ReadSoFar(content, new, Len(content), es, rs) /\ ~Valid(new.rest)
  BY <1>1, <1>2, ReadFromReads
<1>4. /\ new \in Reader /\ Stands(content, new.rest, new.offset, Len(content))
      /\ EventsTo(content, new.offset) = es \o new.events /\ ErrorsTo(content, new.offset) = rs \o new.errors
  BY <1>3 DEF ReadSoFar
<1>5. new.events \in Seq(Heads) /\ new.errors \in Seq(Nat)
  BY <1>4 DEF Reader
<1>6. es \o new.events \in Seq(Heads) /\ rs \o new.errors \in Seq(Nat)
  BY <1>1, <1>5, ConcatProperties
<1>7. /\ all \in Reader /\ all.rest = new.rest /\ all.offset = new.offset
      /\ all.events = es \o new.events /\ all.errors = rs \o new.errors
  BY <1>4, <1>6 DEF All, Reader
<1>8. Full(content).events = es \o new.events /\ Full(content).errors = rs \o new.errors
  BY <1>1, <1>3, EndIsFull
<1>9. HeldReads(content, all)
  <2>1. all.offset + Len(all.rest) = Len(content)
    BY <1>4, <1>7 DEF Stands
  <2> QED BY <1>3, <1>4, <1>6, <1>7, <2>1 DEF HeldReads
<1> QED BY <1>4, <1>5, <1>7, <1>8, <1>9 DEF Joined

\* A whole read.
LEMMA WholeIs ==
    ASSUME WellFormed(content), NEW all, all = ReadFrom(0, <<>>)
    PROVE  /\ HeldReads(content, all) /\ all \in Reader
           /\ all.events = Full(content).events /\ all.errors = Full(content).errors
<1>1. <<>> \in Seq(Heads) /\ <<>> \in Seq(Nat) /\ <<>> \in Seq(Symbols) /\ Len(<<>>) = 0
  BY EmptySeq
<1>2. Begins(content, <<>>, 0, 0, <<>>, <<>>)
  <2>1. Len(content) \in Nat
    BY LenProperties DEF WellFormed
  <2>2. Stands(content, <<>>, 0, 0)
    BY <1>1, <2>1 DEF Stands
  <2> QED BY <1>1, <2>2, NothingThere DEF Begins
<1> DEFINE joined == All(<<>>, <<>>, all)
<1>3. joined = All(<<>>, <<>>, all)
  OBVIOUS
<1> HIDE DEF joined
<1>4. /\ HeldReads(content, joined) /\ all \in Reader
      /\ joined.events = Full(content).events /\ joined.errors = Full(content).errors
  BY <1>2, <1>3, AllIs
<1>5. joined = all
  <2>1. all.events \in Seq(Heads) /\ all.errors \in Seq(Nat)
    BY <1>4 DEF Reader
  <2>2. <<>> \o all.events = all.events /\ <<>> \o all.errors = all.errors
    BY <2>1, ConcatEmptySeq
  <2> QED BY <1>3, <1>4, <2>2 DEF All, Reader
<1> QED BY <1>4, <1>5

---------------------------------------------------------------------------
\* The ledger of the last read goes on with what a new read found if, and as,
\* a whole read would build it.

\* What a session_meta says is typed.
LEMMA MetaIs ==
    ASSUME NEW h \in Heads, IsMeta(h)
    PROVE  h[2] \in Ids /\ h[3] \in BOOLEAN
<1>1. h # Turn /\ h # Native
  BY DEF IsMeta, Turn, Native
<1>2. PICK s \in Sessions : h = <<"meta", s[1], s[2]>>
  BY <1>1 DEF Heads
<1>3. h[2] = s[1] /\ h[3] = s[2]
  BY <1>2
<1> QED BY <1>3, LiveReadAssumption DEF Ids

\* The first session_meta is one of the events.
LEMMA FirstMeta ==
    ASSUME NEW events \in Seq(Heads), Metas(events) # {}
    PROVE  /\ Min(Metas(events)) \in Metas(events)
           /\ \A i \in Metas(events) : Min(Metas(events)) <= i
<1>1. Metas(events) \in SUBSET Nat
  BY LenProperties DEF Metas
<1>2. \E x \in Metas(events) : \A y \in Metas(events) : x <= y
  BY <1>1, LeastExists
<1> QED BY <1>2 DEF Min

LEMMA InfoTypes ==
    ASSUME NEW events \in Seq(Heads)
    PROVE  /\ Info(events).id \in Ids \cup {None} /\ Info(events).sub \in BOOLEAN
           /\ Info(events) = [id |-> Info(events).id, sub |-> Info(events).sub]
<1>1. CASE Metas(events) = {}
  BY <1>1 DEF Info
<1>2. CASE Metas(events) # {}
  <2> DEFINE first == events[Min(Metas(events))]
  <2>1. Min(Metas(events)) \in 1..Len(events) /\ IsMeta(first)
    BY <1>2, FirstMeta, LenProperties DEF Metas
  <2>2. first \in Heads
    BY <2>1, ElementOfSeq
  <2>3. Info(events) = [id |-> first[2], sub |-> first[3]]
    BY <1>2 DEF Info
  <2> HIDE DEF first
  <2>4. first[2] \in Ids /\ first[3] \in BOOLEAN
    BY <2>1, <2>2, MetaIs DEF first
  <2> QED BY <2>3, <2>4
<1> QED BY <1>1, <1>2

\* Events that follow do not change which session it is.
LEMMA InfoOfMore ==
    ASSUME NEW es \in Seq(Heads), NEW new \in Seq(Heads), Metas(es) # {}
    PROVE  Info(es \o new) = Info(es)
<1> DEFINE all == es \o new
           m == Min(Metas(es))
<1>1. /\ all \in Seq(Heads) /\ Len(all) = Len(es) + Len(new)
      /\ \A i \in 1..(Len(es) + Len(new)) : all[i] = IF i <= Len(es) THEN es[i] ELSE new[i - Len(es)]
  BY ConcatProperties
<1>2. /\ Len(es) \in Nat /\ Len(new) \in Nat
      /\ DOMAIN es = 1..Len(es) /\ DOMAIN all = 1..(Len(es) + Len(new))
  <2>1. DOMAIN all = 1..Len(all)
    BY <1>1, LenProperties
  <2> QED BY <1>1, <2>1, LenProperties
<1> HIDE DEF all
<1>3. /\ m \in Metas(es) /\ m \in 1..Len(es) /\ IsMeta(es[m])
      /\ \A i \in Metas(es) : m <= i
  BY <1>2, FirstMeta DEF Metas
<1> HIDE DEF m
<1>4. \A i \in 1..Len(es) : all[i] = es[i] /\ i \in DOMAIN all
  BY <1>1, <1>2
<1>5. m \in Metas(all)
  BY <1>3, <1>4 DEF Metas
<1>6. \A i \in Metas(all) : m <= i
  <2> SUFFICES ASSUME NEW i \in 1..(Len(es) + Len(new)), IsMeta(all[i]) PROVE m <= i
    BY <1>2 DEF Metas
  <2>1. CASE i <= Len(es)
    <3>1. i \in 1..Len(es)
      BY <1>2, <2>1
    <3>2. i \in Metas(es)
      BY <1>2, <1>4, <3>1 DEF Metas
    <3> QED BY <1>3, <3>2
  <2>2. CASE i > Len(es)
    BY <1>2, <1>3, <2>2
  <2> QED BY <1>2, <2>1, <2>2
<1>7. Min(Metas(all)) = m
  <2>1. /\ Min(Metas(all)) \in Metas(all)
        /\ \A i \in Metas(all) : Min(Metas(all)) <= i
    BY <1>1, <1>5, FirstMeta
  <2>2. Min(Metas(all)) <= m /\ m <= Min(Metas(all))
    BY <1>5, <1>6, <2>1
  <2>3. Min(Metas(all)) \in Nat /\ m \in Nat
    BY <1>2, <1>3, <2>1 DEF Metas
  <2> QED BY <2>2, <2>3
<1>8. Metas(all) # {} /\ all[m] = es[m]
  BY <1>3, <1>4, <1>5
<1> QED BY <1>7, <1>8 DEF Info, m, all

\* b is the ledger builder a whole read of these events would make.
Builds(b, events) ==
    /\ ~Codex(events) => b = None
    /\ Codex(events) => /\ b \in Builders /\ b.fed = events
                        /\ Info(events) = [id |-> b.id, sub |-> b.sub]

\* A new builder, and one that is fed what a read added.
LEMMA NewBuilds ==
    ASSUME NEW events \in Seq(Heads), card \in {1, 2}, Codex(events)
    PROVE  Builds(NewBuilder(events), events)
<1>1. /\ Info(events).id \in Ids \cup {None} /\ Info(events).sub \in BOOLEAN
      /\ Info(events) = [id |-> Info(events).id, sub |-> Info(events).sub]
  BY InfoTypes
<1>2. NewBuilder(events) \in Builders
  BY <1>1 DEF NewBuilder, Builders
<1>3. /\ NewBuilder(events).fed = events /\ NewBuilder(events).id = Info(events).id
      /\ NewBuilder(events).sub = Info(events).sub
  BY DEF NewBuilder
<1> QED BY <1>1, <1>2, <1>3 DEF Builds

LEMMA BuilderBuilds ==
    ASSUME card \in {1, 2}, NEW append \in BOOLEAN, NEW new \in Seq(Heads), NEW all \in Seq(Heads),
           append => /\ held.events \in Seq(Heads) /\ all = held.events \o new
                     /\ held.builder # None => Builds(held.builder, held.events)
    PROVE  Builds(Builder(append, all, new), all)
<1> DEFINE b == Builder(append, all, new)
           goesOn == append /\ held.builder # None /\ Identity(held.builder) = Info(all)
<1>1. CASE ~Codex(all)
  BY <1>1 DEF Builder, Builds
<1>2. CASE Codex(all) /\ ~goesOn
  <2>1. b = NewBuilder(all)
    BY <1>2 DEF Builder
  <2> QED BY <1>2, <2>1, NewBuilds
<1>3. CASE Codex(all) /\ goesOn
  <2> DEFINE old == held.builder
             es == held.events
  <2>1. /\ es \in Seq(Heads) /\ all = es \o new /\ old # None /\ Builds(old, es)
        /\ Identity(old) = Info(all)
    BY <1>3
  <2>2. b = [old EXCEPT !.fed = old.fed \o new]
    BY <1>3 DEF Builder
  <2> HIDE DEF old, es, b
  <2>3. Codex(es) /\ old \in Builders /\ old.fed = es /\ Info(es) = [id |-> old.id, sub |-> old.sub]
    BY <2>1 DEF Builds
  <2>4. b \in Builders /\ b.fed = all /\ b.id = old.id /\ b.sub = old.sub
    BY <2>1, <2>2, <2>3 DEF Builders
  <2>5. Info(all) = [id |-> old.id, sub |-> old.sub]
    <3>1. CASE Metas(es) = {}
      <4>1. Identity(old) = [id |-> old.id, sub |-> old.sub]
        BY <2>3, <3>1 DEF Identity
      <4> QED BY <2>1, <4>1
    <3>2. CASE Metas(es) # {}
      BY <2>1, <2>3, <3>2, InfoOfMore
    <3> QED BY <3>1, <3>2
  <2> QED BY <1>3, <2>4, <2>5 DEF Builds, b
<1> QED BY <1>1, <1>2, <1>3

\* What is returned is then what a full read returns.
LEMMA SnapshotIsFull ==
    ASSUME NEW c, WellFormed(c), NEW r, r.events = Full(c).events, r.errors = Full(c).errors,
           NEW b, Builds(b, r.events)
    PROVE  Snapshot(r, b) = Full(c)
<1>1. Full(c) = [events |-> r.events, errors |-> r.errors, ledger |-> LedgerOf(r.events)]
  BY FullIs
<1>2. CASE ~Codex(r.events)
  <2>1. LedgerOf(<<Native>>) = [id |-> None, sub |-> FALSE, fed |-> <<>>]
    <3>1. Native \in Range(<<Native>>)
      <4>1. 1 \in DOMAIN <<Native>> /\ <<Native>>[1] = Native
        OBVIOUS
      <4> QED BY <4>1 DEF Range
    <3> QED BY <3>1 DEF LedgerOf, Codex
  <2>2. LedgerOf(r.events) = [id |-> None, sub |-> FALSE, fed |-> <<>>]
    BY <1>2 DEF LedgerOf
  <2>3. b = None
    BY <1>2 DEF Builds
  <2> QED BY <1>1, <2>1, <2>2, <2>3 DEF Snapshot
<1>3. CASE Codex(r.events)
  <2>1. b \in Builders /\ b.fed = r.events /\ Info(r.events) = [id |-> b.id, sub |-> b.sub]
    BY <1>3 DEF Builds
  <2>2. b # None
    BY <2>1, NoneAssumption
  <2>3. LedgerOf(r.events) = [id |-> b.id, sub |-> b.sub, fed |-> b.fed]
    BY <1>3, <2>1 DEF LedgerOf
  <2> QED BY <1>1, <2>2, <2>3 DEF Snapshot
<1> QED BY <1>2, <1>3

---------------------------------------------------------------------------
\* The invariant.

Newest == IF ino > 0 THEN ino ELSE -ino

FileOK == /\ WellFormed(content)
          /\ ino \in Int /\ stamp \in Nat /\ card \in {1, 2}
          /\ swapped \in BOOLEAN /\ torn \in BOOLEAN

\* The read under way saw the file at its path, or the file was swapped since.
StatOK == st # None =>
    /\ st.ino \in Nat /\ 0 < st.ino /\ st.ino <= Newest
    /\ st.stamp \in Nat /\ st.stamp <= stamp /\ st.size \in Nat
    /\ st.stamp = stamp /\ st.ino = ino => st.size = Len(content)
    /\ ~swapped => st.ino = ino

\* What is held is of an earlier state of the file; a file cut short since is
\* told by its size, unless it is cut during the read that looks at it.
HeldOK == held # None =>
    /\ held.ino \in Nat /\ 0 < held.ino /\ held.ino <= Newest
    /\ held.stamp \in Nat /\ held.stamp <= stamp /\ held.size \in Nat
    /\ held.stamp = stamp /\ held.ino = ino => held.size = Len(content)
    /\ st # None /\ held.stamp = st.stamp /\ held.ino = st.ino => held.size = st.size
    /\ held.ino = ino /\ ~torn => HeldReads(content, held) /\ Builds(held.builder, held.events)
    /\ torn => held.stamp < stamp /\ Len(content) <= held.size
    /\ torn /\ st # None /\ CanAppend => swapped /\ st.stamp < stamp

RowOK == \A row \in cache :
    /\ row.key.ino \in Nat /\ 0 < row.key.ino
    /\ row.key.stamp \in Nat /\ row.key.stamp <= stamp
    /\ row.key.stamp = stamp /\ row.key.ino = ino => row.snap = Full(content)

ReadInv == FileOK /\ StatOK /\ HeldOK /\ RowOK

---------------------------------------------------------------------------
\* The program that writes the file.

\* The file has a new time: no row and no stat is of it as it is.
LEMMA NewTimeKeeps ==
    ASSUME ReadInv, stamp' = stamp + 1, WellFormed(content'), ino' \in Int, Newest <= Newest',
           UNCHANGED <<card, st, held, cache>>, swapped' \in BOOLEAN, torn' \in BOOLEAN,
           st # None /\ ~swapped' => ~swapped /\ ino' = ino,
           held # None /\ ~torn' /\ held.ino = ino' =>
               ~torn /\ ino' = ino /\ (HeldReads(content, held) => HeldReads(content', held)),
           held # None /\ torn' => Len(content') <= held.size,
           held # None /\ st # None /\ torn' /\ ~swapped' => torn /\ ~swapped
    PROVE  ReadInv'
<1>1. /\ ino \in Int /\ stamp \in Nat /\ Newest \in Int /\ Newest' \in Int
  BY DEF ReadInv, FileOK, Newest
<1>2. FileOK'
  BY <1>1 DEF ReadInv, FileOK
<1>3. StatOK'
  <2> SUFFICES ASSUME st # None PROVE StatOK'
    BY DEF StatOK
  <2>1. /\ st.ino \in Nat /\ 0 < st.ino /\ st.ino <= Newest
        /\ st.stamp \in Nat /\ st.stamp <= stamp /\ st.size \in Nat
        /\ ~swapped => st.ino = ino
    BY DEF ReadInv, StatOK
  <2>2. st.ino <= Newest' /\ st.stamp <= stamp' /\ st.stamp # stamp'
    BY <1>1, <2>1
  <2>3. ~swapped' => st.ino = ino'
    BY <2>1
  <2> QED BY <2>1, <2>2, <2>3 DEF StatOK
<1>4. HeldOK'
  <2> SUFFICES ASSUME held # None PROVE HeldOK'
    BY DEF HeldOK
  <2>1. /\ held.ino \in Nat /\ 0 < held.ino /\ held.ino <= Newest
        /\ held.stamp \in Nat /\ held.stamp <= stamp /\ held.size \in Nat
        /\ st # None /\ held.stamp = st.stamp /\ held.ino = st.ino => held.size = st.size
    BY DEF ReadInv, HeldOK
  <2>2. held.ino <= Newest' /\ held.stamp < stamp'
    BY <1>1, <2>1
  <2>3. held.ino = ino' /\ ~torn' => HeldReads(content', held) /\ Builds(held.builder, held.events)
    <3> SUFFICES ASSUME held.ino = ino', ~torn'
                 PROVE  HeldReads(content', held) /\ Builds(held.builder, held.events)
      OBVIOUS
    <3>1. ~torn /\ ino' = ino /\ (HeldReads(content, held) => HeldReads(content', held))
      OBVIOUS
    <3>2. HeldReads(content, held) /\ Builds(held.builder, held.events)
      BY <3>1 DEF ReadInv, HeldOK
    <3> QED BY <3>1, <3>2
  <2>4. torn' /\ st # None /\ CanAppend' => swapped' /\ st.stamp < stamp'
    <3> SUFFICES ASSUME torn', st # None, CanAppend' PROVE swapped' /\ st.stamp < stamp'
      OBVIOUS
    <3>1. CanAppend
      BY DEF CanAppend
    <3>2. swapped'
      <4> SUFFICES ASSUME ~swapped' PROVE FALSE
        OBVIOUS
      <4>1. torn /\ ~swapped
        OBVIOUS
      <4> QED BY <3>1, <4>1 DEF ReadInv, HeldOK
    <3>3. st.stamp < stamp'
      BY <1>1 DEF ReadInv, StatOK
    <3> QED BY <3>2, <3>3
  <2>5. torn' => held.stamp < stamp' /\ Len(content') <= held.size
    BY <2>2
  <2>6. held' = held /\ st' = st /\ held.stamp # stamp' /\ held.stamp <= stamp'
    BY <1>1, <2>1, <2>2
  <2> QED BY <2>1, <2>2, <2>3, <2>4, <2>5, <2>6 DEF HeldOK
<1>5. RowOK'
  <2>1. \A row \in cache : row.key.stamp < stamp'
    BY <1>1 DEF ReadInv, RowOK
  <2>2. \A row \in cache : row.key.stamp # stamp' /\ row.key.stamp <= stamp'
    BY <1>1, <2>1 DEF ReadInv, RowOK
  <2> QED BY <2>2 DEF ReadInv, RowOK
<1> QED BY <1>2, <1>3, <1>4, <1>5 DEF ReadInv

\* The beginning of a file, and a file with one more symbol, are well formed.
LEMMA PrefixWellFormed ==
    ASSUME NEW c, WellFormed(c), NEW n \in 0..Len(c)
    PROVE  WellFormed(SubSeq(c, 1, n)) /\ Len(SubSeq(c, 1, n)) = n /\ \A i \in 1..n : SubSeq(c, 1, n)[i] = c[i]
<1>1. c \in Seq(Symbols) /\ Len(c) \in Nat
  BY LenProperties DEF WellFormed
<1>2. \A i \in 1..n : c[i] \in Symbols
  BY <1>1, ElementOfSeq
<1>3. /\ SubSeq(c, 1, n) \in Seq(Symbols)
      /\ Len(SubSeq(c, 1, n)) = IF 1 <= n THEN n - 1 + 1 ELSE 0
      /\ \A i \in 1..(n - 1 + 1) : SubSeq(c, 1, n)[i] = c[1 + i - 1]
  BY <1>1, <1>2, SubSeqProperties
<1> DEFINE d == SubSeq(c, 1, n)
<1> HIDE DEF d
<1>4. d \in Seq(Symbols) /\ Len(d) = n /\ \A i \in 1..n : d[i] = c[i]
  <2>1. n - 1 + 1 = n /\ \A i \in 1..n : 1 + i - 1 = i
    BY <1>1
  <2> QED BY <1>1, <1>3, <2>1 DEF d
<1>5. ASSUME NEW i \in 1..Len(d)
      PROVE  /\ d[i] = End => i > 1 /\ d[i - 1] \in Heads
             /\ d[i] \in Heads => i = 1 \/ d[i - 1] = NL
  <2>1. i \in 1..Len(c) /\ d[i] = c[i] /\ (i > 1 => d[i - 1] = c[i - 1]) /\ (i = 1 \/ i > 1)
    BY <1>1, <1>4
  <2>2. /\ c[i] = End => i > 1 /\ c[i - 1] \in Heads
        /\ c[i] \in Heads => i = 1 \/ c[i - 1] = NL
    BY <2>1 DEF WellFormed
  <2> QED BY <2>1, <2>2
<1>6. WellFormed(d)
  BY <1>4, <1>5 DEF WellFormed
<1> QED BY <1>4, <1>6 DEF d

LEMMA AppendWellFormed ==
    ASSUME WellFormed(content), NEW sym \in Symbols, Writable(sym), NEW d, d = Append(content, sym)
    PROVE  /\ WellFormed(d) /\ Len(d) = Len(content) + 1 /\ Len(content) \in Nat
           /\ \A i \in 1..Len(content) : content[i] = d[i]
<1>1. content \in Seq(Symbols) /\ Len(content) \in Nat
  BY LenProperties DEF WellFormed
<1>2. /\ d \in Seq(Symbols) /\ Len(d) = Len(content) + 1 /\ d[Len(content) + 1] = sym
      /\ \A i \in 1..Len(content) : d[i] = content[i]
  BY <1>1, AppendProperties
<1>3. ASSUME NEW i \in 1..Len(d)
      PROVE  /\ d[i] = End => i > 1 /\ d[i - 1] \in Heads
             /\ d[i] \in Heads => i = 1 \/ d[i - 1] = NL
  <2>1. CASE i \in 1..Len(content)
    <3>1. /\ content[i] = End => i > 1 /\ content[i - 1] \in Heads
          /\ content[i] \in Heads => i = 1 \/ content[i - 1] = NL
      BY <2>1 DEF WellFormed
    <3>2. d[i] = content[i] /\ (i = 1 \/ (i > 1 /\ d[i - 1] = content[i - 1]))
      BY <1>1, <1>2, <2>1
    <3> QED BY <3>1, <3>2
  <2>2. CASE i = Len(content) + 1
    <3> DEFINE before == IF content = <<>> THEN NL ELSE Last(content)
    <3>1. \/ sym \in Heads /\ before = NL
          \/ sym = End /\ before \in Heads
          \/ sym = NL
      BY DEF Writable
    <3>2. content = <<>> => i = 1
      BY <2>2, EmptySeq
    <3>3. content # <<>> => i > 1 /\ i - 1 \in 1..Len(content) /\ d[i - 1] = Last(content)
      <4> SUFFICES ASSUME content # <<>> PROVE i > 1 /\ i - 1 \in 1..Len(content) /\ d[i - 1] = Last(content)
        OBVIOUS
      <4>1. Len(content) # 0
        BY <1>1, EmptySeq
      <4>2. i - 1 = Len(content) /\ i - 1 \in 1..Len(content)
        BY <1>1, <2>2, <4>1
      <4> QED BY <1>1, <1>2, <2>2, <4>1, <4>2 DEF Last
    <3>4. d[i] = sym
      BY <1>2, <2>2
    <3> QED BY <3>1, <3>2, <3>3, <3>4, SymbolsDiffer
  <2> QED BY <1>1, <1>2, <2>1, <2>2
<1>4. WellFormed(d)
  BY <1>2, <1>3 DEF WellFormed
<1> QED BY <1>1, <1>2, <1>4

LEMMA WriteKeepsReads == ASSUME ReadInv, NEW sym \in Symbols, Write(sym) PROVE ReadInv'
<1>1. /\ content' = Append(content, sym) /\ Writable(sym) /\ stamp' = stamp + 1
      /\ UNCHANGED <<ino, card, st, held, cache, swapped, torn>>
      /\ torn /\ held # None => Len(content) < held.size
  BY DEF Write, call
<1>2. FileOK /\ (held # None => held.size \in Nat)
  BY DEF ReadInv, HeldOK
<1>3. /\ WellFormed(content') /\ Len(content') = Len(content) + 1 /\ Len(content) \in Nat
      /\ \A i \in 1..Len(content) : content[i] = content'[i]
  BY <1>1, <1>2, AppendWellFormed DEF FileOK
<1>4. Newest' = Newest /\ Newest \in Int /\ ino' \in Int
  BY <1>1, <1>2 DEF FileOK, Newest
<1>5. HeldReads(content, held) => HeldReads(content', held)
  <2>1. Len(content) <= Len(content') /\ Len(content') \in Nat
    BY <1>3
  <2> QED BY <1>3, <2>1, HeldReadsOn
<1>6. held # None /\ torn' => Len(content') <= held.size
  BY <1>1, <1>2, <1>3
<1>7. swapped' = swapped /\ torn' = torn /\ swapped' \in BOOLEAN /\ torn' \in BOOLEAN
  BY <1>1, <1>2 DEF FileOK
<1>8. Newest <= Newest'
  BY <1>4
<1> QED BY <1>1, <1>3, <1>4, <1>5, <1>6, <1>7, <1>8, NewTimeKeeps

LEMMA TouchKeepsReads == ASSUME ReadInv, Touch PROVE ReadInv'
<1>1. stamp' = stamp + 1 /\ UNCHANGED <<content, ino, card, st, held, cache, swapped, torn>>
  BY DEF Touch, call
<1>2. FileOK /\ (held # None /\ torn => Len(content) <= held.size)
  BY DEF ReadInv, HeldOK
<1>3. WellFormed(content') /\ ino' \in Int /\ swapped' \in BOOLEAN /\ torn' \in BOOLEAN
  BY <1>1, <1>2 DEF FileOK
<1>4. Newest <= Newest'
  BY <1>1, <1>2 DEF FileOK, Newest
<1>5. HeldReads(content, held) => HeldReads(content', held)
  BY <1>1
<1>6. held # None /\ torn' => Len(content') <= held.size
  BY <1>1, <1>2
<1> QED BY <1>1, <1>3, <1>4, <1>5, <1>6, NewTimeKeeps

LEMMA EmptyWellFormed == WellFormed(<<>>) /\ Len(<<>>) = 0
<1>1. <<>> \in Seq(Symbols) /\ Len(<<>>) = 0
  BY EmptySeq
<1> QED BY <1>1 DEF WellFormed

LEMMA TruncateKeepsReads == ASSUME ReadInv, Truncate PROVE ReadInv'
<1>1. /\ content' = <<>> /\ stamp' = stamp + 1 /\ swapped' = (st # None) /\ torn' = (held # None \/ st # None)
      /\ UNCHANGED <<ino, card, st, held, cache>>
  BY DEF Truncate, Swap, call
<1>2. FileOK /\ (held # None => held.size \in Nat)
  BY DEF ReadInv, HeldOK
<1>3. WellFormed(content') /\ Len(content') = 0
  BY <1>1, EmptyWellFormed
<1>4. ino' \in Int /\ Newest <= Newest'
  BY <1>1, <1>2 DEF FileOK, Newest
<1>5. swapped' \in BOOLEAN /\ torn' \in BOOLEAN
  BY <1>1
<1>6. held # None => torn'
  BY <1>1
<1>7. st # None => swapped'
  BY <1>1
<1>8. held # None /\ torn' => Len(content') <= held.size
  BY <1>2, <1>3
<1> QED BY <1>1, <1>3, <1>4, <1>5, <1>6, <1>7, <1>8, NewTimeKeeps

LEMMA ReplaceKeepsReads == ASSUME ReadInv, Replace PROVE ReadInv'
<1>1. PICK n \in 0..Len(content) : content' = SubSeq(content, 1, n)
  BY DEF Replace
<1>2. /\ ino' = IF Exists THEN ino + 1 ELSE 1 - ino
      /\ stamp' = stamp + 1 /\ swapped' = (st # None)
      /\ UNCHANGED <<card, st, held, cache, torn>>
  BY DEF Replace, Swap, call
<1>3. /\ FileOK
      /\ held # None => held.size \in Nat /\ held.ino \in Nat /\ held.ino <= Newest
      /\ held # None /\ torn => Len(content) <= held.size
  BY DEF ReadInv, HeldOK
<1>4. WellFormed(content') /\ Len(content') = n /\ Len(content) \in Nat
  BY <1>1, <1>3, PrefixWellFormed, LenProperties DEF FileOK, WellFormed
<1>5. ino' \in Int /\ ino' = Newest + 1 /\ Newest' = Newest + 1 /\ Newest \in Nat
  BY <1>2, <1>3 DEF FileOK, Newest, Exists
<1>6. Newest <= Newest' /\ (held # None => held.ino # ino')
  BY <1>3, <1>5
<1>7. swapped' \in BOOLEAN /\ torn' \in BOOLEAN
  BY <1>2, <1>3 DEF FileOK
<1>8. held # None /\ torn' => Len(content') <= held.size
  BY <1>1, <1>2, <1>3, <1>4
<1>9. st # None => swapped'
  BY <1>2
<1> QED BY <1>2, <1>4, <1>5, <1>6, <1>7, <1>8, <1>9, NewTimeKeeps

\* The path is empty: nothing that is kept is of the file there.
LEMMA UnlinkKeepsReads == ASSUME ReadInv, Unlink PROVE ReadInv'
<1>1. /\ ino > 0 /\ content' = <<>> /\ ino' = -ino /\ swapped' = (st # None)
      /\ UNCHANGED <<stamp, card, st, held, cache, torn>>
  BY DEF Unlink, Swap, call, Exists
<1>2. /\ WellFormed(content') /\ Len(content') = 0
  BY <1>1, EmptyWellFormed
<1>3. FileOK
  BY DEF ReadInv
<1>4. /\ ino \in Int /\ ino' \in Int /\ ino' < 0 /\ Newest' = Newest
  BY <1>1, <1>3 DEF FileOK, Newest
<1>5. FileOK'
  <2>1. swapped' \in BOOLEAN
    BY <1>1
  <2> QED BY <1>1, <1>2, <1>3, <1>4, <2>1 DEF FileOK
<1>6. StatOK'
  <2> SUFFICES ASSUME st # None PROVE StatOK'
    BY <1>1 DEF StatOK
  <2>1. /\ st.ino \in Nat /\ 0 < st.ino /\ st.ino <= Newest
        /\ st.stamp \in Nat /\ st.stamp <= stamp /\ st.size \in Nat
    BY DEF ReadInv, StatOK
  <2>2. st.ino # ino'
    BY <1>4, <2>1
  <2> QED BY <1>1, <1>4, <2>1, <2>2 DEF StatOK
<1>7. HeldOK'
  <2> SUFFICES ASSUME held # None PROVE HeldOK'
    BY <1>1 DEF HeldOK
  <2>1. /\ held.ino \in Nat /\ 0 < held.ino /\ held.ino <= Newest
        /\ held.stamp \in Nat /\ held.stamp <= stamp /\ held.size \in Nat
        /\ st # None /\ held.stamp = st.stamp /\ held.ino = st.ino => held.size = st.size
        /\ torn => held.stamp < stamp
        /\ torn /\ st # None /\ CanAppend => st.stamp < stamp
    BY DEF ReadInv, HeldOK
  <2>2. held.ino # ino' /\ Len(content') <= held.size
    BY <1>2, <1>4, <2>1
  <2>3. torn' /\ st' # None /\ CanAppend' => swapped' /\ st'.stamp < stamp'
    <3> SUFFICES ASSUME torn, st # None, CanAppend' PROVE swapped' /\ st.stamp < stamp
      BY <1>1
    <3>1. CanAppend
      BY <1>1 DEF CanAppend
    <3>2. swapped'
      BY <1>1
    <3> QED BY <2>1, <3>1, <3>2
  <2>4. torn' => held'.stamp < stamp' /\ Len(content') <= held'.size
    BY <1>1, <2>1, <2>2
  <2> QED BY <1>1, <1>4, <2>1, <2>2, <2>3, <2>4 DEF HeldOK
<1>8. RowOK'
  <2>1. \A row \in cache : row.key.ino # ino'
    BY <1>4 DEF ReadInv, RowOK
  <2> QED BY <1>1, <2>1 DEF ReadInv, RowOK
<1> QED BY <1>5, <1>6, <1>7, <1>8 DEF ReadInv

---------------------------------------------------------------------------
\* The engine.

\* What is kept of the file is dropped, or nothing of it changes.
LEMMA LessHeld ==
    ASSUME ReadInv, UNCHANGED <<content, ino, stamp>>, card' \in {1, 2},
           (st' = st /\ swapped' = swapped) \/ (st' = None /\ swapped' = FALSE),
           (held' = held /\ torn' = torn) \/ (held' = None /\ torn' \in BOOLEAN), cache' \subseteq cache
    PROVE  ReadInv'
<1>1. FileOK /\ StatOK /\ HeldOK /\ RowOK
  BY DEF ReadInv
<1>2. swapped' \in BOOLEAN /\ torn' \in BOOLEAN /\ Newest' = Newest
  BY <1>1 DEF FileOK, Newest
<1>3. FileOK'
  BY <1>1, <1>2 DEF FileOK
<1>4. StatOK'
  BY <1>1, <1>2 DEF StatOK
<1>5. HeldOK'
  <2> SUFFICES ASSUME held # None, held' = held, torn' = torn PROVE HeldOK'
    BY DEF HeldOK
  <2>1. /\ held.ino \in Nat /\ 0 < held.ino /\ held.ino <= Newest
        /\ held.stamp \in Nat /\ held.stamp <= stamp /\ held.size \in Nat
        /\ held.stamp = stamp /\ held.ino = ino => held.size = Len(content)
        /\ st # None /\ held.stamp = st.stamp /\ held.ino = st.ino => held.size = st.size
        /\ held.ino = ino /\ ~torn => HeldReads(content, held) /\ Builds(held.builder, held.events)
        /\ torn => held.stamp < stamp /\ Len(content) <= held.size
        /\ torn /\ st # None /\ CanAppend => swapped /\ st.stamp < stamp
    BY <1>1 DEF HeldOK
  <2>2. CASE st' = None
    BY <1>2, <2>1, <2>2 DEF HeldOK
  <2>3. CASE st' = st /\ swapped' = swapped
    <3>1. CanAppend' = CanAppend
      BY <2>3 DEF CanAppend
    <3> QED BY <1>2, <2>1, <2>3, <3>1 DEF HeldOK
  <2> QED BY <2>2, <2>3
<1>6. RowOK'
  BY <1>1 DEF RowOK
<1> QED BY <1>3, <1>4, <1>5, <1>6 DEF ReadInv

\* A stat of a file cut short since the last read does not let it go on.
LEMMA BeginKeepsReads == ASSUME ReadInv, NEW by, Begin(by) PROVE ReadInv'
<1> DEFINE stat == [ino |-> ino, size |-> Len(content), stamp |-> stamp, live |-> live]
           rows == {row \in cache : ~live /\ row.key = Key(stat)}
<1>1. /\ st = None /\ ino > 0 /\ UNCHANGED <<content, ino, stamp, card, held, cache, torn>>
      /\ \/ \E row \in rows : Return(row.snap, row.card)
         \/ rows = {} /\ st' = stat /\ swapped' = FALSE
  BY DEF Begin, Return, file, Exists
<1>2. FileOK /\ HeldOK /\ RowOK
  BY DEF ReadInv
<1> HIDE DEF stat
<1>4. CASE \E row \in rows : Return(row.snap, row.card)
  <2>1. st' = None /\ swapped' = FALSE
    BY <1>4 DEF Return, Idle
  <2>2. card' \in {1, 2} /\ torn' \in BOOLEAN
    BY <1>1, <1>2 DEF FileOK
  <2> QED BY <1>1, <2>1, <2>2, LessHeld
<1>5. CASE rows = {} /\ st' = stat /\ swapped' = FALSE
  <2>1. st'.ino = ino /\ st'.size = Len(content) /\ st'.stamp = stamp
    BY <1>5 DEF stat
  <2>2. Newest' = Newest /\ Newest = ino /\ Len(content) \in Nat /\ stamp \in Nat /\ ino \in Int
    BY <1>1, <1>2, LenProperties DEF FileOK, Newest, WellFormed
  <2>3. FileOK'
    <3>1. swapped' \in BOOLEAN
      BY <1>5
    <3> QED BY <1>1, <1>2, <3>1 DEF FileOK
  <2>4. StatOK'
    BY <1>1, <2>1, <2>2 DEF StatOK
  <2>5. HeldOK'
    <3> SUFFICES ASSUME held # None PROVE HeldOK'
      BY <1>1 DEF HeldOK
    <3>1. /\ held.ino \in Nat /\ 0 < held.ino /\ held.ino <= Newest
          /\ held.stamp \in Nat /\ held.stamp <= stamp /\ held.size \in Nat
          /\ held.stamp = stamp /\ held.ino = ino => held.size = Len(content)
          /\ held.ino = ino /\ ~torn => HeldReads(content, held) /\ Builds(held.builder, held.events)
          /\ torn => held.stamp < stamp /\ Len(content) <= held.size
      BY <1>2 DEF HeldOK
    <3>2. ~(torn' /\ CanAppend')
      <4> SUFFICES ASSUME torn, CanAppend' PROVE FALSE
        BY <1>1
      <4>1. st'.size > held.size \/ st'.stamp = held.stamp
        BY <1>1 DEF CanAppend
      <4> QED BY <2>1, <2>2, <3>1, <4>1
    <3>3. held.stamp = st'.stamp /\ held.ino = st'.ino => held.size = st'.size
      BY <2>1, <3>1
    <3> QED BY <1>1, <2>2, <3>1, <3>2, <3>3 DEF HeldOK
  <2>6. RowOK'
    BY <1>1, <1>2 DEF RowOK
  <2> QED BY <2>3, <2>4, <2>5, <2>6 DEF ReadInv
<1> QED BY <1>1, <1>4, <1>5

LEMMA HeldGoesOn ==
    ASSUME WellFormed(content), NEW h, HeldReads(content, h),
           NEW new, new = ReadFrom(h.offset, h.rest), NEW all, all = All(h.events, h.errors, new)
    PROVE  /\ HeldReads(content, all) /\ new.events \in Seq(Heads) /\ all \in Reader
           /\ Joined(all.events, h.events, new.events)
           /\ all.events = Full(content).events /\ all.errors = Full(content).errors
<1>1. Begins(content, h.rest, h.offset, h.offset + Len(h.rest), h.events, h.errors)
  BY DEF HeldReads, Begins
<1> QED BY <1>1, AllIs

\* A read that goes on from what is held answers as a whole one.
LEMMA ReadOnIsFull ==
    ASSUME ReadInv, CanAppend, held.ino = ino, ~torn,
           NEW new, new = ReadFrom(held.offset, held.rest),
           NEW all, all = All(held.events, held.errors, new),
           NEW b, b = Builder(TRUE, all.events, new.events)
    PROVE  HeldReads(content, all) /\ Builds(b, all.events) /\ Snapshot(all, b) = Full(content)
<1>1. /\ held # None /\ WellFormed(content) /\ card \in {1, 2}
      /\ HeldReads(content, held) /\ Builds(held.builder, held.events)
  BY DEF CanAppend, ReadInv, FileOK, HeldOK
<1>2. HeldReads(content, all) /\ new.events \in Seq(Heads) /\ all \in Reader
  BY <1>1, HeldGoesOn
<1>3. /\ Joined(all.events, held.events, new.events)
      /\ all.events = Full(content).events /\ all.errors = Full(content).errors
  BY <1>1, HeldGoesOn
<1>4. all.events \in Seq(Heads) /\ held.events \in Seq(Heads)
  BY <1>1, <1>2 DEF Reader, HeldReads
<1>5. Builds(b, all.events)
  BY <1>1, <1>2, <1>3, <1>4, BuilderBuilds DEF Joined
<1> QED BY <1>1, <1>2, <1>3, <1>5, SnapshotIsFull

\* So does one that begins anew.
LEMMA ReadAnewIsFull ==
    ASSUME ReadInv, NEW all, all = ReadFrom(0, <<>>),
           NEW b, b = Builder(FALSE, all.events, all.events)
    PROVE  HeldReads(content, all) /\ Builds(b, all.events) /\ Snapshot(all, b) = Full(content)
<1>1. WellFormed(content) /\ card \in {1, 2}
  BY DEF ReadInv, FileOK
<1>2. /\ HeldReads(content, all) /\ all \in Reader
      /\ all.events = Full(content).events /\ all.errors = Full(content).errors
  BY <1>1, WholeIs
<1>3. all.events \in Seq(Heads)
  BY <1>2 DEF Reader
<1>4. Builds(b, all.events)
  BY <1>1, <1>3, BuilderBuilds
<1> QED BY <1>1, <1>2, <1>4, SnapshotIsFull

\* A live file's read: what it leaves in memory is right, and its answer too
\* unless the file was swapped.
LEMMA ReadOnReads == ASSUME ReadInv, ReadOn PROVE ReadInv' /\ (swapped \/ parsed' = Full(content))
<1> DEFINE new == IF CanAppend THEN ReadFrom(held.offset, held.rest) ELSE ReadFrom(0, <<>>)
           all == IF CanAppend THEN [new EXCEPT !.events = held.events \o @, !.errors = held.errors \o @]
                  ELSE new
           b == Builder(CanAppend, all.events, new.events)
<1>1. /\ held' = [ino |-> st.ino, size |-> st.size, stamp |-> st.stamp,
                  offset |-> all.offset, rest |-> all.rest,
                  events |-> all.events, errors |-> all.errors, builder |-> b]
      /\ Return(Snapshot(all, b), IF b = None THEN card ELSE b.card)
  BY DEF ReadOn
<1>2. /\ CanAppend => new = ReadFrom(held.offset, held.rest) /\ all = All(held.events, held.errors, new)
                      /\ b = Builder(TRUE, all.events, new.events)
      /\ ~CanAppend => new = ReadFrom(0, <<>>) /\ all = new /\ b = Builder(FALSE, all.events, all.events)
  <2>1. CASE CanAppend
    <3>1. CanAppend = TRUE
      BY <2>1 DEF CanAppend
    <3>2. new = ReadFrom(held.offset, held.rest)
      BY <2>1
    <3>3. all = All(held.events, held.errors, new)
      <4> HIDE DEF new
      <4> QED BY <2>1 DEF All
    <3>4. b = Builder(TRUE, all.events, new.events)
      <4> HIDE DEF new, all
      <4> QED BY <3>1
    <3> QED BY <2>1, <3>2, <3>3, <3>4
  <2>2. CASE ~CanAppend
    <3>1. CanAppend = FALSE
      BY <2>2 DEF CanAppend
    <3>2. new = ReadFrom(0, <<>>)
      BY <2>2
    <3>3. all = new
      <4> HIDE DEF new
      <4> QED BY <2>2
    <3>4. b = Builder(FALSE, all.events, all.events)
      <4> HIDE DEF new, all
      <4> QED BY <3>1, <3>3
    <3> QED BY <2>2, <3>2, <3>3, <3>4
  <2> HIDE DEF new, all, b
  <2> QED BY <2>1, <2>2
<1> HIDE DEF new, all, b
<1>3. /\ st # None /\ st' = None /\ swapped' = FALSE /\ torn' = (torn /\ CanAppend)
      /\ UNCHANGED <<content, ino, stamp, card, cache>>
      /\ parsed' = Snapshot(all, b)
  BY <1>1 DEF ReadOn, Return, Idle, file
<1>4. /\ held'.ino = st.ino /\ held'.size = st.size /\ held'.stamp = st.stamp
      /\ held'.offset = all.offset /\ held'.rest = all.rest /\ held'.events = all.events
      /\ held'.errors = all.errors /\ held'.builder = b
  BY <1>1
<1>5. FileOK /\ HeldOK /\ RowOK
  BY DEF ReadInv
<1>6. /\ st.ino \in Nat /\ 0 < st.ino /\ st.ino <= Newest
      /\ st.stamp \in Nat /\ st.stamp <= stamp /\ st.size \in Nat
      /\ st.stamp = stamp /\ st.ino = ino => st.size = Len(content)
      /\ ~swapped => st.ino = ino
  BY <1>3 DEF ReadInv, StatOK
<1>7. CanAppend => held # None /\ held.ino = st.ino /\ (st.size > held.size \/ st.stamp = held.stamp)
  BY DEF CanAppend
<1>8. CASE CanAppend => held.ino = ino /\ ~torn
  <2>1. HeldReads(content, all) /\ Builds(b, all.events) /\ Snapshot(all, b) = Full(content)
    <3>1. CASE CanAppend
      BY <1>2, <1>8, <3>1, ReadOnIsFull
    <3>2. CASE ~CanAppend
      BY <1>2, <3>2, ReadAnewIsFull
    <3> QED BY <3>1, <3>2
  <2>2. HeldReads(content, held') /\ Builds(held'.builder, held'.events)
    BY <1>4, <2>1 DEF HeldReads
  <2>3. ~torn'
    BY <1>3, <1>8
  <2>4. HeldOK'
    BY <1>3, <1>4, <1>6, <2>2, <2>3 DEF HeldOK, Newest
  <2>5. FileOK' /\ RowOK' /\ StatOK'
    <3>1. swapped' \in BOOLEAN /\ torn' \in BOOLEAN
      BY <1>3
    <3> QED BY <1>3, <1>5, <3>1 DEF FileOK, RowOK, StatOK
  <2> QED BY <1>3, <2>1, <2>4, <2>5 DEF ReadInv
<1>9. CASE ~(CanAppend => held.ino = ino /\ ~torn)
  <2>1. CanAppend /\ (held.ino = ino => torn)
    BY <1>9
  <2>2. /\ held # None /\ held.ino = st.ino /\ (st.size > held.size \/ st.stamp = held.stamp)
        /\ held.size \in Nat /\ (held.stamp = st.stamp => held.size = st.size)
        /\ torn => swapped /\ st.stamp < stamp /\ Len(content) <= held.size
    BY <1>3, <1>5, <1>7, <2>1 DEF HeldOK
  <2>3. swapped
    <3>1. CASE held.ino = ino
      BY <2>1, <2>2, <3>1
    <3>2. CASE held.ino # ino
      BY <1>6, <2>2, <3>2
    <3> QED BY <3>1, <3>2
  <2>4. held'.ino = ino => torn'
    BY <1>3, <1>4, <2>1, <2>2
  <2>5. torn => st.stamp < stamp /\ Len(content) <= st.size
    <3>1. Len(content) \in Nat
      BY <1>5, LenProperties DEF FileOK, WellFormed
    <3> QED BY <1>6, <2>2, <3>1
  <2>6. torn' => torn
    BY <1>3
  <2>7. HeldOK'
    BY <1>3, <1>4, <1>6, <2>4, <2>5, <2>6 DEF HeldOK, Newest
  <2>8. FileOK' /\ RowOK' /\ StatOK'
    <3>1. swapped' \in BOOLEAN /\ torn' \in BOOLEAN
      BY <1>3
    <3> QED BY <1>3, <1>5, <3>1 DEF FileOK, RowOK, StatOK
  <2> QED BY <2>3, <2>7, <2>8 DEF ReadInv
<1> QED BY <1>8, <1>9

\* A read of the whole file answers as it should, and its row does.
LEMMA ReadWholeReads == ASSUME ReadInv, ReadWhole PROVE ReadInv' /\ parsed' = Full(content)
<1> DEFINE all == ReadFrom(0, <<>>)
           b == IF Codex(all.events) THEN NewBuilder(all.events) ELSE None
           snap == Snapshot(all, b)
<1>1. /\ Return(snap, card)
      /\ cache' = IF st.live THEN cache
                  ELSE {row \in cache : row.key # Key(st)} \cup {[key |-> Key(st), snap |-> snap, card |-> card]}
  BY DEF ReadWhole
<1>2. b = Builder(FALSE, all.events, all.events)
  BY DEF Builder
<1> HIDE DEF all
<1>3. snap = Full(content)
  BY <1>2, ReadAnewIsFull DEF all
<1> HIDE DEF snap
<1>4. /\ st # None /\ st' = None /\ swapped' = FALSE /\ torn' = FALSE /\ held' = None
      /\ UNCHANGED <<content, ino, stamp, card>> /\ parsed' = Full(content)
  BY <1>1, <1>3 DEF ReadWhole, Return, Idle, file
<1>5. FileOK /\ StatOK /\ RowOK
  BY DEF ReadInv
<1>6. FileOK' /\ StatOK' /\ HeldOK'
  <2>1. swapped' \in BOOLEAN /\ torn' \in BOOLEAN
    BY <1>4
  <2> QED BY <1>4, <1>5, <2>1 DEF FileOK, StatOK, HeldOK
<1>7. RowOK'
  <2> SUFFICES ASSUME NEW row \in cache'
               PROVE  /\ row.key.ino \in Nat /\ 0 < row.key.ino
                      /\ row.key.stamp \in Nat /\ row.key.stamp <= stamp
                      /\ row.key.stamp = stamp /\ row.key.ino = ino => row.snap = Full(content)
    BY <1>4 DEF RowOK
  <2>1. CASE row \in cache
    BY <1>5, <2>1 DEF RowOK
  <2>2. CASE row \notin cache
    <3>1. row = [key |-> Key(st), snap |-> snap, card |-> card]
      BY <1>1, <2>2
    <3>2. row.key.ino = st.ino /\ row.key.stamp = st.stamp /\ row.snap = Full(content)
      BY <1>3, <3>1 DEF Key
    <3> QED BY <1>4, <1>5, <3>2 DEF StatOK
  <2> QED BY <2>1, <2>2
<1> QED BY <1>4, <1>6, <1>7 DEF ReadInv

---------------------------------------------------------------------------

LEMMA StepKeepsReads == ReadInv /\ [Next]_vars => ReadInv'
<1> SUFFICES ASSUME ReadInv, [Next]_vars PROVE ReadInv'
  OBVIOUS
<1>1. CASE \E sym \in Heads \cup {End, NL} : Write(sym)
  BY <1>1, WriteKeepsReads DEF Symbols
<1>2. CASE Touch \/ Truncate \/ Replace \/ Unlink
  BY <1>2, TouchKeepsReads, TruncateKeepsReads, ReplaceKeepsReads, UnlinkKeepsReads
<1>3. CASE \E by \in {"append", "whole", "reprice"} : Begin(by)
  BY <1>3, BeginKeepsReads
<1>4. CASE ReadOn
  BY <1>4, ReadOnReads
<1>5. CASE ReadWhole
  BY <1>5, ReadWholeReads
<1>6. CASE Age \/ Fail \/ Forget \/ PruneCache \/ Restart \/ EditRates \/ UNCHANGED vars
  <2>1. FileOK
    BY DEF ReadInv
  <2>2. UNCHANGED <<content, ino, stamp>> /\ cache' \subseteq cache
    BY <1>6 DEF Age, Fail, Forget, PruneCache, Restart, EditRates, vars, file
  <2>3. card' = card \/ card' = 3 - card
    BY <1>6 DEF Age, Fail, Forget, PruneCache, Restart, EditRates, vars, file
  <2>4. card' \in {1, 2}
    BY <2>1, <2>3 DEF FileOK
  <2>5. (st' = st /\ swapped' = swapped) \/ (st' = None /\ swapped' = FALSE)
    BY <1>6 DEF Age, Fail, Forget, PruneCache, Restart, EditRates, vars, call, Idle
  <2>6. (held' = held /\ torn' = torn) \/ (held' = None /\ torn' = FALSE) \/ (held' = None /\ torn' = torn)
    BY <1>6 DEF Age, Fail, Forget, PruneCache, Restart, EditRates, vars
  <2>7. (held' = held /\ torn' = torn) \/ (held' = None /\ torn' \in BOOLEAN)
    BY <2>1, <2>6 DEF FileOK
  <2> QED BY <2>2, <2>4, <2>5, <2>7, LessHeld
<1> QED BY <1>1, <1>2, <1>3, <1>4, <1>5, <1>6 DEF Next

LEMMA ReadsStart == Init => ReadInv
<1> SUFFICES ASSUME Init PROVE ReadInv
  OBVIOUS
<1>1. WellFormed(content)
  BY EmptyWellFormed DEF Init
<1>2. FileOK
  <2>1. swapped \in BOOLEAN /\ torn \in BOOLEAN
    BY DEF Init
  <2>2. ino \in Int /\ stamp \in Nat /\ card \in {1, 2}
    BY DEF Init
  <2> QED BY <1>1, <2>1, <2>2 DEF FileOK
<1>3. StatOK /\ HeldOK /\ RowOK
  BY DEF Init, StatOK, HeldOK, RowOK
<1> QED BY <1>2, <1>3 DEF ReadInv

LEMMA ReadInvAlways == Spec => []ReadInv
<1> QED BY ReadsStart, StepKeepsReads, PTL DEF Spec

\* What is held is the parse of the file up to where the next read goes on.
FitsTo(c, h, size) ==
    /\ size <= Len(c)
    /\ h.events = Full(SubSeq(c, 1, size)).events /\ h.errors = Full(SubSeq(c, 1, size)).errors
    /\ NL \notin Range(h.rest)
    /\ SubSeq(c, h.offset + 1, size) = h.rest

LEMMA HeldReadsFits ==
    ASSUME NEW c, WellFormed(c), NEW h, HeldReads(c, h), NEW size, size = h.offset + Len(h.rest)
    PROVE  FitsTo(c, h, size)
<1> DEFINE rest == h.rest
           offset == h.offset
           d == SubSeq(c, 1, size)
<1>1. /\ Stands(c, rest, offset, size) /\ ~Valid(rest)
      /\ EventsTo(c, offset) = h.events /\ ErrorsTo(c, offset) = h.errors
  BY DEF HeldReads
<1>2. size = offset + Len(rest)
  OBVIOUS
<1> HIDE DEF rest, offset
<1>3. /\ rest \in Seq(Symbols) /\ offset \in Nat /\ Len(rest) \in Nat /\ DOMAIN rest = 1..Len(rest)
      /\ size \in Nat /\ size <= Len(c) /\ Len(c) \in Nat /\ c \in Seq(Symbols)
  BY <1>1, <1>2, LenProperties DEF Stands, WellFormed
<1>4. WellFormed(d) /\ Len(d) = size /\ \A i \in 1..size : d[i] = c[i]
  BY <1>3, PrefixWellFormed
<1> HIDE DEF d
<1>5. Stands(d, rest, offset, size)
  <2>1. \A i \in 1..Len(rest) : rest[i] = d[offset + i] /\ rest[i] # NL
    <3>1. \A i \in 1..Len(rest) : offset + i \in 1..size
      BY <1>2, <1>3
    <3>2. \A i \in 1..Len(rest) : rest[i] = c[offset + i] /\ rest[i] # NL
      BY <1>1 DEF Stands
    <3> QED BY <1>4, <3>1, <3>2
  <2>2. offset = 0 \/ d[offset] = c[offset]
    <3>1. offset = 0 \/ offset \in 1..size
      BY <1>2, <1>3
    <3> QED BY <1>4, <3>1
  <2>3. offset = 0 \/ d[offset] = NL \/ (d[offset] = End /\ Len(rest) = 0)
    BY <1>1, <2>2 DEF Stands
  <2>4. size <= Len(d)
    BY <1>3, <1>4
  <2> QED BY <1>2, <1>3, <2>1, <2>3, <2>4 DEF Stands
<1>6. EventsTo(d, offset) = EventsTo(c, offset) /\ ErrorsTo(d, offset) = ErrorsTo(c, offset)
  <2>1. \A i \in 1..offset : d[i] = c[i]
    BY <1>2, <1>3, <1>4
  <2> QED BY <1>3, <2>1, SamePrefix
<1>7. EventsTo(d, size) = EventsTo(d, offset) /\ ErrorsTo(d, size) = ErrorsTo(d, offset)
  BY <1>1, <1>4, <1>5, FoundThere
<1>8. Full(d).events = EventsTo(d, size) /\ Full(d).errors = ErrorsTo(d, size)
  BY <1>4, FullIs
<1>9. NL \notin Range(rest)
  <2>1. \A i \in 1..Len(rest) : rest[i] # NL
    BY <1>1 DEF Stands
  <2> QED BY <1>3, <2>1 DEF Range
<1>10. SubSeq(c, offset + 1, size) = rest
  <2> DEFINE part == SubSeq(c, offset + 1, size)
  <2>1. \A i \in (offset + 1)..size : c[i] \in Symbols
    BY <1>3, ElementOfSeq
  <2>2. offset + 1 \in Int /\ size \in Int /\ size - (offset + 1) + 1 = Len(rest)
    BY <1>2, <1>3
  <2>3. /\ part \in Seq(Symbols)
        /\ Len(part) = IF offset + 1 <= size THEN size - (offset + 1) + 1 ELSE 0
        /\ \A i \in 1..(size - (offset + 1) + 1) : part[i] = c[(offset + 1) + i - 1]
    BY <2>1, <2>2, SubSeqProperties
  <2> HIDE DEF part
  <2>4. Len(part) = Len(rest)
    BY <1>2, <1>3, <2>2, <2>3
  <2>5. \A i \in 1..Len(rest) : part[i] = rest[i]
    <3>1. \A i \in 1..Len(rest) : (offset + 1) + i - 1 = offset + i
      BY <1>3
    <3>2. \A i \in 1..Len(rest) : rest[i] = c[offset + i]
      BY <1>1 DEF Stands
    <3> QED BY <2>2, <2>3, <3>1, <3>2
  <2> QED BY <1>3, <2>3, <2>4, <2>5, SeqEqual DEF part
<1> QED BY <1>1, <1>3, <1>6, <1>7, <1>8, <1>9, <1>10 DEF rest, offset, d, FitsTo

\* Such a builder has the ledger of the events.
LEMMA BuildsLedger ==
    ASSUME NEW b, NEW events, Builds(b, events), b # None
    PROVE  LedgerOf(events) = [id |-> b.id, sub |-> b.sub, fed |-> b.fed]
<1>1. Codex(events) /\ b.fed = events /\ Info(events) = [id |-> b.id, sub |-> b.sub]
  BY DEF Builds
<1>2. Info(events).id = b.id /\ Info(events).sub = b.sub
  BY <1>1
<1> QED BY <1>1, <1>2 DEF LedgerOf

\* The invariant says what HeldFits does.
LEMMA ReadInvFits == ReadInv => HeldFits
<1> SUFFICES ASSUME ReadInv, held # None, held.ino = ino, ~torn PROVE HeldFits
  BY DEF HeldFits
<1>1. WellFormed(content) /\ HeldReads(content, held) /\ Builds(held.builder, held.events)
  BY DEF ReadInv, FileOK, HeldOK
<1> DEFINE size == held.offset + Len(held.rest)
<1>2. size = held.offset + Len(held.rest)
  OBVIOUS
<1>3. FitsTo(content, held, size)
  <2> HIDE DEF size
  <2> QED BY <1>1, <1>2, HeldReadsFits
<1>4. held.builder # None =>
          LedgerOf(held.events) = [id |-> held.builder.id, sub |-> held.builder.sub, fed |-> held.builder.fed]
  BY <1>1, BuildsLedger
<1> QED BY <1>3, <1>4 DEF HeldFits, FitsTo

\* For any identities a file may name and any bounds: what the engine holds of a
\* file is the parse of its beginning, up to where the next read goes on, and the
\* ledger the one a whole read would build, whatever writes, replacements, failures
\* and other reads came in between (ingest.ts liveReadStates).
THEOREM HeldFitsAlways == Spec => []HeldFits
<1> QED BY ReadInvAlways, ReadInvFits, PTL

\* A row of the cache that answers is the parse of the file as it is.
LEMMA BeginAnswers ==
    ASSUME ReadInv, NEW by, Begin(by) PROVE content' = content /\ (parsed' = None \/ parsed' = Full(content))
<1> DEFINE stat == [ino |-> ino, size |-> Len(content), stamp |-> stamp, live |-> live]
           rows == {row \in cache : ~live /\ row.key = Key(stat)}
<1>1. /\ content' = content
      /\ (\E row \in rows : Return(row.snap, row.card)) \/ Silent
  BY DEF Begin, Return, file
<1>2. Key(stat).ino = ino /\ Key(stat).stamp = stamp
  BY DEF Key
<1> HIDE DEF stat
<1>3. ASSUME NEW row \in rows, Return(row.snap, row.card) PROVE parsed' = Full(content)
  <2>1. row \in cache /\ row.key.ino = ino /\ row.key.stamp = stamp
    BY <1>2
  <2>2. row.snap = Full(content)
    BY <2>1 DEF ReadInv, RowOK
  <2> QED BY <1>3, <2>2 DEF Return
<1> QED BY <1>1, <1>3 DEF Silent

\* Every step is one of FullRead's, or does not change what it is about.
LEMMA StepAnswers ==
    ReadInv /\ [Next]_vars => [Whole!Change \/ Whole!Read \/ Whole!Torn]_<<content, parsed>>
<1> SUFFICES ASSUME ReadInv, [Next]_vars
             PROVE  [Whole!Change \/ Whole!Read \/ Whole!Torn]_<<content, parsed>>
  OBVIOUS
<1>1. CASE UNCHANGED vars
  BY <1>1 DEF vars, file, answer
<1>2. CASE \/ \E sym \in Heads \cup {End, NL} : Write(sym)
           \/ Touch \/ Age \/ Truncate \/ Replace \/ Unlink
           \/ Fail \/ Forget \/ PruneCache \/ Restart \/ EditRates
  <2>1. parsed' = None
    BY <1>2 DEF Write, Touch, Age, Truncate, Replace, Unlink, Fail, Forget, PruneCache, Restart, EditRates, Silent
  <2> QED BY <2>1 DEF Whole!Change
<1>3. CASE \E by \in {"append", "whole", "reprice"} : Begin(by)
  <2>1. content' = content /\ (parsed' = None \/ parsed' = Full(content))
    BY <1>3, BeginAnswers
  <2> QED BY <2>1 DEF Whole!Change, Whole!Read
<1>4. CASE ReadOn
  <2>1. content' = content /\ (swapped \/ parsed' = Full(content))
    BY <1>4, ReadOnReads DEF ReadOn, Return, file
  <2> QED BY <2>1 DEF Whole!Read, Whole!Torn
<1>5. CASE ReadWhole
  <2>1. content' = content /\ parsed' = Full(content)
    BY <1>5, ReadWholeReads DEF ReadWhole, Return, file
  <2> QED BY <2>1 DEF Whole!Read
<1> QED BY <1>1, <1>2, <1>3, <1>4, <1>5 DEF Next

\* The readers implement FullRead: a read from where the last one stopped, a whole
\* read and one answered by the cache all return the parse of the whole file as it
\* is, unless the file was replaced or cut short during that read (ingestFile).
THEOREM PromiseKept == Spec => Promise
<1>1. Init => Whole!Start
  BY DEF Init, Whole!Start
<1>2. ReadInv /\ [Next]_vars => [Whole!Change \/ Whole!Read \/ Whole!Torn]_<<content, parsed>>
  BY StepAnswers
<1> QED BY <1>1, <1>2, ReadInvAlways, PTL DEF Spec, Promise, Whole!Spec

---------------------------------------------------------------------------
\* The prices.  The ledger of the last read keeps the rates it was made with, so
\* it must be shown that none is left when refreshPricing is done; a historical
\* file it answers from the cache could leave one, but a row for the file as it is
\* proves that the file was read whole since, and that read drops the ledger.

\* The read under way saw the file as it is or as it was; as it is, it does not
\* take it for a historical one while it is live.
StatInv == st # None =>
    /\ st.live \in BOOLEAN
    /\ st.stamp \in Nat /\ st.stamp <= stamp
    /\ st.stamp = stamp /\ ~st.live => ~live

\* A row for the file as it is was stored by the last read of it.
RowInv == \A row \in cache :
    /\ row.card = row.key.card
    /\ row.key.stamp \in Nat /\ row.key.stamp <= stamp
    /\ row.key.stamp = stamp => ~live /\ held = None /\ (st # None => ~st.live)

BuilderInv == repriced /\ held # None /\ held.builder # None => held.builder.card = card

PriceInv ==
    /\ stamp \in Nat /\ live \in BOOLEAN
    /\ StatInv /\ RowInv /\ BuilderInv /\ PricedCurrent

---------------------------------------------------------------------------

\* The file gets a new time: no row is for it as it is.
LEMMA NewStamp ==
  ASSUME PriceInv, stamp' = stamp + 1, live' \in BOOLEAN, parsed' = None,
         UNCHANGED <<card, st, held, cache, repriced>>
  PROVE  PriceInv'
<1>1. StatInv'
  BY DEF PriceInv, StatInv
<1>2. RowInv'
  BY DEF PriceInv, RowInv
<1>3. BuilderInv' /\ PricedCurrent'
  BY DEF PriceInv, BuilderInv, PricedCurrent
<1> QED BY <1>1, <1>2, <1>3 DEF PriceInv

\* The file only grows old, or is gone; or what is kept of it is dropped.
LEMMA LessKept ==
  ASSUME PriceInv, UNCHANGED <<stamp, card, repriced>>, live' = live \/ live' = FALSE, parsed' = None,
         st' = st \/ st' = None, held' = held \/ held' = None, cache' \subseteq cache
  PROVE  PriceInv'
<1>1. StatInv'
  BY DEF PriceInv, StatInv
<1>2. RowInv'
  BY DEF PriceInv, RowInv
<1>3. BuilderInv' /\ PricedCurrent'
  BY DEF PriceInv, BuilderInv, PricedCurrent
<1> QED BY <1>1, <1>2, <1>3 DEF PriceInv

LEMMA FileKeepsInv ==
  ASSUME PriceInv, (\E sym \in Heads \cup {End, NL} : Write(sym)) \/ Touch \/ Age \/ Truncate \/ Replace \/ Unlink
  PROVE  PriceInv'
<1>1. CASE (\E sym \in Heads \cup {End, NL} : Write(sym)) \/ Touch \/ Truncate \/ Replace
  BY <1>1, NewStamp DEF Write, Touch, Truncate, Replace, Silent, call
<1>2. CASE Age \/ Unlink
  BY <1>2, LessKept DEF Age, Unlink, Silent, call
<1> QED BY <1>1, <1>2

\* A row that answers is priced with the rates in force; none is left of a
\* ledger then.
LEMMA BeginKeepsInv == ASSUME PriceInv, NEW by, Begin(by) PROVE PriceInv'
<1> DEFINE stat == [ino |-> ino, size |-> Len(content), stamp |-> stamp, live |-> live]
           rows == {row \in cache : ~live /\ row.key = Key(stat)}
<1>1. /\ st = None /\ UNCHANGED <<stamp, live, card, held, cache>>
      /\ \/ /\ \E row \in rows : Return(row.snap, row.card)
            /\ repriced' = (repriced \/ by = "reprice")
         \/ rows = {} /\ st' = stat /\ Silent /\ UNCHANGED repriced
  BY DEF Begin, Return, file
<1>2. stat.stamp = stamp /\ stat.live = live /\ Key(stat).stamp = stamp /\ Key(stat).card = card
  BY DEF Key
<1> HIDE DEF stat
<1>3. CASE \E row \in rows : Return(row.snap, row.card) /\ repriced' = (repriced \/ by = "reprice")
  <2>1. PICK row \in cache : row.key = Key(stat) /\ Return(row.snap, row.card)
    BY <1>3
  <2>2. row.card = card /\ held = None
    BY <1>2, <2>1 DEF PriceInv, RowInv
  <2>3. st' = None /\ priced' = card
    BY <2>1, <2>2 DEF Return, Idle
  <2> QED BY <1>1, <2>2, <2>3 DEF PriceInv, StatInv, RowInv, BuilderInv, PricedCurrent
<1>4. CASE rows = {} /\ st' = stat /\ Silent /\ UNCHANGED repriced
  <2>1. StatInv'
    BY <1>1, <1>2, <1>4 DEF PriceInv, StatInv
  <2>2. RowInv'
    BY <1>1, <1>2, <1>4 DEF PriceInv, RowInv
  <2>3. BuilderInv' /\ PricedCurrent'
    BY <1>1, <1>4 DEF PriceInv, BuilderInv, PricedCurrent, Silent
  <2> QED BY <1>1, <2>1, <2>2, <2>3 DEF PriceInv
<1> QED BY <1>1, <1>3, <1>4

\* A ledger goes on with its own rates, a new one takes those in force.
LEMMA BuilderCard ==
  ASSUME BuilderInv, NEW append \in BOOLEAN, NEW events, NEW new, repriced,
         append => held # None, Builder(append, events, new) # None
  PROVE  Builder(append, events, new).card = card
<1>1. CASE append /\ held.builder # None /\ Identity(held.builder) = Info(events)
  <2>1. held.builder.card = card
    BY <1>1 DEF BuilderInv
  <2> QED BY <1>1, <2>1 DEF Builder
<1>2. CASE ~(append /\ held.builder # None /\ Identity(held.builder) = Info(events))
  BY <1>2 DEF Builder, NewBuilder
<1> QED BY <1>1, <1>2

LEMMA ReadOnKeepsInv == ASSUME PriceInv, ReadOn PROVE PriceInv'
<1> DEFINE new == IF CanAppend THEN ReadFrom(held.offset, held.rest) ELSE ReadFrom(0, <<>>)
           all == IF CanAppend THEN [new EXCEPT !.events = held.events \o @, !.errors = held.errors \o @]
                  ELSE new
           builder == Builder(CanAppend, all.events, new.events)
<1>1. /\ held' = [ino |-> st.ino, size |-> st.size, stamp |-> st.stamp,
                  offset |-> all.offset, rest |-> all.rest,
                  events |-> all.events, errors |-> all.errors, builder |-> builder]
      /\ Return(Snapshot(all, builder), IF builder = None THEN card ELSE builder.card)
  BY DEF ReadOn
<1> HIDE DEF new, all
<1>2. /\ held'.builder = builder /\ priced' = IF builder = None THEN card ELSE builder.card
      /\ st' = None /\ UNCHANGED <<stamp, live, card>>
  BY <1>1 DEF Return, Idle, file
<1>3. st # None /\ st.live /\ UNCHANGED <<cache, repriced>>
  BY DEF ReadOn, ReadsOn
<1>4. repriced /\ builder # None => builder.card = card
  BY BuilderCard DEF PriceInv, CanAppend
<1> HIDE DEF builder
<1>5. RowInv'
  BY <1>2, <1>3 DEF PriceInv, RowInv
<1>6. StatInv' /\ BuilderInv' /\ PricedCurrent'
  BY <1>2, <1>3, <1>4 DEF StatInv, BuilderInv, PricedCurrent
<1> QED BY <1>2, <1>5, <1>6 DEF PriceInv

LEMMA ReadWholeKeepsInv == ASSUME PriceInv, ReadWhole PROVE PriceInv'
<1>1. PICK snap :
          /\ Return(snap, card)
          /\ cache' = IF st.live THEN cache
                      ELSE {row \in cache : row.key # Key(st)} \cup {[key |-> Key(st), snap |-> snap, card |-> card]}
  BY DEF ReadWhole
<1>2. st # None /\ held' = None /\ st' = None /\ priced' = card /\ UNCHANGED <<stamp, live, card>>
  BY <1>1 DEF ReadWhole, Return, Idle, file
<1>3. RowInv'
  <2> SUFFICES ASSUME NEW row \in cache'
               PROVE  /\ row.card = row.key.card
                      /\ row.key.stamp \in Nat /\ row.key.stamp <= stamp
                      /\ row.key.stamp = stamp => ~live
    BY <1>2 DEF RowInv
  <2>1. CASE row \in cache
    BY <2>1 DEF PriceInv, RowInv
  <2>2. CASE row \notin cache
    <3>1. ~st.live /\ row = [key |-> Key(st), snap |-> snap, card |-> card]
      BY <1>1, <2>2
    <3>2. row.key.card = card /\ row.key.stamp = st.stamp /\ row.card = card
      BY <3>1 DEF Key
    <3> QED BY <1>2, <3>1, <3>2 DEF PriceInv, StatInv
  <2> QED BY <2>1, <2>2
<1> QED BY <1>2, <1>3 DEF PriceInv, StatInv, BuilderInv, PricedCurrent

LEMMA StepKeepsPrices == PriceInv /\ [Next]_vars => PriceInv'
<1> SUFFICES ASSUME PriceInv, [Next]_vars PROVE PriceInv'
  OBVIOUS
<1>1. CASE UNCHANGED vars
  BY <1>1 DEF vars, file, call, answer, PriceInv, StatInv, RowInv, BuilderInv, PricedCurrent
<1>2. CASE (\E sym \in Heads \cup {End, NL} : Write(sym)) \/ Touch \/ Age \/ Truncate \/ Replace \/ Unlink
  BY <1>2, FileKeepsInv
<1>3. CASE \E by \in {"append", "whole", "reprice"} : Begin(by)
  BY <1>3, BeginKeepsInv
<1>4. CASE Fail \/ Forget \/ PruneCache \/ Restart
  <2>1. /\ UNCHANGED <<stamp, live, card, repriced>> /\ parsed' = None /\ (st' = st \/ st' = None)
        /\ (held' = held \/ held' = None) /\ cache' \subseteq cache
    BY <1>4 DEF Fail, Forget, PruneCache, Restart, file, call, Idle, Silent
  <2> QED BY <2>1, LessKept
<1>5. CASE ReadOn
  BY <1>5, ReadOnKeepsInv
<1>6. CASE ReadWhole
  BY <1>6, ReadWholeKeepsInv
<1>7. CASE EditRates
  BY <1>7 DEF EditRates, Silent, file, call, PriceInv, StatInv, RowInv, BuilderInv, PricedCurrent
<1> QED BY <1>1, <1>2, <1>3, <1>4, <1>5, <1>6, <1>7 DEF Next

\* After refreshPricing no read returns old prices, whatever is written, cached,
\* kept of an earlier read, pruned or lost in a restart meanwhile (ingest.ts
\* ingestFile, cacheKey, liveReadStates).
THEOREM PricedCurrentAlways == Spec => []PricedCurrent
<1>1. Init => PriceInv
  BY DEF Init, PriceInv, StatInv, RowInv, BuilderInv, PricedCurrent
<1>2. PriceInv /\ [Next]_vars => PriceInv'
  BY StepKeepsPrices
<1>3. PriceInv => PricedCurrent
  BY DEF PriceInv
<1> QED BY <1>1, <1>2, <1>3, PTL DEF Spec

====
