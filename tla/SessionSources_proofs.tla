---- MODULE SessionSources_proofs ----
(***************************************************************************)
(* Proofs about SessionSources, for logs of any length.  SourcesInv says     *)
(* that what is held of a session is what its log, as it was read, gives.    *)
(* The rest is about that reading: the hashes the classifier remembers are   *)
(* those of the last read of each path (KnownHashes), so a reread repeats a  *)
(* read; and the tokens of tasks, done or pending, are within those of the   *)
(* turns so far (WithinLedger).                                              *)
(***************************************************************************)
EXTENDS SessionSources, SequenceTheorems, FiniteSetTheorems, WellFoundedInduction, TLAPS

---------------------------------------------------------------------------
\* Induction, by least elements.

LEMMA LeastOf == ASSUME NEW S \in SUBSET Nat, S # {}
                 PROVE  \E m \in S : \A k \in S : m <= k
<1>1. PICK m \in S : \A k \in S : ~ (<<k, m>> \in OpToRel(<, Nat))
  BY NatLessThanWellFounded, WFMin
<1>2. \A k \in S : ~(k < m)
  BY <1>1 DEF OpToRel
<1> QED BY <1>2

\* A set that has 0 and, up to n, the successor of each of its elements.
LEMMA ReachesAll == ASSUME NEW n \in Nat, NEW S, 0 \in S, \A k \in 0..(n - 1) : k \in S => k + 1 \in S
                    PROVE  0..n \subseteq S
<1> DEFINE Missing == {k \in 0..n : k \notin S}
<1> SUFFICES ASSUME Missing # {} PROVE FALSE
  OBVIOUS
<1>1. PICK m \in Missing : \A k \in Missing : m <= k
  <2>1. Missing \in SUBSET Nat
    OBVIOUS
  <2> HIDE DEF Missing
  <2> QED BY <2>1, LeastOf
<1>2. m # 0 /\ m - 1 \in 0..(n - 1) /\ m - 1 \notin Missing
  BY <1>1
<1>3. (m - 1) + 1 \in S
  BY <1>2
<1>4. (m - 1) + 1 = m
  BY <1>1
<1> QED BY <1>1, <1>3, <1>4

LEMMA GreatestOf == ASSUME NEW n \in Nat, NEW S \in SUBSET (1..n), S # {}
                    PROVE  \E m \in S : \A k \in S : k <= m
<1> DEFINE Above == {m \in Nat : \A k \in S : k <= m}
<1>1. n \in Above
  OBVIOUS
<1>2. PICK m \in Above : \A k \in Above : m <= k
  <2>1. Above \in SUBSET Nat
    OBVIOUS
  <2> HIDE DEF Above
  <2> QED BY <1>1, <2>1, LeastOf
<1>3. m \in S
  <2> SUFFICES ASSUME m \notin S PROVE FALSE
    OBVIOUS
  <2>1. PICK k \in S : TRUE
    OBVIOUS
  <2>2. m >= 1 /\ \A j \in S : j <= m - 1
    BY <1>2, <2>1
  <2>3. m - 1 \in Above
    BY <1>2, <2>2
  <2> QED BY <1>2, <2>3
<1> QED BY <1>2, <1>3

---------------------------------------------------------------------------
\* What the classifier remembers.

\* The tools of a turn are listed.
ToolsOK(turn) == Len(turn.tools) \in Nat /\ DOMAIN turn.tools = 1..Len(turn.tools)

\* The tools among the first k that read a path, and the last of them.
ReadersOf(turn, k, p) == {n \in 1..k : p \in ReadBy(turn.tools[n])}
LastReader(turn, k, p) == CHOOSE n \in ReadersOf(turn, k, p) : \A m \in ReadersOf(turn, k, p) : m <= n

\* The hashes after the first k tools of a turn.
Told(turn, hashes, k) ==
    [p \in DOMAIN hashes \cup {p \in PathsOf(turn) : ReadersOf(turn, k, p) # {}} |->
        IF ReadersOf(turn, k, p) # {} THEN turn.tools[LastReader(turn, k, p)].out ELSE hashes[p]]

LEMMA LastReaderIs ==
    ASSUME NEW turn, NEW k \in Nat, NEW p, ReadersOf(turn, k, p) # {}
    PROVE  /\ LastReader(turn, k, p) \in ReadersOf(turn, k, p)
           /\ \A m \in ReadersOf(turn, k, p) : m <= LastReader(turn, k, p)
           /\ \A n \in ReadersOf(turn, k, p) :
                (\A m \in ReadersOf(turn, k, p) : m <= n) => n = LastReader(turn, k, p)
<1>1. ReadersOf(turn, k, p) \in SUBSET (1..k)
  BY DEF ReadersOf
<1>2. \E n \in ReadersOf(turn, k, p) : \A m \in ReadersOf(turn, k, p) : m <= n
  BY <1>1, GreatestOf
<1>3. /\ LastReader(turn, k, p) \in ReadersOf(turn, k, p)
      /\ \A m \in ReadersOf(turn, k, p) : m <= LastReader(turn, k, p)
  BY <1>2 DEF LastReader
<1>4. \A n \in ReadersOf(turn, k, p) : n \in Int
  BY <1>1
<1> QED BY <1>3, <1>4

\* One tool more.
LEMMA ToldGrows ==
    ASSUME NEW turn, NEW hashes, ToolsOK(turn), NEW k \in 1..Len(turn.tools)
    PROVE  Told(turn, hashes, k) = Remember(Told(turn, hashes, k - 1), turn.tools[k])
<1> DEFINE t == turn.tools[k]
           old == Told(turn, hashes, k - 1)
           new == Told(turn, hashes, k)
<1>0. k \in Nat /\ k - 1 \in Nat /\ Len(turn.tools) \in Nat /\ k \in DOMAIN turn.tools
  BY DEF ToolsOK
<1>1. \A p : /\ p \in ReadBy(t) => ReadersOf(turn, k, p) = ReadersOf(turn, k - 1, p) \cup {k}
             /\ p \notin ReadBy(t) => ReadersOf(turn, k, p) = ReadersOf(turn, k - 1, p)
  BY <1>0 DEF ReadersOf
<1>2. ReadBy(t) \subseteq PathsOf(turn)
  BY <1>0 DEF PathsOf, Range
<1>3. DOMAIN new = DOMAIN old \cup ReadBy(t)
  BY <1>1, <1>2 DEF Told
<1>4. ASSUME NEW p \in DOMAIN new, p \in ReadBy(t) PROVE new[p] = t.out
  <2>1. k \in ReadersOf(turn, k, p)
    BY <1>1, <1>4
  <2>2. \A m \in ReadersOf(turn, k, p) : m <= k
    BY <1>0 DEF ReadersOf
  <2>3. LastReader(turn, k, p) = k
    BY <1>0, <2>1, <2>2, LastReaderIs
  <2> QED BY <2>1, <2>3 DEF Told
<1>5. ASSUME NEW p \in DOMAIN new, p \notin ReadBy(t) PROVE new[p] = old[p]
  <2>1. ReadersOf(turn, k, p) = ReadersOf(turn, k - 1, p)
    BY <1>1, <1>5
  <2>2. LastReader(turn, k, p) = LastReader(turn, k - 1, p)
    BY <2>1 DEF LastReader
  <2>3. p \in DOMAIN old
    BY <1>3, <1>5
  <2> QED BY <2>1, <2>2, <2>3 DEF Told
<1>6. new = [p \in DOMAIN new |-> new[p]]
  BY DEF Told
<1> HIDE DEF old, new
<1>7. new = [p \in DOMAIN old \cup ReadBy(t) |-> IF p \in ReadBy(t) THEN t.out ELSE old[p]]
  BY <1>3, <1>4, <1>5, <1>6
<1> QED BY <1>7 DEF Remember, old, new

LEMMA ToldAtFirst == ASSUME NEW turn, NEW D, NEW hashes, hashes = [p \in D |-> hashes[p]]
                     PROVE  Told(turn, hashes, 0) = hashes
<1>1. \A p : ReadersOf(turn, 0, p) = {}
  BY DEF ReadersOf
<1> QED BY <1>1 DEF Told

\* The hashes after a turn are told by its last reads.
LEMMA UpdateIs ==
    ASSUME NEW turn, ToolsOK(turn), NEW D, NEW hashes, hashes = [p \in D |-> hashes[p]]
    PROVE  Update(turn, hashes) = Told(turn, hashes, Len(turn.tools))
<1> DEFINE n == Len(turn.tools)
           P(f) == f = [k \in 0..n |-> IF k = 0 THEN hashes ELSE Remember(f[k - 1], turn.tools[k])]
           f == CHOOSE f : P(f)
           told == [k \in 0..n |-> Told(turn, hashes, k)]
<1>0. n \in Nat
  BY DEF ToolsOK
<1>1. Update(turn, hashes) = f[n]
  BY DEF Update
<1>2. P(told)
  <2>1. told[0] = hashes
    BY <1>0, ToldAtFirst
  <2>2. \A k \in 1..n : told[k] = Remember(told[k - 1], turn.tools[k])
    BY <1>0, ToldGrows
  <2>3. told = [k \in 0..n |-> told[k]]
    OBVIOUS
  <2> HIDE DEF told
  <2>4. \A k \in 0..n : told[k] = IF k = 0 THEN hashes ELSE Remember(told[k - 1], turn.tools[k])
    BY <1>0, <2>1, <2>2
  <2> QED BY <2>3, <2>4
<1>3. P(f)
  <2> HIDE DEF P, told
  <2> QED BY <1>2
<1>4. f[0] = hashes /\ \A k \in 1..n : f[k] = Remember(f[k - 1], turn.tools[k])
  <2> HIDE DEF f
  <2> QED BY <1>0, <1>3
<1>5. 0..n \subseteq {k \in 0..n : f[k] = told[k]}
  <2> DEFINE S == {k \in 0..n : f[k] = told[k]}
  <2>1. told[0] = hashes /\ \A k \in 1..n : told[k] = Remember(told[k - 1], turn.tools[k])
    <3> HIDE DEF told
    <3> QED BY <1>0, <1>2
  <2> HIDE DEF told, f
  <2>2. 0 \in S
    BY <1>0, <1>4, <2>1
  <2>3. \A k \in 0..(n - 1) : k \in S => k + 1 \in S
    <3> SUFFICES ASSUME NEW k \in 0..(n - 1), f[k] = told[k] PROVE k + 1 \in S
      OBVIOUS
    <3>1. k + 1 \in 1..n /\ (k + 1) - 1 = k
      BY <1>0
    <3> QED BY <1>4, <2>1, <3>1
  <2> HIDE DEF S
  <2>4. 0..n \subseteq S
    BY <1>0, <2>2, <2>3, ReachesAll
  <2> QED BY <2>4 DEF S
<1>6. n \in 0..n /\ told[n] = Told(turn, hashes, n)
  BY <1>0
<1>7. f[n] = told[n]
  <2> HIDE DEF f, told
  <2> QED BY <1>5, <1>6
<1> QED BY <1>1, <1>6, <1>7

\* The turns among the first i that read a path, and the last of them.
TurnsReading(turns, i, p) == {j \in 1..i : p \in PathsOf(turns[j])}
LastTurn(turns, i, p) == CHOOSE j \in TurnsReading(turns, i, p) : \A m \in TurnsReading(turns, i, p) : m <= j

\* What the last tool of a turn to read a path gave.
LastOutput(turn, p) == turn.tools[LastReader(turn, Len(turn.tools), p)].out

\* The hashes after the first i turns.
Learned(turns, i) ==
    [p \in {p \in UNION {PathsOf(turns[j]) : j \in 1..i} : TurnsReading(turns, i, p) # {}} |->
        LastOutput(turns[LastTurn(turns, i, p)], p)]

LEMMA LastTurnIs ==
    ASSUME NEW turns, NEW i \in Nat, NEW p, TurnsReading(turns, i, p) # {}
    PROVE  /\ LastTurn(turns, i, p) \in TurnsReading(turns, i, p)
           /\ \A m \in TurnsReading(turns, i, p) : m <= LastTurn(turns, i, p)
           /\ \A n \in TurnsReading(turns, i, p) :
                (\A m \in TurnsReading(turns, i, p) : m <= n) => n = LastTurn(turns, i, p)
<1>1. TurnsReading(turns, i, p) \in SUBSET (1..i)
  BY DEF TurnsReading
<1>2. \E n \in TurnsReading(turns, i, p) : \A m \in TurnsReading(turns, i, p) : m <= n
  BY <1>1, GreatestOf
<1>3. /\ LastTurn(turns, i, p) \in TurnsReading(turns, i, p)
      /\ \A m \in TurnsReading(turns, i, p) : m <= LastTurn(turns, i, p)
  BY <1>2 DEF LastTurn
<1>4. \A n \in TurnsReading(turns, i, p) : n \in Int
  BY <1>1
<1> QED BY <1>3, <1>4

\* A path is read by a turn if it is read by one of its tools.
LEMMA ReadByTools ==
    ASSUME NEW turn, ToolsOK(turn), NEW p
    PROVE  p \in PathsOf(turn) <=> ReadersOf(turn, Len(turn.tools), p) # {}
BY DEF ToolsOK, PathsOf, Range, ReadersOf

\* One turn more.
LEMMA KnownGrows ==
    ASSUME NEW turns, NEW i \in Nat \ {0}, ToolsOK(turns[i])
    PROVE  Learned(turns, i) = Update(turns[i], Learned(turns, i - 1))
<1> DEFINE turn == turns[i]
           n == Len(turn.tools)
           old == Learned(turns, i - 1)
           new == Learned(turns, i)
<1>1. \A p : /\ p \in PathsOf(turn) => TurnsReading(turns, i, p) = TurnsReading(turns, i - 1, p) \cup {i}
             /\ p \notin PathsOf(turn) => TurnsReading(turns, i, p) = TurnsReading(turns, i - 1, p)
  BY DEF TurnsReading
<1>2. \A p : p \in PathsOf(turn) <=> ReadersOf(turn, n, p) # {}
  BY ReadByTools
<1>3. DOMAIN new = DOMAIN old \cup PathsOf(turn)
  <2>1. \A j, p : p \in DOMAIN Learned(turns, j) <=> TurnsReading(turns, j, p) # {}
    BY DEF Learned, TurnsReading
  <2> HIDE DEF old, new
  <2> QED BY <1>1, <2>1 DEF old, new
<1>4. Update(turn, old) = Told(turn, old, n)
  <2>1. old = [p \in DOMAIN old |-> old[p]]
    BY DEF Learned
  <2> HIDE DEF old, n
  <2> QED BY <2>1, UpdateIs DEF n
<1>5. DOMAIN Told(turn, old, n) = DOMAIN new
  BY <1>2, <1>3 DEF Told
<1>6. ASSUME NEW p \in DOMAIN new, p \in PathsOf(turn) PROVE new[p] = Told(turn, old, n)[p]
  <2>1. i \in TurnsReading(turns, i, p) /\ \A m \in TurnsReading(turns, i, p) : m <= i
    BY <1>1, <1>6 DEF TurnsReading
  <2>2. LastTurn(turns, i, p) = i
    BY <2>1, LastTurnIs
  <2>3. new[p] = LastOutput(turn, p)
    BY <2>2 DEF Learned
  <2>4. Told(turn, old, n)[p] = LastOutput(turn, p)
    BY <1>2, <1>5, <1>6 DEF Told, LastOutput
  <2> QED BY <2>3, <2>4
<1>7. ASSUME NEW p \in DOMAIN new, p \notin PathsOf(turn) PROVE new[p] = Told(turn, old, n)[p]
  <2>1. TurnsReading(turns, i, p) = TurnsReading(turns, i - 1, p)
    BY <1>1, <1>7
  <2>2. LastTurn(turns, i, p) = LastTurn(turns, i - 1, p)
    BY <2>1 DEF LastTurn
  <2>3. p \in DOMAIN old
    BY <1>3, <1>7
  <2>4. new[p] = old[p]
    BY <2>2, <2>3 DEF Learned
  <2>5. Told(turn, old, n)[p] = old[p]
    BY <1>2, <1>5, <1>7 DEF Told
  <2> QED BY <2>4, <2>5
<1>8. new = [p \in DOMAIN new |-> new[p]] /\ Told(turn, old, n) = [p \in DOMAIN new |-> Told(turn, old, n)[p]]
  BY <1>5 DEF Learned, Told
<1>9. new = Told(turn, old, n)
  <2> DEFINE told == Told(turn, old, n)
  <2>1. \A p \in DOMAIN new : new[p] = told[p]
    BY <1>6, <1>7
  <2> HIDE DEF told, new
  <2> QED BY <1>8, <2>1 DEF told
<1> QED BY <1>4, <1>9

\* The classifier knows of each path what the last turn that read it saw last.
LEMMA KnownHashes ==
    ASSUME NEW turns, Len(turns) \in Nat, \A i \in 1..Len(turns) : ToolsOK(turns[i])
    PROVE  \A i \in 0..Len(turns) : HashesAfter(turns)[i] = Learned(turns, i)
<1> DEFINE n == Len(turns)
           P(f) == f = [i \in 0..n |-> IF i = 0 THEN NoHashes ELSE Update(turns[i], f[i - 1])]
           f == CHOOSE f : P(f)
           known == [i \in 0..n |-> Learned(turns, i)]
<1>1. HashesAfter(turns) = f
  BY DEF HashesAfter
<1>2. known[0] = NoHashes /\ \A i \in 1..n : known[i] = Update(turns[i], known[i - 1])
  <2>1. Learned(turns, 0) = NoHashes
    <3>1. \A p : TurnsReading(turns, 0, p) = {}
      BY DEF TurnsReading
    <3> QED BY <3>1 DEF Learned, NoHashes
  <2> QED BY <2>1, KnownGrows
<1>3. known = [i \in 0..n |-> known[i]]
  OBVIOUS
<1>4. P(known)
  <2> HIDE DEF known
  <2>1. \A i \in 0..n : known[i] = IF i = 0 THEN NoHashes ELSE Update(turns[i], known[i - 1])
    BY <1>2
  <2> QED BY <1>3, <2>1
<1>5. P(f)
  <2> HIDE DEF P, known
  <2> QED BY <1>4
<1>6. f[0] = NoHashes /\ \A i \in 1..n : f[i] = Update(turns[i], f[i - 1])
  <2> HIDE DEF f
  <2> QED BY <1>5
<1> DEFINE S == {i \in 0..n : f[i] = known[i]}
<1>7. 0 \in S
  <2> HIDE DEF f, known
  <2> QED BY <1>2, <1>6
<1>8. \A i \in 0..(n - 1) : i \in S => i + 1 \in S
  <2> HIDE DEF f, known
  <2> SUFFICES ASSUME NEW i \in 0..(n - 1), f[i] = known[i] PROVE i + 1 \in S
    OBVIOUS
  <2>1. i + 1 \in 1..n /\ (i + 1) - 1 = i
    OBVIOUS
  <2> QED BY <1>2, <1>6, <2>1
<1>9. 0..n \subseteq S
  <2> HIDE DEF S
  <2> QED BY <1>7, <1>8, ReachesAll
<1>10. \A i \in 0..n : f[i] = known[i] /\ known[i] = Learned(turns, i)
  <2> HIDE DEF f
  <2> QED BY <1>9
<1> QED BY <1>1, <1>10

---------------------------------------------------------------------------
\* Which turns are rereads.

TurnOK(turn) == {"tools", "patch", "plan", "output", "bucket", "labels"} \subseteq DOMAIN turn /\ ToolsOK(turn)
TurnsOK(turns) == Len(turns) \in Nat /\ DOMAIN turns = 1..Len(turns) /\ \A i \in DOMAIN turns : TurnOK(turns[i])

\* Classifying and labelling change nothing else of a turn.
LEMMA AnalysedTurns ==
    ASSUME NEW base, TurnsOK(base), NEW compacts
    PROVE  LET turns == Detected(Classified(base), compacts)
           IN  /\ DOMAIN turns = DOMAIN base
               /\ \A i \in DOMAIN base :
                    /\ turns[i].tools = base[i].tools /\ turns[i].patch = base[i].patch
                    /\ turns[i].output = base[i].output
                    /\ turns[i].bucket = BucketOfTurn(base[i], Learned(base, i - 1))
<1> DEFINE classified == Classified(base)
           turns == Detected(classified, compacts)
<1>1. /\ DOMAIN classified = DOMAIN base
      /\ \A i \in DOMAIN base :
            classified[i] = [base[i] EXCEPT !.bucket = BucketOfTurn(base[i], HashesAfter(base)[i - 1])]
  BY DEF Classified
<1>2. \A i \in DOMAIN base : HashesAfter(base)[i - 1] = Learned(base, i - 1)
  <2>1. \A i \in DOMAIN base : i - 1 \in 0..Len(base)
    BY DEF TurnsOK
  <2> QED BY <2>1, KnownHashes DEF TurnsOK, TurnOK
<1> HIDE DEF classified
<1>3. ASSUME NEW i \in DOMAIN base
      PROVE  /\ classified[i].tools = base[i].tools /\ classified[i].patch = base[i].patch
             /\ classified[i].output = base[i].output
             /\ classified[i].bucket = BucketOfTurn(base[i], Learned(base, i - 1))
             /\ DOMAIN classified[i] = DOMAIN base[i]
  <2> DEFINE b == BucketOfTurn(base[i], Learned(base, i - 1))
  <2>1. classified[i] = [base[i] EXCEPT !.bucket = b] /\ TurnOK(base[i])
    BY <1>1, <1>2 DEF TurnsOK
  <2> HIDE DEF b
  <2>2. QED BY <2>1 DEF TurnOK, b
<1>4. DOMAIN turns = DOMAIN base /\ \A i \in DOMAIN base : \E l : turns[i] = [classified[i] EXCEPT !.labels = l]
  BY <1>1 DEF Detected
<1> HIDE DEF turns
<1>5. ASSUME NEW i \in DOMAIN base
      PROVE  /\ turns[i].tools = base[i].tools /\ turns[i].patch = base[i].patch
             /\ turns[i].output = base[i].output
             /\ turns[i].bucket = BucketOfTurn(base[i], Learned(base, i - 1))
  <2>1. PICK l : turns[i] = [classified[i] EXCEPT !.labels = l]
    BY <1>4
  <2>2. {"tools", "patch", "plan", "output", "bucket", "labels"} \subseteq DOMAIN classified[i]
    BY <1>3 DEF TurnsOK, TurnOK
  <2> QED BY <1>3, <2>1, <2>2
<1> QED BY <1>4, <1>5 DEF turns, classified

\* A turn that only reads is a reread if the hashes say so.
LEMMA ReadOnlyBucket ==
    ASSUME NEW turn, NEW hashes, ToolsOK(turn), IsReadOnlyTurn(turn)
    PROVE  BucketOfTurn(turn, hashes) = "reread" <=> IsReread(turn, hashes)
<1>1. turn.tools # <<>> /\ Names(turn) = {"exec"}
  <2>1. turn.tools # <<>> /\ \A t \in Range(turn.tools) : t.name = "exec"
    BY DEF IsReadOnlyTurn, AllExec
  <2>2. \E t \in Range(turn.tools) : TRUE
    <3>1. Len(turn.tools) # 0
      <4> SUFFICES ASSUME Len(turn.tools) = 0 PROVE FALSE
        OBVIOUS
      <4> QED BY <2>1 DEF ToolsOK
    <3>2. 1 \in DOMAIN turn.tools
      BY <3>1 DEF ToolsOK
    <3> QED BY <3>2 DEF Range
  <2> QED BY <2>1, <2>2 DEF Names
<1>2. /\ ~(Names(turn) \subseteq PollTools) /\ ~(Names(turn) \subseteq PollTools \cup Delegating)
      /\ ~(Names(turn) \subseteq Talking)
  BY <1>1 DEF PollTools, Delegating, Talking
<1> QED BY <1>2 DEF BucketOfTurn

\* The first tool that reads a path, as HashForPath and the property find it.
LEMMA FirstReaderIs ==
    ASSUME NEW turn, ToolsOK(turn), NEW p \in PathsOf(turn)
    PROVE  LET first == CHOOSE k \in DOMAIN turn.tools :
                            /\ p \in ReadBy(turn.tools[k])
                            /\ \A n \in 1..(k - 1) : ~(p \in ReadBy(turn.tools[n]))
           IN  turn.tools[first].out = HashForPath(turn, p)
<1> DEFINE reads == {k \in DOMAIN turn.tools : p \in ReadBy(turn.tools[k])}
           First(k) == p \in ReadBy(turn.tools[k]) /\ \A n \in 1..(k - 1) : ~(p \in ReadBy(turn.tools[n]))
           first == CHOOSE k \in DOMAIN turn.tools : First(k)
           least == CHOOSE k \in reads : \A n \in reads : k <= n
<1>1. reads \in SUBSET Nat /\ reads # {}
  BY DEF ToolsOK, PathsOf, Range
<1>2. \E k \in reads : \A n \in reads : k <= n
  <2> HIDE DEF reads
  <2> QED BY <1>1, LeastOf
<1>3. least \in reads /\ \A n \in reads : least <= n
  <2> HIDE DEF reads
  <2> QED BY <1>2
<1>4. least \in DOMAIN turn.tools /\ First(least)
  <2> HIDE DEF least
  <2> QED BY <1>3 DEF ToolsOK
<1>5. first \in DOMAIN turn.tools /\ First(first)
  <2> HIDE DEF First, least
  <2> QED BY <1>4
<1>6. first = least
  <2> HIDE DEF first, least
  <2> QED BY <1>3, <1>4, <1>5 DEF ToolsOK
<1>7. HashForPath(turn, p) = turn.tools[least].out
  BY DEF HashForPath
<1> QED BY <1>6, <1>7

\* The last tool of a turn that reads a path, as the property finds it.
LEMMA FinalReaderIs ==
    ASSUME NEW turn, ToolsOK(turn), NEW p \in PathsOf(turn)
    PROVE  LET final == CHOOSE k \in DOMAIN turn.tools :
                            /\ p \in ReadBy(turn.tools[k])
                            /\ \A n \in DOMAIN turn.tools : p \in ReadBy(turn.tools[n]) => n <= k
           IN  turn.tools[final].out = LastOutput(turn, p)
<1> DEFINE Final(k) == /\ p \in ReadBy(turn.tools[k])
                       /\ \A n \in DOMAIN turn.tools : p \in ReadBy(turn.tools[n]) => n <= k
           final == CHOOSE k \in DOMAIN turn.tools : Final(k)
           last == LastReader(turn, Len(turn.tools), p)
           readers == ReadersOf(turn, Len(turn.tools), p)
<1>1. readers = {k \in DOMAIN turn.tools : p \in ReadBy(turn.tools[k])} /\ readers # {}
  BY ReadByTools DEF ReadersOf, ToolsOK
<1>2. last \in readers /\ (\A m \in readers : m <= last) /\ \A n \in readers : (\A m \in readers : m <= n) => n = last
  BY <1>1, LastReaderIs DEF ToolsOK
<1>3. last \in DOMAIN turn.tools /\ Final(last)
  <2> HIDE DEF last, readers
  <2> QED BY <1>1, <1>2
<1>4. final \in DOMAIN turn.tools /\ Final(final)
  <2> HIDE DEF Final, last
  <2> QED BY <1>3
<1>5. final = last
  <2> HIDE DEF final, last, readers
  <2> QED BY <1>1, <1>2, <1>4
<1> QED BY <1>5 DEF LastOutput

\* In the turns of a log, whatever they are, only repeats are rereads.
LEMMA RereadsRepeat ==
    ASSUME NEW base, TurnsOK(base), NEW compacts
    PROVE  OnlyRepeatsAreRereads(Detected(Classified(base), compacts))
<1> DEFINE turns == Detected(Classified(base), compacts)
           Reads(i, k, p) == turns[i].tools[k].name = "exec" /\ p \in Range(ReadPaths(turns[i].tools[k].cmd))
           First(i, p) == CHOOSE k \in DOMAIN turns[i].tools : Reads(i, k, p) /\ \A n \in 1..(k - 1) : ~Reads(i, n, p)
           Earlier(i, p) == {j \in 1..(i - 1) : \E k \in DOMAIN turns[j].tools : Reads(j, k, p)}
           Latest(i, p) == CHOOSE j \in Earlier(i, p) : \A n \in Earlier(i, p) : n <= j
           Final(i, p) == CHOOSE k \in DOMAIN turns[Latest(i, p)].tools :
                            /\ Reads(Latest(i, p), k, p)
                            /\ \A n \in DOMAIN turns[Latest(i, p)].tools : Reads(Latest(i, p), n, p) => n <= k
           Same(i, p) == /\ Earlier(i, p) # {}
                         /\ turns[i].tools[First(i, p)].out = turns[Latest(i, p)].tools[Final(i, p)].out
           Paths(i) == UNION {{p \in Range(ReadPaths(t.cmd)) : t.name = "exec"} : t \in Range(turns[i].tools)}
<1>1. /\ DOMAIN turns = DOMAIN base /\ Len(base) \in Nat /\ DOMAIN base = 1..Len(base)
      /\ \A i \in DOMAIN base : /\ turns[i].tools = base[i].tools /\ turns[i].patch = base[i].patch
                               /\ turns[i].bucket = BucketOfTurn(base[i], Learned(base, i - 1))
                               /\ ToolsOK(base[i]) /\ ToolsOK(turns[i])
  BY AnalysedTurns DEF TurnsOK, TurnOK, ToolsOK
<1> HIDE DEF turns
<1>2. \A i, k, p : Reads(i, k, p) <=> p \in ReadBy(turns[i].tools[k])
  BY DEF ReadBy
<1>3. \A i : Paths(i) = PathsOf(turns[i])
  BY DEF PathsOf, ReadBy
<1>4. ASSUME NEW i \in DOMAIN turns, NEW p \in PathsOf(turns[i])
      PROVE  turns[i].tools[First(i, p)].out = HashForPath(turns[i], p)
  <2>1. First(i, p) = CHOOSE k \in DOMAIN turns[i].tools :
                            /\ p \in ReadBy(turns[i].tools[k])
                            /\ \A n \in 1..(k - 1) : ~(p \in ReadBy(turns[i].tools[n]))
    <3> HIDE DEF Reads
    <3> QED BY <1>2
  <2> HIDE DEF First
  <2> QED BY <1>1, <2>1, FirstReaderIs
<1>5. ASSUME NEW i \in DOMAIN turns, NEW p
      PROVE  Earlier(i, p) = TurnsReading(turns, i - 1, p)
  <2>1. \A j \in DOMAIN turns : p \in PathsOf(turns[j]) <=> \E k \in DOMAIN turns[j].tools : Reads(j, k, p)
    <3> HIDE DEF Reads
    <3> QED BY <1>2 DEF PathsOf, Range
  <2>2. 1..(i - 1) \subseteq DOMAIN turns
    BY <1>1
  <2> HIDE DEF Reads
  <2> QED BY <2>1, <2>2 DEF TurnsReading
<1>6. ASSUME NEW i \in DOMAIN turns, NEW p, Earlier(i, p) # {}
      PROVE  turns[Latest(i, p)].tools[Final(i, p)].out = LastOutput(turns[LastTurn(turns, i - 1, p)], p)
  <2> DEFINE j == LastTurn(turns, i - 1, p)
  <2>1. Latest(i, p) = j
    <3>1. Earlier(i, p) = TurnsReading(turns, i - 1, p)
      BY <1>5
    <3> HIDE DEF Earlier
    <3> QED BY <3>1 DEF LastTurn
  <2>2. j \in DOMAIN turns /\ p \in PathsOf(turns[j])
    <3>0. TurnsReading(turns, i - 1, p) # {}
      <4> HIDE DEF Earlier
      <4> QED BY <1>5, <1>6
    <3>1. TurnsReading(turns, i - 1, p) # {} /\ i - 1 \in Nat
      BY <1>1, <3>0
    <3>2. j \in TurnsReading(turns, i - 1, p)
      BY <3>1, LastTurnIs
    <3> QED BY <1>1, <3>2 DEF TurnsReading
  <2> HIDE DEF j, Latest
  <2>3. Final(i, p) = CHOOSE k \in DOMAIN turns[j].tools :
                            /\ p \in ReadBy(turns[j].tools[k])
                            /\ \A n \in DOMAIN turns[j].tools : p \in ReadBy(turns[j].tools[n]) => n <= k
    <3> HIDE DEF Reads
    <3> QED BY <1>2, <2>1
  <2> HIDE DEF Final
  <2>4. turns[j].tools[Final(i, p)].out = LastOutput(turns[j], p)
    BY <1>1, <2>2, <2>3, FinalReaderIs
  <2> QED BY <2>1, <2>4 DEF j
<1>7. \A i \in DOMAIN turns : \A p :
        /\ p \in DOMAIN Learned(base, i - 1) <=> Earlier(i, p) # {}
        /\ Earlier(i, p) # {} => Learned(base, i - 1)[p] = LastOutput(turns[LastTurn(turns, i - 1, p)], p)
  <2> SUFFICES ASSUME NEW i \in DOMAIN turns, NEW p
               PROVE  /\ p \in DOMAIN Learned(base, i - 1) <=> Earlier(i, p) # {}
                      /\ Earlier(i, p) # {} => Learned(base, i - 1)[p] = LastOutput(turns[LastTurn(turns, i - 1, p)], p)
    OBVIOUS
  <2>1. \A j \in 1..(i - 1) : j \in DOMAIN base /\ PathsOf(base[j]) = PathsOf(turns[j])
    BY <1>1 DEF PathsOf
  <2>2. TurnsReading(base, i - 1, p) = Earlier(i, p)
    <3>1. TurnsReading(base, i - 1, p) = TurnsReading(turns, i - 1, p)
      BY <2>1 DEF TurnsReading
    <3> QED BY <1>5, <3>1
  <2>3. p \in DOMAIN Learned(base, i - 1) <=> Earlier(i, p) # {}
    <3> HIDE DEF Earlier
    <3>1. p \in DOMAIN Learned(base, i - 1) <=> TurnsReading(base, i - 1, p) # {}
      BY DEF Learned, TurnsReading
    <3> QED BY <2>2, <3>1
  <2>4. ASSUME Earlier(i, p) # {}
        PROVE  Learned(base, i - 1)[p] = LastOutput(turns[LastTurn(turns, i - 1, p)], p)
    <3>1. LastTurn(base, i - 1, p) = LastTurn(turns, i - 1, p)
      <4>1. TurnsReading(base, i - 1, p) = TurnsReading(turns, i - 1, p)
        BY <2>1 DEF TurnsReading
      <4> QED BY <4>1 DEF LastTurn
    <3>2. LastTurn(base, i - 1, p) \in DOMAIN base
      <4>1. i - 1 \in Nat /\ TurnsReading(base, i - 1, p) # {}
        BY <1>1, <2>2, <2>4
      <4>2. LastTurn(base, i - 1, p) \in TurnsReading(base, i - 1, p)
        BY <4>1, LastTurnIs
      <4> QED BY <2>1, <4>2 DEF TurnsReading
    <3>3. Learned(base, i - 1)[p] = LastOutput(base[LastTurn(base, i - 1, p)], p)
      <4> HIDE DEF Earlier
      <4> QED BY <2>3, <2>4 DEF Learned
    <3>4. \A j \in DOMAIN base : LastOutput(base[j], p) = LastOutput(turns[j], p)
      BY <1>1 DEF LastOutput, LastReader, ReadersOf
    <3> QED BY <3>1, <3>2, <3>3, <3>4
  <2> QED BY <2>3, <2>4
<1>8. ASSUME NEW i \in DOMAIN turns, IsReadOnlyTurn(turns[i]), Paths(i) # {}
      PROVE  turns[i].bucket = "reread" <=> \A p \in Paths(i) : Same(i, p)
  <2>1. IsReadOnlyTurn(base[i]) /\ PathsOf(base[i]) = PathsOf(turns[i]) /\ i \in DOMAIN base
    BY <1>1, <1>8 DEF IsReadOnlyTurn, AllExec, PathsOf
  <2>2. turns[i].bucket = "reread" <=> IsReread(base[i], Learned(base, i - 1))
    BY <1>1, <2>1, ReadOnlyBucket
  <2>3. \A p : HashForPath(base[i], p) = HashForPath(turns[i], p)
    BY <1>1, <2>1 DEF HashForPath
  <2>4. IsReread(base[i], Learned(base, i - 1)) <=>
            \A p \in PathsOf(turns[i]) : p \in DOMAIN Learned(base, i - 1) /\ Learned(base, i - 1)[p] = HashForPath(turns[i], p)
    BY <1>3, <1>8, <2>1, <2>3 DEF IsReread
  <2>5. \A p \in PathsOf(turns[i]) :
            (p \in DOMAIN Learned(base, i - 1) /\ Learned(base, i - 1)[p] = HashForPath(turns[i], p)) <=> Same(i, p)
    <3> HIDE DEF First, Earlier, Latest, Final
    <3> TAKE p \in PathsOf(turns[i])
    <3>1. turns[i].tools[First(i, p)].out = HashForPath(turns[i], p)
      BY <1>4
    <3>2. Earlier(i, p) # {} => /\ turns[Latest(i, p)].tools[Final(i, p)].out = LastOutput(turns[LastTurn(turns, i - 1, p)], p)
                                /\ Learned(base, i - 1)[p] = LastOutput(turns[LastTurn(turns, i - 1, p)], p)
      BY <1>6, <1>7
    <3>3. p \in DOMAIN Learned(base, i - 1) <=> Earlier(i, p) # {}
      BY <1>7
    <3> QED BY <3>1, <3>2, <3>3
  <2> HIDE DEF Same, Paths
  <2> QED BY <1>3, <2>2, <2>4, <2>5
<1> QED BY <1>8 DEF OnlyRepeatsAreRereads, turns

---------------------------------------------------------------------------
\* What of a log counts.

\* A log as the store reads it: of each event the name is known.
Readable(l) ==
    /\ Len(l) \in Nat /\ DOMAIN l = 1..Len(l) /\ l = [i \in 1..Len(l) |-> l[i]]
    /\ \A i \in DOMAIN l : l[i].name \in DOMAIN Event

\* A count with numbers of its own, and one with words of its own.
IsNew(e) == e.kind = "request" /\ e.usage # None /\ e.again = "new"
Reworded(e) == e.kind = "request" /\ e.output # None /\ e.again # "echo"

\* A list of events, as they are read.
EventsOK(events) ==
    /\ Len(events) \in Nat /\ DOMAIN events = 1..Len(events)
    /\ \A i \in DOMAIN events : EventOK(events[i]) /\ events[i].key \in Nat /\ events[i].raw \in Nat
    /\ \A i \in DOMAIN events : \A j \in 1..(i - 1) : IsNew(events[i]) => events[j].key < events[i].key
    /\ \A i \in DOMAIN events : i - 1 \in DOMAIN events /\ ~Reworded(events[i]) => events[i].raw = events[i - 1].raw

\* The recursion of Counted is met.
LEMMA CountedSteps ==
    ASSUME NEW events, Len(events) \in Nat, NEW codex, NEW sub
    PROVE  /\ CountedTo(events, codex, sub)[0] = <<>>
           /\ \A i \in 1..Len(events) : CountedTo(events, codex, sub)[i] =
                IF Counts(events, i, codex, sub) THEN Append(CountedTo(events, codex, sub)[i - 1], events[i])
                ELSE CountedTo(events, codex, sub)[i - 1]
<1> DEFINE n == Len(events)
           Step(i, c) == IF Counts(events, i, codex, sub) THEN Append(c, events[i]) ELSE c
           P(f) == f = [i \in 0..n |-> IF i = 0 THEN <<>> ELSE Step(i, f[i - 1])]
           Q(m, f) == f = [i \in 0..m |-> f[i]] /\ f[0] = <<>> /\ \A i \in 1..m : f[i] = Step(i, f[i - 1])
           S == {m \in 0..n : \E f : Q(m, f)}
<1>1. CountedTo(events, codex, sub) = CHOOSE f : P(f)
  BY DEF CountedTo
<1> HIDE DEF Step
<1>2. 0 \in S
  <2>1. Q(0, [i \in 0..0 |-> <<>>])
    OBVIOUS
  <2> HIDE DEF Q
  <2> QED BY <2>1
<1>3. \A m \in 0..(n - 1) : m \in S => m + 1 \in S
  <2> SUFFICES ASSUME NEW m \in 0..(n - 1), NEW f, Q(m, f) PROVE \E g : Q(m + 1, g)
    OBVIOUS
  <2> DEFINE g == [i \in 0..(m + 1) |-> IF i = m + 1 THEN Step(m + 1, f[m]) ELSE f[i]]
  <2>1. g = [i \in 0..(m + 1) |-> g[i]]
    OBVIOUS
  <2>2. g[m + 1] = Step(m + 1, f[m]) /\ \A i \in 0..m : g[i] = f[i]
    OBVIOUS
  <2> HIDE DEF g
  <2>3. g[0] = <<>>
    BY <2>2
  <2>4. ASSUME NEW i \in 1..(m + 1) PROVE g[i] = Step(i, g[i - 1])
    <3>1. CASE i = m + 1
      <4>1. i - 1 = m /\ g[m] = f[m]
        BY <2>2, <3>1
      <4> QED BY <2>2, <3>1, <4>1
    <3>2. CASE i # m + 1
      <4>1. i \in 1..m /\ i \in 0..m /\ i - 1 \in 0..m
        BY <3>2
      <4> QED BY <2>2, <4>1
    <3> QED BY <3>1, <3>2
  <2> QED BY <2>1, <2>3, <2>4
<1>4. 0..n \subseteq S
  <2> HIDE DEF S
  <2> QED BY <1>2, <1>3, ReachesAll
<1>5. PICK f : Q(n, f)
  <2> HIDE DEF Q
  <2> QED BY <1>4
<1>6. P(f)
  BY <1>5
<1>7. P(CountedTo(events, codex, sub))
  <2> HIDE DEF P
  <2> QED BY <1>1, <1>6
<1>8. /\ CountedTo(events, codex, sub)[0] = <<>>
      /\ \A i \in 1..n : CountedTo(events, codex, sub)[i] = Step(i, CountedTo(events, codex, sub)[i - 1])
  <2> DEFINE c == CountedTo(events, codex, sub)
  <2>1. c = [i \in 0..n |-> IF i = 0 THEN <<>> ELSE Step(i, c[i - 1])]
    BY <1>7
  <2> HIDE DEF c
  <2> QED BY <2>1 DEF c
<1> QED BY <1>8 DEF Step

LEMMA CountedStep ==
    ASSUME NEW events, Len(events) \in Nat, NEW codex, NEW sub, NEW i \in 0..(Len(events) - 1)
    PROVE  CountedTo(events, codex, sub)[i + 1] =
                IF Counts(events, i + 1, codex, sub) THEN Append(CountedTo(events, codex, sub)[i], events[i + 1])
                ELSE CountedTo(events, codex, sub)[i]
<1>1. i + 1 \in 1..Len(events) /\ (i + 1) - 1 = i
  OBVIOUS
<1> QED BY <1>1, CountedSteps

\* A list, of whatever.
IsList(list) == \E S : list \in Seq(S)

LEMMA Appended ==
    ASSUME NEW list, IsList(list), NEW x
    PROVE  /\ IsList(Append(list, x)) /\ Len(Append(list, x)) = Len(list) + 1
           /\ \A k \in 1..Len(list) : Append(list, x)[k] = list[k]
           /\ Append(list, x)[Len(list) + 1] = x
<1>1. PICK S : list \in Seq(S)
  BY DEF IsList
<1>2. list \in Seq(S \cup {x}) /\ x \in S \cup {x}
  BY <1>1
<1>3. Append(list, x) \in Seq(S \cup {x})
  BY <1>2
<1>4. IsList(Append(list, x))
  BY <1>3 DEF IsList
<1> QED BY <1>1, <1>4

LEMMA Listed == ASSUME NEW list, IsList(list)
                PROVE  Len(list) \in Nat /\ DOMAIN list = 1..Len(list) /\ list = [k \in 1..Len(list) |-> list[k]]
BY DEF IsList

\* The requests of a log that may count.
Requests(events, codex) == {e \in Range(events) : e.kind = "request" /\ (codex => e.usage # None)}

LEMMA CountedListed ==
    ASSUME NEW events, EventsOK(events), NEW codex, NEW sub
    PROVE  \A i \in 0..Len(events) : /\ CountedTo(events, codex, sub)[i] \in Seq(Requests(events, codex))
<1> DEFINE c == CountedTo(events, codex, sub)
           S == {i \in 0..Len(events) : c[i] \in Seq(Requests(events, codex))}
<1>0. Len(events) \in Nat
  BY DEF EventsOK
<1>1. c[0] = <<>> /\ \A i \in 1..Len(events) : c[i] = IF Counts(events, i, codex, sub) THEN Append(c[i - 1], events[i]) ELSE c[i - 1]
  BY <1>0, CountedSteps
<1> HIDE DEF c
<1>2. 0 \in S
  <2>1. c[0] \in Seq(Requests(events, codex))
    BY <1>1, EmptySeq
  <2> QED BY <1>0, <2>1
<1>3. \A i \in 0..(Len(events) - 1) : i \in S => i + 1 \in S
  <2> SUFFICES ASSUME NEW i \in 0..(Len(events) - 1), c[i] \in Seq(Requests(events, codex)) PROVE c[i + 1] \in Seq(Requests(events, codex))
    BY <1>0
  <2>1. i + 1 \in 1..Len(events) /\ (i + 1) - 1 = i
    BY <1>0
  <2>2. CASE Counts(events, i + 1, codex, sub)
    <3>1. events[i + 1] \in Requests(events, codex)
      BY <2>1, <2>2 DEF Counts, Own, Requests, Range, EventsOK
    <3>2. c[i + 1] = Append(c[i], events[i + 1])
      BY <1>1, <2>1, <2>2
    <3> QED BY <3>1, <3>2, AppendProperties
  <2>3. CASE ~Counts(events, i + 1, codex, sub)
    BY <1>1, <2>1, <2>3
  <2> QED BY <2>2, <2>3
<1>4. 0..Len(events) \subseteq S
  <2> HIDE DEF S
  <2> QED BY <1>0, <1>2, <1>3, ReachesAll
<1> QED BY <1>4 DEF c

LEMMA CountedOK ==
    ASSUME NEW events, EventsOK(events), NEW codex, NEW sub
    PROVE  Counted(events, codex, sub) \in Seq(Requests(events, codex))
<1>1. Len(events) \in 0..Len(events)
  BY DEF EventsOK
<1> QED BY <1>1, CountedListed DEF Counted

\* The turns of a log, before they are classified.
TurnsOf(s, codex, events, sub) ==
    LET requests == Counted(events, codex, sub)
    IN  [i \in DOMAIN requests |-> TurnOf(s, codex, requests[i])]

LEMMA TurnsOfLog ==
    ASSUME NEW s, NEW codex, NEW events, EventsOK(events), NEW sub
    PROVE  /\ TurnsOK(TurnsOf(s, codex, events, sub))
           /\ DOMAIN TurnsOf(s, codex, events, sub) = DOMAIN Counted(events, codex, sub)
<1> DEFINE requests == Counted(events, codex, sub)
           turns == TurnsOf(s, codex, events, sub)
<1>1. requests \in Seq(Requests(events, codex))
  BY CountedOK
<1>2. turns = [i \in DOMAIN requests |-> TurnOf(s, codex, requests[i])]
  BY DEF TurnsOf
<1> HIDE DEF requests, turns
<1>3. ASSUME NEW i \in DOMAIN requests PROVE TurnOK(turns[i])
  <2>1. requests[i] \in Requests(events, codex)
    BY <1>1
  <2>2. EventOK(requests[i]) /\ requests[i].kind = "request"
    BY <2>1 DEF Requests, Range, EventsOK
  <2>3. turns[i] = TurnOf(s, codex, requests[i])
    BY <1>2
  <2>4. turns[i].tools = requests[i].tools
    BY <2>3 DEF TurnOf
  <2>5. {"tools", "patch", "plan", "output", "bucket", "labels"} \subseteq DOMAIN turns[i]
    BY <2>3 DEF TurnOf
  <2> QED BY <2>2, <2>4, <2>5 DEF TurnOK, ToolsOK, EventOK
<1>4. Len(requests) \in Nat /\ DOMAIN turns = 1..Len(requests)
  BY <1>1, <1>2
<1>5. Len(turns) = Len(requests)
  BY <1>2, <1>4
<1> QED BY <1>2, <1>3, <1>4, <1>5 DEF TurnsOK, requests, turns

---------------------------------------------------------------------------
\* The events of a file.

LEMMA KeysGrow ==
    ASSUME NEW l, Readable(l)
    PROVE  /\ \A i \in DOMAIN l : KeyAt(l, i) \in Nat /\ RawAt(l, i) \in Nat
           /\ \A i \in DOMAIN l : \A j \in 1..(i - 1) : IsNew(Event[l[i].name]) => KeyAt(l, j) < KeyAt(l, i)
           /\ \A i \in DOMAIN l : i - 1 \in DOMAIN l /\ ~Reworded(Event[l[i].name]) => RawAt(l, i) = RawAt(l, i - 1)
<1> DEFINE K(i) == {j \in 1..i : IsNew(Event[l[j].name])}
           R(i) == {j \in 1..i : Reworded(Event[l[j].name])}
<1>1. \A i : KeyAt(l, i) = Cardinality(K(i)) /\ RawAt(l, i) = Cardinality(R(i))
  BY DEF KeyAt, RawAt, IsNew, Reworded
<1>2. \A i \in DOMAIN l : i \in Nat \ {0}
  BY DEF Readable
<1>3. ASSUME NEW i \in Nat
      PROVE  /\ IsFiniteSet(K(i)) /\ Cardinality(K(i)) \in Nat
             /\ IsFiniteSet(R(i)) /\ Cardinality(R(i)) \in Nat
  <2>1. IsFiniteSet(1..i)
    BY FS_Interval
  <2>2. K(i) \subseteq 1..i /\ R(i) \subseteq 1..i
    OBVIOUS
  <2> HIDE DEF K, R
  <2> QED BY <2>1, <2>2, FS_Subset, FS_CardinalityType
<1>4. ASSUME NEW i \in Nat \ {0}, NEW j \in 1..(i - 1), IsNew(Event[l[i].name]) PROVE Cardinality(K(j)) < Cardinality(K(i))
  <2>1. K(j) \subseteq K(i) /\ i \in K(i) /\ i \notin K(j) /\ j \in Nat
    BY <1>4
  <2> HIDE DEF K
  <2>2. Cardinality(K(j)) <= Cardinality(K(i)) /\ Cardinality(K(j)) # Cardinality(K(i))
    BY <1>3, <2>1, FS_Subset
  <2>3. Cardinality(K(j)) \in Nat /\ Cardinality(K(i)) \in Nat
    BY <1>3, <2>1
  <2> QED BY <2>2, <2>3
<1>5. ASSUME NEW i \in Nat \ {0}, ~Reworded(Event[l[i].name]) PROVE R(i) = R(i - 1)
  <2>1. 1..i = 1..(i - 1) \cup {i}
    OBVIOUS
  <2> QED BY <1>5, <2>1
<1> HIDE DEF K, R
<1>6. \A i \in DOMAIN l : KeyAt(l, i) \in Nat /\ RawAt(l, i) \in Nat
  BY <1>1, <1>2, <1>3
<1>7. \A i \in DOMAIN l : \A j \in 1..(i - 1) : IsNew(Event[l[i].name]) => KeyAt(l, j) < KeyAt(l, i)
  BY <1>1, <1>2, <1>4
<1>8. \A i \in DOMAIN l : ~Reworded(Event[l[i].name]) => RawAt(l, i) = RawAt(l, i - 1)
  BY <1>1, <1>2, <1>5
<1> QED BY <1>6, <1>7, <1>8

LEMMA EventsOfFile ==
    ASSUME NEW l, Readable(l)
    PROVE  /\ EventsOK(EventsOf(l)) /\ Len(EventsOf(l)) = Len(l)
           /\ \A i \in DOMAIN l : EventsOf(l)[i].kind = Event[l[i].name].kind
<1> DEFINE events == EventsOf(l)
<1>1. DOMAIN events = 1..Len(l) /\ Len(l) \in Nat /\ DOMAIN l = 1..Len(l)
  BY DEF EventsOf, Readable
<1>2. Len(events) = Len(l)
  BY <1>1 DEF EventsOf
<1>3. ASSUME NEW i \in DOMAIN l
      PROVE  /\ EventOK(events[i]) /\ events[i].key = KeyAt(l, i) /\ events[i].raw = RawAt(l, i)
             /\ events[i].kind = Event[l[i].name].kind
             /\ IsNew(events[i]) <=> IsNew(Event[l[i].name])
             /\ Reworded(events[i]) <=> Reworded(Event[l[i].name])
  <2> DEFINE e == Event[l[i].name]
             new == events[i]
  <2>1. new = [e EXCEPT !.at = l[i].at, !.ordinal = i, !.key = KeyAt(l, i), !.raw = RawAt(l, i)]
    BY DEF EventsOf
  <2>2. EventOK(e)
    BY SourcesAssumption DEF Readable
  <2>3. {"at", "key", "raw", "ordinal", "kind", "again", "output"} \subseteq DOMAIN e
    BY <2>2 DEF EventOK
  <2> HIDE DEF e, new
  <2>4. new.key = KeyAt(l, i) /\ new.raw = RawAt(l, i)
    BY <2>1, <2>3
  <2>5. DOMAIN new = DOMAIN e /\ \A f \in DOMAIN e \ {"at", "ordinal", "key", "raw"} : new[f] = e[f]
    BY <2>1
  <2>6. /\ new.kind = e.kind /\ new.output = e.output /\ new.again = e.again
        /\ {"at", "key", "raw", "ordinal", "kind", "again", "output"} \subseteq DOMAIN new
    BY <2>3, <2>5
  <2>7. e.kind = "request" => {"tools", "usage"} \subseteq DOMAIN new /\ new.tools = e.tools /\ new.usage = e.usage
    BY <2>2, <2>5 DEF EventOK
  <2>8. EventOK(new)
    BY <2>2, <2>6, <2>7 DEF EventOK
  <2>9. (IsNew(new) <=> IsNew(e)) /\ (Reworded(new) <=> Reworded(e))
    BY <2>6, <2>7 DEF IsNew, Reworded
  <2> QED BY <2>4, <2>6, <2>8, <2>9 DEF new, e
<1> HIDE DEF events
<1>4. \A i \in DOMAIN events : EventOK(events[i]) /\ events[i].key \in Nat /\ events[i].raw \in Nat
  BY <1>1, <1>3, KeysGrow
<1>5. \A i \in DOMAIN events : \A j \in 1..(i - 1) : IsNew(events[i]) => events[j].key < events[i].key
  <2>1. \A i \in DOMAIN events : 1..(i - 1) \subseteq DOMAIN l
    BY <1>1
  <2> QED BY <1>1, <1>3, <2>1, KeysGrow
<1>6. \A i \in DOMAIN events : i - 1 \in DOMAIN events /\ ~Reworded(events[i]) => events[i].raw = events[i - 1].raw
  <2> SUFFICES ASSUME NEW i \in DOMAIN events, i - 1 \in DOMAIN events, ~Reworded(events[i])
               PROVE  events[i].raw = events[i - 1].raw
    OBVIOUS
  <2>1. i \in DOMAIN l /\ i - 1 \in DOMAIN l
    BY <1>1
  <2>2. events[i].raw = RawAt(l, i) /\ events[i - 1].raw = RawAt(l, i - 1) /\ ~Reworded(Event[l[i].name])
    BY <1>3, <2>1
  <2> QED BY <2>1, <2>2, KeysGrow
<1>7. EventsOK(events)
  BY <1>1, <1>2, <1>4, <1>5, <1>6 DEF EventsOK
<1> QED BY <1>2, <1>3, <1>7 DEF events

---------------------------------------------------------------------------
\* What is held of a session is what its file gave as it was read.

Files == log = [s \in Sessions |-> log[s]] /\ \A s \in Sessions : Readable(log[s])

FromFile(s) ==
    /\ Readable(fingerprints[s])
    /\ \E live \in BOOLEAN : sources[s] = AnalyseSession(s, SourceOf[s], parent[s], EventsOf(fingerprints[s]), live)

SourcesInv ==
    /\ Files
    /\ DOMAIN sources \subseteq Sessions /\ DOMAIN fingerprints = DOMAIN sources
    /\ \A s \in DOMAIN sources : FromFile(s)

LEMMA ReadIs == \A s : \E live \in BOOLEAN : Read(s) = AnalyseSession(s, SourceOf[s], parent[s], EventsOf(log[s]), live)
<1> SUFFICES ASSUME NEW s
             PROVE  \E live \in BOOLEAN : Read(s) = AnalyseSession(s, SourceOf[s], parent[s], EventsOf(log[s]), live)
  OBVIOUS
<1>1. IsLive(s) \in BOOLEAN
  BY DEF IsLive
<1> QED BY <1>1 DEF Read

LEMMA SourcesInvInit == Init => SourcesInv
<1> SUFFICES ASSUME Init PROVE SourcesInv
  OBVIOUS
<1>1. PICK h \in Histories : log = [s \in Sessions |-> [i \in DOMAIN h[s] |-> [name |-> h[s][i], at |-> i]]]
  BY DEF Init
<1>2. ASSUME NEW s \in Sessions PROVE Readable(log[s])
  <2>1. h[s] \in Seq(DOMAIN Event)
    BY SourcesAssumption
  <2>2. log[s] = [i \in DOMAIN h[s] |-> [name |-> h[s][i], at |-> i]]
    BY <1>1
  <2> DEFINE l == log[s]
             g == h[s]
  <2> HIDE DEF l, g
  <2>3. Len(g) \in Nat /\ DOMAIN g = 1..Len(g) /\ \A i \in DOMAIN g : g[i] \in DOMAIN Event
    BY <2>1 DEF g
  <2>4. l = [i \in 1..Len(g) |-> [name |-> g[i], at |-> i]]
    BY <2>2, <2>3 DEF l, g
  <2>5. Len(l) = Len(g)
    BY <2>3, <2>4
  <2> QED BY <2>3, <2>4, <2>5 DEF Readable, l
<1>3. Files
  BY <1>1, <1>2 DEF Files
<1>4. DOMAIN sources = {} /\ DOMAIN fingerprints = {}
  BY DEF Init, NoneYet
<1> QED BY <1>3, <1>4 DEF SourcesInv

\* A read of the file makes the entry follow it; what is not touched stays as it was.
LEMMA ReadKeepsInv ==
    ASSUME SourcesInv, UNCHANGED <<log, parent>>, NEW R \in SUBSET Sessions,
           DOMAIN sources' \subseteq DOMAIN sources \cup R, DOMAIN fingerprints' = DOMAIN sources',
           \A s \in DOMAIN sources' : IF s \in R THEN sources'[s] = Read(s) /\ fingerprints'[s] = log[s]
                                      ELSE sources'[s] = sources[s] /\ fingerprints'[s] = fingerprints[s]
    PROVE  SourcesInv'
<1>1. Files'
  BY DEF SourcesInv, Files
<1>2. DOMAIN sources' \subseteq Sessions
  BY DEF SourcesInv
<1>3. ASSUME NEW s \in DOMAIN sources' PROVE FromFile(s)'
  <2>1. CASE s \in R
    <3>1. PICK live \in BOOLEAN : Read(s) = AnalyseSession(s, SourceOf[s], parent[s], EventsOf(log[s]), live)
      BY ReadIs
    <3>2. sources'[s] = Read(s) /\ fingerprints'[s] = log[s] /\ parent' = parent
      BY <2>1
    <3>3. sources'[s] = AnalyseSession(s, SourceOf[s], parent'[s], EventsOf(fingerprints'[s]), live)
      BY <3>1, <3>2
    <3>4. Readable(fingerprints'[s])
      BY <2>1, <3>2 DEF SourcesInv, Files
    <3> QED BY <3>3, <3>4 DEF FromFile
  <2>2. CASE s \notin R
    <3>1. FromFile(s) /\ sources'[s] = sources[s] /\ fingerprints'[s] = fingerprints[s] /\ parent' = parent
      BY <2>2 DEF SourcesInv
    <3> QED BY <3>1 DEF FromFile
  <2> QED BY <2>1, <2>2
<1> QED BY <1>1, <1>2, <1>3 DEF SourcesInv

LEMMA WriteKeepsInv == ASSUME SourcesInv, NEW s \in Sessions, NEW name \in NamesOf[s], Write(s, name)
                       PROVE  SourcesInv'
<1> DEFINE l == log[s]
           new == Append(l, [name |-> name, at |-> now])
<1>1. Files'
  <2>1. log = [x \in Sessions |-> log[x]] /\ log' = [log EXCEPT ![s] = new] /\ Readable(l) /\ name \in DOMAIN Event
    BY SourcesAssumption DEF SourcesInv, Files, Write
  <2>2. Readable(new)
    <3> HIDE DEF l
    <3>1. l \in Seq(Range(l))
      <4>1. \A i \in 1..Len(l) : l[i] \in Range(l)
        BY <2>1 DEF Readable, Range
      <4>2. l = [i \in 1..Len(l) |-> l[i]] /\ Len(l) \in Nat
        BY <2>1 DEF Readable
      <4> QED BY <4>1, <4>2
    <3> QED BY <2>1, <3>1 DEF Readable
  <2>3. \A x \in Sessions : Readable(log'[x])
    BY <2>1, <2>2 DEF SourcesInv, Files
  <2> QED BY <2>1, <2>3 DEF Files
<1>2. UNCHANGED <<sources, fingerprints, parent>>
  BY DEF Write, held
<1>3. ASSUME NEW x \in DOMAIN sources' PROVE FromFile(x)'
  <2>1. FromFile(x)
    BY <1>2, <1>3 DEF SourcesInv
  <2> QED BY <1>2, <2>1 DEF FromFile
<1> QED BY <1>1, <1>2, <1>3 DEF SourcesInv

LEMMA DeleteKeepsInv == ASSUME SourcesInv, NEW s \in Sessions, Delete(s) PROVE SourcesInv'
<1>1. Files'
  <2>1. log = [x \in Sessions |-> log[x]] /\ log' = [log EXCEPT ![s] = <<>>]
    BY DEF SourcesInv, Files, Delete
  <2>2. Readable(<<>>)
    BY DEF Readable
  <2>3. \A x \in Sessions : Readable(log'[x])
    BY <2>1, <2>2 DEF SourcesInv, Files
  <2> QED BY <2>1, <2>3 DEF Files
<1>2. UNCHANGED <<sources, fingerprints, parent>>
  BY DEF Delete, held
<1>3. ASSUME NEW x \in DOMAIN sources' PROVE FromFile(x)'
  <2>1. FromFile(x)
    BY <1>2, <1>3 DEF SourcesInv
  <2> QED BY <1>2, <2>1 DEF FromFile
<1> QED BY <1>1, <1>2, <1>3 DEF SourcesInv

LEMMA SourcesInvStep == SourcesInv /\ [Next]_vars => SourcesInv'
<1> SUFFICES ASSUME SourcesInv, [Next]_vars PROVE SourcesInv'
  OBVIOUS
<1>1. CASE Tick \/ UNCHANGED vars \/ \E s \in Sessions : \E on \in UserChoices[s] : SetToggles(s, on)
  <2>1. UNCHANGED <<log, parent, sources, fingerprints>>
    BY <1>1 DEF Tick, vars, files, held, SetToggles
  <2>2. {} \in SUBSET Sessions /\ DOMAIN fingerprints = DOMAIN sources
    BY DEF SourcesInv
  <2> QED BY <2>1, <2>2, ReadKeepsInv
<1>2. CASE RefreshLiveFlags
  <2> DEFINE Turned == {s \in DOMAIN sources : Present(s) /\ IsLive(s) # sources[s].live}
  <2>1. /\ sources' = [s \in DOMAIN sources |-> IF s \in Turned THEN Read(s) ELSE sources[s]]
        /\ fingerprints' = [s \in DOMAIN fingerprints |-> IF s \in Turned THEN log[s] ELSE fingerprints[s]]
        /\ UNCHANGED <<log, parent>>
    BY <1>2 DEF RefreshLiveFlags, files
  <2>2. Turned \in SUBSET Sessions /\ DOMAIN fingerprints = DOMAIN sources
    BY DEF SourcesInv
  <2> HIDE DEF Turned
  <2> QED BY <2>1, <2>2, ReadKeepsInv
<1>3. ASSUME NEW s \in Sessions, IngestPath(s) PROVE SourcesInv'
  <2>1. /\ sources' = [x \in DOMAIN sources \cup {s} |-> IF x = s THEN Read(s) ELSE sources[x]]
        /\ fingerprints' = [x \in DOMAIN fingerprints \cup {s} |-> IF x = s THEN log[s] ELSE fingerprints[x]]
        /\ UNCHANGED <<log, parent>>
    BY <1>3 DEF IngestPath, Put, files
  <2>2. DOMAIN fingerprints = DOMAIN sources /\ {s} \in SUBSET Sessions
    BY DEF SourcesInv
  <2> QED BY <2>1, <2>2, ReadKeepsInv
<1>4. ASSUME NEW s \in Sessions, RemovePath(s) PROVE SourcesInv'
  <2>1. /\ sources' = [x \in DOMAIN sources \ {s} |-> sources[x]]
        /\ fingerprints' = [x \in DOMAIN fingerprints \ {s} |-> fingerprints[x]]
        /\ UNCHANGED <<log, parent>>
    BY <1>4 DEF RemovePath, Without, files
  <2>2. DOMAIN fingerprints = DOMAIN sources /\ {} \in SUBSET Sessions
    BY DEF SourcesInv
  <2> QED BY <2>1, <2>2, ReadKeepsInv
<1> QED BY <1>1, <1>2, <1>3, <1>4, WriteKeepsInv, DeleteKeepsInv DEF Next

\* What the store holds of a session is what the session's own log gave when it
\* was last read, with its time on that log, however logs are written, deleted,
\* read, dropped and read again (ingestPath, removePath, refreshLiveFlags).
THEOREM SourcesInvAlways == Spec => []SourcesInv
BY SourcesInvInit, SourcesInvStep, PTL DEF Spec

\* What is held of a session has the turns of its file, classified and labelled.
LEMMA HeldTurns ==
    ASSUME NEW s, NEW source, NEW up, NEW events, NEW live
    PROVE  \E compacts : AnalyseSession(s, source, up, events, live).turns =
                            Detected(Classified(TurnsOf(s, source = "codex", events, up # None)), compacts)
BY DEF AnalyseSession, TurnsOf

\* A turn that only reads files is held to be a repeat exactly when each of them
\* came out as it did the last time any command of the session read it, whatever
\* the log and whenever it was read (isReread, updatePathHashes).
THEOREM RereadsAreRepeatsAlways == Spec => []RereadsAreRepeats
<1>1. SourcesInv => RereadsAreRepeats
  <2> SUFFICES ASSUME SourcesInv, NEW s \in DOMAIN sources PROVE OnlyRepeatsAreRereads(sources[s].turns)
    BY DEF RereadsAreRepeats
  <2> DEFINE events == EventsOf(fingerprints[s])
             base == TurnsOf(s, SourceOf[s] = "codex", events, parent[s] # None)
  <2>1. FromFile(s)
    BY DEF SourcesInv
  <2>2. TurnsOK(base)
    BY <2>1, EventsOfFile, TurnsOfLog DEF FromFile
  <2>3. PICK compacts : sources[s].turns = Detected(Classified(base), compacts)
    <3>1. PICK live \in BOOLEAN : sources[s] = AnalyseSession(s, SourceOf[s], parent[s], events, live)
      BY <2>1 DEF FromFile
    <3> HIDE DEF events
    <3> QED BY <3>1, HeldTurns
  <2> HIDE DEF base
  <2> QED BY <2>2, <2>3, RereadsRepeat
<1> QED BY <1>1, SourcesInvAlways, PTL

---------------------------------------------------------------------------
\* Sums.

LEMMA SumSteps ==
    ASSUME NEW list \in Seq(Nat)
    PROVE  \E f : /\ SumOf(list) = f[Len(list)] /\ f[0] = 0
                  /\ \A i \in 1..Len(list) : f[i] = f[i - 1] + list[i]
                  /\ \A i \in 0..Len(list) : f[i] \in Nat
<1> DEFINE n == Len(list)
           Step(i, x) == x + list[i]
           P(f) == f = [i \in 0..n |-> IF i = 0 THEN 0 ELSE Step(i, f[i - 1])]
           Q(m, f) == f = [i \in 0..m |-> f[i]] /\ f[0] = 0 /\ \A i \in 1..m : f[i] = Step(i, f[i - 1])
           S == {m \in 0..n : \E f : Q(m, f)}
           sum == CHOOSE f : P(f)
<1>1. SumOf(list) = sum[n] /\ n \in Nat
  BY DEF SumOf
<1> HIDE DEF Step
<1>2. 0 \in S
  <2>1. Q(0, [i \in 0..0 |-> 0])
    OBVIOUS
  <2> HIDE DEF Q
  <2> QED BY <2>1
<1>3. \A m \in 0..(n - 1) : m \in S => m + 1 \in S
  <2> HIDE DEF Q
  <2> SUFFICES ASSUME NEW m \in 0..(n - 1), NEW f, Q(m, f) PROVE \E g : Q(m + 1, g)
    BY <1>1
  <2> USE DEF Q
  <2> DEFINE g == [i \in 0..(m + 1) |-> IF i = m + 1 THEN Step(m + 1, f[m]) ELSE f[i]]
  <2>1. g = [i \in 0..(m + 1) |-> g[i]]
    OBVIOUS
  <2>2. g[m + 1] = Step(m + 1, f[m]) /\ \A i \in 0..m : g[i] = f[i]
    OBVIOUS
  <2> HIDE DEF g
  <2>3. g[0] = 0
    BY <2>2
  <2>4. ASSUME NEW i \in 1..(m + 1) PROVE g[i] = Step(i, g[i - 1])
    <3>1. CASE i = m + 1
      <4>1. i - 1 = m /\ g[m] = f[m]
        BY <2>2, <3>1
      <4> QED BY <2>2, <3>1, <4>1
    <3>2. CASE i # m + 1
      <4>1. i \in 1..m /\ i \in 0..m /\ i - 1 \in 0..m
        BY <3>2
      <4> QED BY <2>2, <4>1
    <3> QED BY <3>1, <3>2
  <2> QED BY <2>1, <2>3, <2>4
<1>4. 0..n \subseteq S
  <2> HIDE DEF S
  <2> QED BY <1>1, <1>2, <1>3, ReachesAll
<1>5. PICK f : Q(n, f)
  <2> HIDE DEF Q
  <2> QED BY <1>1, <1>4
<1>6. P(sum)
  <2>0. \A i \in 0..n : f[i] = IF i = 0 THEN 0 ELSE Step(i, f[i - 1])
    BY <1>1, <1>5
  <2>1. P(f)
    BY <1>5, <2>0
  <2> HIDE DEF P
  <2> QED BY <2>1
<1>7. sum[0] = 0 /\ \A i \in 1..n : sum[i] = Step(i, sum[i - 1])
  <2>1. sum = [i \in 0..n |-> IF i = 0 THEN 0 ELSE Step(i, sum[i - 1])]
    BY <1>6
  <2> HIDE DEF sum
  <2> QED BY <1>1, <2>1
<1> HIDE DEF sum
<1>8. \A i \in 0..n : sum[i] \in Nat
  <2> DEFINE R == {i \in 0..n : sum[i] \in Nat}
  <2>1. 0 \in R
    BY <1>1, <1>7
  <2>2. \A i \in 0..(n - 1) : i \in R => i + 1 \in R
    <3> SUFFICES ASSUME NEW i \in 0..(n - 1), sum[i] \in Nat PROVE sum[i + 1] \in Nat
      BY <1>1
    <3>1. i + 1 \in 1..n /\ (i + 1) - 1 = i
      BY <1>1
    <3> QED BY <1>7, <3>1 DEF Step
  <2>3. 0..n \subseteq R
    <3> HIDE DEF R
    <3> QED BY <1>1, <2>1, <2>2, ReachesAll
  <2> QED BY <2>3
<1> QED BY <1>1, <1>7, <1>8 DEF Step

LEMMA SumNat == ASSUME NEW list \in Seq(Nat) PROVE SumOf(list) \in Nat
<1>1. Len(list) \in 0..Len(list)
  OBVIOUS
<1> QED BY <1>1, SumSteps

LEMMA EmptySum == ASSUME NEW list \in Seq(Nat), Len(list) = 0 PROVE SumOf(list) = 0
BY SumSteps

\* Two lists that agree but for one place.
LEMMA SumDiffers ==
    ASSUME NEW a \in Seq(Nat), NEW b \in Seq(Nat), Len(a) = Len(b), NEW j \in 1..Len(a),
           \A i \in 1..Len(a) : i # j => b[i] = a[i]
    PROVE  SumOf(b) + a[j] = SumOf(a) + b[j]
<1>1. PICK f : /\ SumOf(a) = f[Len(a)] /\ f[0] = 0
               /\ \A i \in 1..Len(a) : f[i] = f[i - 1] + a[i]
               /\ \A i \in 0..Len(a) : f[i] \in Nat
  BY SumSteps
<1>2. PICK g : /\ SumOf(b) = g[Len(b)] /\ g[0] = 0
               /\ \A i \in 1..Len(b) : g[i] = g[i - 1] + b[i]
               /\ \A i \in 0..Len(b) : g[i] \in Nat
  BY SumSteps
<1> DEFINE n == Len(a)
           S == {i \in 0..n : IF i < j THEN g[i] = f[i] ELSE g[i] + a[j] = f[i] + b[j]}
<1>3. 0 \in S /\ n \in Nat
  BY <1>1, <1>2
<1>4. \A i \in 0..(n - 1) : i \in S => i + 1 \in S
  <2> SUFFICES ASSUME NEW i \in 0..(n - 1), i \in S PROVE i + 1 \in S
    OBVIOUS
  <2>1. i + 1 \in 1..n /\ (i + 1) - 1 = i /\ i \in 0..n
    BY <1>3
  <2>2. f[i + 1] = f[i] + a[i + 1] /\ g[i + 1] = g[i] + b[i + 1]
    BY <1>1, <1>2, <2>1
  <2>3. f[i] \in Nat /\ g[i] \in Nat /\ a[i + 1] \in Nat /\ b[i + 1] \in Nat /\ a[j] \in Nat /\ b[j] \in Nat
    <3>1. f[i] \in Nat /\ g[i] \in Nat
      BY <1>1, <1>2, <2>1
    <3>2. \A k \in 1..n : a[k] \in Nat /\ b[k] \in Nat
      OBVIOUS
    <3> QED BY <2>1, <3>1, <3>2
  <2>4. CASE i + 1 < j
    BY <2>1, <2>2, <2>3, <2>4
  <2>5. CASE i + 1 = j
    BY <2>1, <2>2, <2>3, <2>5
  <2>6. CASE i + 1 > j
    <3>1. ~(i < j) /\ ~(i + 1 < j) /\ i + 1 # j
      BY <2>1, <2>6
    <3>2. g[i] + a[j] = f[i] + b[j] /\ b[i + 1] = a[i + 1]
      BY <2>1, <3>1
    <3>3. g[i + 1] + a[j] = f[i + 1] + b[j]
      <4> DEFINE p == g[i]
                 q == a[j]
                 r == f[i]
                 u == a[i + 1]
                 v == b[j]
      <4>1. p + q = r + v /\ p \in Nat /\ q \in Nat /\ r \in Nat /\ u \in Nat /\ v \in Nat
        BY <2>3, <3>2
      <4>2. g[i + 1] = p + u /\ f[i + 1] = r + u
        BY <2>2, <3>2
      <4> HIDE DEF p, q, r, u, v
      <4>3. (p + u) + q = (r + u) + v
        BY <4>1
      <4>4. g[i + 1] + q = f[i + 1] + v
        BY <4>2, <4>3
      <4> QED BY <4>4 DEF q, v
    <3>4. i + 1 \in 0..n
      BY <2>1
    <3> QED BY <3>1, <3>3, <3>4
  <2> QED BY <2>4, <2>5, <2>6
<1>5. 0..n \subseteq S
  <2> HIDE DEF S
  <2> QED BY <1>3, <1>4, ReachesAll
<1>6. n \in S /\ ~(n < j)
  BY <1>3, <1>5
<1> QED BY <1>1, <1>2, <1>6

\* A list with one number more.
LEMMA SumExtends ==
    ASSUME NEW a \in Seq(Nat), NEW b \in Seq(Nat), Len(b) = Len(a) + 1, \A i \in 1..Len(a) : b[i] = a[i]
    PROVE  SumOf(b) = SumOf(a) + b[Len(a) + 1]
<1>1. PICK f : /\ SumOf(a) = f[Len(a)] /\ f[0] = 0
               /\ \A i \in 1..Len(a) : f[i] = f[i - 1] + a[i]
               /\ \A i \in 0..Len(a) : f[i] \in Nat
  BY SumSteps
<1>2. PICK g : /\ SumOf(b) = g[Len(b)] /\ g[0] = 0
               /\ \A i \in 1..Len(b) : g[i] = g[i - 1] + b[i]
               /\ \A i \in 0..Len(b) : g[i] \in Nat
  BY SumSteps
<1> DEFINE n == Len(a)
           S == {i \in 0..n : g[i] = f[i]}
<1>3. 0 \in S /\ n \in Nat
  BY <1>1, <1>2
<1>4. \A i \in 0..(n - 1) : i \in S => i + 1 \in S
  <2> SUFFICES ASSUME NEW i \in 0..(n - 1), g[i] = f[i] PROVE i + 1 \in S
    OBVIOUS
  <2>1. i + 1 \in 1..n /\ (i + 1) - 1 = i /\ i + 1 \in 1..Len(b)
    BY <1>3
  <2> QED BY <1>1, <1>2, <2>1
<1>5. 0..n \subseteq S
  <2> HIDE DEF S
  <2> QED BY <1>3, <1>4, ReachesAll
<1>6. g[n] = f[n] /\ n + 1 \in 1..Len(b) /\ (n + 1) - 1 = n
  BY <1>3, <1>5
<1> QED BY <1>1, <1>2, <1>6

---------------------------------------------------------------------------
\* What the outputs of a list of turns, tasks or events come to.

Outputs(list) == [i \in DOMAIN list |-> Amount(list[i].output)]
Total(list) == SumOf(Outputs(list))
CostsOK(list) == IsList(list) /\ \A i \in 1..Len(list) : list[i].output \in Nat \cup {None}

LEMMA OutputsOK == ASSUME NEW list, CostsOK(list)
                   PROVE  /\ Outputs(list) \in Seq(Nat) /\ Len(Outputs(list)) = Len(list)
                          /\ \A i \in 1..Len(list) : Outputs(list)[i] = Amount(list[i].output)
<1>1. Len(list) \in Nat /\ DOMAIN list = 1..Len(list) /\ \A i \in 1..Len(list) : list[i].output \in Nat \cup {None}
  BY Listed DEF CostsOK
<1>2. Outputs(list) = [i \in 1..Len(list) |-> Amount(list[i].output)]
  BY <1>1 DEF Outputs
<1>3. \A i \in 1..Len(list) : Amount(list[i].output) \in Nat
  BY <1>1 DEF Amount
<1> QED BY <1>1, <1>2, <1>3

LEMMA TotalNat == ASSUME NEW list, CostsOK(list) PROVE Total(list) \in Nat
BY OutputsOK, SumNat DEF Total

LEMMA TotalAppend ==
    ASSUME NEW list, CostsOK(list), NEW x, x.output \in Nat \cup {None}
    PROVE  CostsOK(Append(list, x)) /\ Total(Append(list, x)) = Total(list) + Amount(x.output)
<1> DEFINE new == Append(list, x)
           n == Len(list)
<1>1. /\ IsList(list) /\ IsList(new) /\ Len(new) = n + 1 /\ new[n + 1] = x /\ n \in Nat
      /\ \A i \in 1..n : new[i] = list[i]
  BY Appended, Listed DEF CostsOK
<1> HIDE DEF new
<1>2. CostsOK(new)
  <2>1. ASSUME NEW i \in 1..(n + 1) PROVE new[i].output \in Nat \cup {None}
    <3>1. CASE i = n + 1
      BY <1>1, <3>1
    <3>2. CASE i # n + 1
      <4>1. i \in 1..n
        BY <1>1, <3>2
      <4> QED BY <1>1, <4>1 DEF CostsOK
    <3> QED BY <3>1, <3>2
  <2> QED BY <1>1, <2>1 DEF CostsOK
<1> DEFINE a == Outputs(list)
           b == Outputs(new)
<1>3. /\ a \in Seq(Nat) /\ b \in Seq(Nat) /\ Len(a) = n /\ Len(b) = n + 1
      /\ \A i \in 1..n : a[i] = Amount(list[i].output)
      /\ \A i \in 1..(n + 1) : b[i] = Amount(new[i].output)
  BY <1>1, <1>2, OutputsOK
<1>4. \A i \in 1..n : b[i] = a[i]
  <2>1. 1..n \subseteq 1..(n + 1)
    BY <1>1
  <2> HIDE DEF a, b
  <2> QED BY <1>1, <1>3, <2>1
<1>5. b[n + 1] = Amount(x.output)
  BY <1>1, <1>3
<1> HIDE DEF a, b
<1>6. SumOf(b) = SumOf(a) + b[n + 1]
  BY <1>3, <1>4, SumExtends
<1> QED BY <1>2, <1>5, <1>6 DEF Total, a, b, new

---------------------------------------------------------------------------
\* The tasks of an agent.

LEMMA TasksSteps ==
    ASSUME NEW events, Len(events) \in Nat, NEW sub
    PROVE  /\ TasksAfter(events, sub)[0] = NoTasks(sub)
           /\ \A i \in 1..Len(events) : TasksAfter(events, sub)[i] = Advance(TasksAfter(events, sub)[i - 1], events[i])
<1> DEFINE n == Len(events)
           Step(i, c) == Advance(c, events[i])
           P(f) == f = [i \in 0..n |-> IF i = 0 THEN NoTasks(sub) ELSE Step(i, f[i - 1])]
           Q(m, f) == f = [i \in 0..m |-> f[i]] /\ f[0] = NoTasks(sub) /\ \A i \in 1..m : f[i] = Step(i, f[i - 1])
           S == {m \in 0..n : \E f : Q(m, f)}
<1>1. TasksAfter(events, sub) = CHOOSE f : P(f)
  <2>1. \A f : f = [i \in 0..n |-> IF i = 0 THEN NoTasks(sub) ELSE Advance(f[i - 1], events[i])] <=> P(f)
    OBVIOUS
  <2> QED BY <2>1 DEF TasksAfter
<1> HIDE DEF Step
<1>2. 0 \in S
  <2>1. Q(0, [i \in 0..0 |-> NoTasks(sub)])
    OBVIOUS
  <2> HIDE DEF Q
  <2> QED BY <2>1
<1>3. \A m \in 0..(n - 1) : m \in S => m + 1 \in S
  <2> SUFFICES ASSUME NEW m \in 0..(n - 1), NEW f, Q(m, f) PROVE \E g : Q(m + 1, g)
    OBVIOUS
  <2> DEFINE g == [i \in 0..(m + 1) |-> IF i = m + 1 THEN Step(m + 1, f[m]) ELSE f[i]]
  <2>1. g = [i \in 0..(m + 1) |-> g[i]]
    OBVIOUS
  <2>2. g[m + 1] = Step(m + 1, f[m]) /\ \A i \in 0..m : g[i] = f[i]
    OBVIOUS
  <2> HIDE DEF g
  <2>3. g[0] = NoTasks(sub)
    BY <2>2
  <2>4. ASSUME NEW i \in 1..(m + 1) PROVE g[i] = Step(i, g[i - 1])
    <3>1. CASE i = m + 1
      <4>1. i - 1 = m /\ g[m] = f[m]
        BY <2>2, <3>1
      <4> QED BY <2>2, <3>1, <4>1
    <3>2. CASE i # m + 1
      <4>1. i \in 1..m /\ i \in 0..m /\ i - 1 \in 0..m
        BY <3>2
      <4> QED BY <2>2, <4>1
    <3> QED BY <3>1, <3>2
  <2> QED BY <2>1, <2>3, <2>4
<1>4. 0..n \subseteq S
  <2> HIDE DEF S
  <2> QED BY <1>2, <1>3, ReachesAll
<1>5. PICK f : Q(n, f)
  <2> HIDE DEF Q
  <2> QED BY <1>4
<1>6. P(f)
  BY <1>5
<1>7. P(TasksAfter(events, sub))
  <2> HIDE DEF P
  <2> QED BY <1>1, <1>6
<1>8. /\ TasksAfter(events, sub)[0] = NoTasks(sub)
      /\ \A i \in 1..n : TasksAfter(events, sub)[i] = Step(i, TasksAfter(events, sub)[i - 1])
  <2> DEFINE c == TasksAfter(events, sub)
  <2>1. c = [i \in 0..n |-> IF i = 0 THEN NoTasks(sub) ELSE Step(i, c[i - 1])]
    BY <1>7
  <2> HIDE DEF c
  <2> QED BY <2>1 DEF c
<1> QED BY <1>8 DEF Step

\* A task that is pending, and what is known of an agent's tasks.
TaskOK(task) ==
    /\ task = [start |-> task.start, counted |-> task.counted, recorded |-> None, used |-> task.used]
    /\ task.counted \in Nat /\ task.used \in BOOLEAN

TasksOK(tasks) ==
    /\ tasks = [pending |-> tasks.pending, done |-> tasks.done, active |-> tasks.active,
                armed |-> tasks.armed, last |-> tasks.last]
    /\ tasks.pending = [id \in DOMAIN tasks.pending |-> tasks.pending[id]]
    /\ \A id \in DOMAIN tasks.pending : TaskOK(tasks.pending[id])
    /\ CostsOK(tasks.done) /\ tasks.armed \in BOOLEAN

\* What each event does to them.
StartEffect(tasks, new) ==
    /\ new.armed = TRUE /\ new.last = tasks.last /\ new.done = tasks.done
    /\ \E id : /\ DOMAIN new.pending = DOMAIN tasks.pending \cup {id}
               /\ new.pending[id].counted = 0
               /\ \A x \in DOMAIN tasks.pending \ {id} : new.pending[x] = tasks.pending[x]

LEMMA StartedIs ==
    ASSUME NEW tasks, TasksOK(tasks), NEW e
    PROVE  TasksOK(Started(tasks, e)) /\ StartEffect(tasks, Started(tasks, e))
<1> DEFINE id == IF e.id = None THEN e.at ELSE e.id
           pending == [i \in DOMAIN tasks.pending \cup {id} |-> IF i = id THEN Fresh(e.at) ELSE tasks.pending[i]]
           new == Started(tasks, e)
<1> HIDE DEF id
<1>1. new = [tasks EXCEPT !.armed = TRUE, !.active = id, !.pending = pending]
  BY DEF Started, id
<1> HIDE DEF new
<1>2. new = [pending |-> pending, done |-> tasks.done, active |-> id, armed |-> TRUE, last |-> tasks.last]
  <2> HIDE DEF pending
  <2> QED BY <1>1 DEF TasksOK
<1>3. TaskOK(Fresh(e.at)) /\ Fresh(e.at).counted = 0
  BY DEF TaskOK, Fresh
<1>4. /\ pending = [i \in DOMAIN pending |-> pending[i]] /\ DOMAIN pending = DOMAIN tasks.pending \cup {id}
      /\ pending[id] = Fresh(e.at) /\ \A x \in DOMAIN tasks.pending \ {id} : pending[x] = tasks.pending[x]
  OBVIOUS
<1> HIDE DEF pending
<1>5. \A x \in DOMAIN pending : TaskOK(pending[x])
  BY <1>3, <1>4 DEF TasksOK
<1>6. TasksOK(new)
  BY <1>2, <1>4, <1>5 DEF TasksOK
<1>7. StartEffect(tasks, new)
  BY <1>2, <1>3, <1>4 DEF StartEffect
<1> QED BY <1>6, <1>7 DEF new

UseEffect(tasks, e, new) ==
    /\ e.output \in Nat /\ e.raw # tasks.last
    /\ new.armed = tasks.armed /\ new.last = e.raw /\ new.done = tasks.done
    /\ DOMAIN new.pending = DOMAIN tasks.pending
    /\ \/ new.pending = tasks.pending
       \/ \E id \in DOMAIN tasks.pending :
             /\ new.pending[id].counted = tasks.pending[id].counted + e.output
             /\ \A x \in DOMAIN tasks.pending \ {id} : new.pending[x] = tasks.pending[x]

LEMMA CountIs ==
    ASSUME NEW task, TaskOK(task), NEW e
    PROVE  Count(task, e) = [start |-> task.start, counted |-> task.counted + e.output, recorded |-> None, used |-> TRUE]
<1> DEFINE start == task.start
           counted == task.counted
           used == task.used
<1>1. task = [start |-> start, counted |-> counted, recorded |-> None, used |-> used]
  BY DEF TaskOK
<1> HIDE DEF start, counted, used
<1>2. [task EXCEPT !.counted = @ + e.output]
        = [start |-> start, counted |-> counted + e.output, recorded |-> None, used |-> used]
  BY <1>1
<1>3. Count(task, e) = [[task EXCEPT !.counted = @ + e.output] EXCEPT !.used = TRUE]
  BY DEF Count
<1>4. Count(task, e) = [start |-> start, counted |-> counted + e.output, recorded |-> None, used |-> TRUE]
  BY <1>2, <1>3
<1> QED BY <1>4 DEF start, counted

LEMMA UsedIs ==
    ASSUME NEW tasks, TasksOK(tasks), NEW e, e.output \in Nat \cup {None}
    PROVE  /\ TasksOK(Used(tasks, e))
           /\ IF e.output = None \/ e.raw = tasks.last THEN Used(tasks, e) = tasks
              ELSE UseEffect(tasks, e, Used(tasks, e))
<1>1. CASE e.output = None \/ e.raw = tasks.last
  BY <1>1 DEF Used
<1>2. CASE ~(e.output = None \/ e.raw = tasks.last)
  <2> DEFINE id == IdOf(tasks, e)
             old == tasks.pending[id]
             task == [start |-> old.start, counted |-> old.counted + e.output, recorded |-> None, used |-> TRUE]
             pending == IF id \notin DOMAIN tasks.pending THEN tasks.pending ELSE [tasks.pending EXCEPT ![id] = task]
             new == Used(tasks, e)
  <2>0. e.output \in Nat /\ e.raw # tasks.last
    BY <1>2
  <2> HIDE DEF id
  <2>2. id \in DOMAIN tasks.pending => Count(tasks.pending[id], e) = task
    BY CountIs DEF TasksOK
  <2>3. pending = IF id \notin DOMAIN tasks.pending THEN tasks.pending ELSE [tasks.pending EXCEPT ![id] = Count(@, e)]
    <3> HIDE DEF task, old
    <3>1. [tasks.pending EXCEPT ![id] = Count(@, e)] = [tasks.pending EXCEPT ![id] = Count(tasks.pending[id], e)]
      OBVIOUS
    <3> QED BY <2>2, <3>1 DEF pending
  <2> HIDE DEF pending
  <2>1. new = [tasks EXCEPT !.last = e.raw, !.pending = pending]
    BY <1>2, <2>3 DEF Used, Counting, id
  <2> HIDE DEF new
  <2>4. new = [pending |-> pending, done |-> tasks.done, active |-> tasks.active, armed |-> tasks.armed, last |-> e.raw]
    BY <2>1 DEF TasksOK
  <2> USE DEF pending
  <2>5. id \in DOMAIN tasks.pending => TaskOK(task) /\ task.counted = old.counted + e.output
    <3> HIDE DEF old
    <3>1. id \in DOMAIN tasks.pending => old.counted \in Nat
      BY DEF TasksOK, TaskOK, old
    <3> QED BY <2>0, <3>1 DEF TaskOK
  <2> HIDE DEF task
  <2>6. /\ DOMAIN pending = DOMAIN tasks.pending /\ pending = [x \in DOMAIN tasks.pending |-> pending[x]]
        /\ id \in DOMAIN tasks.pending => pending[id] = task
        /\ \A x \in DOMAIN tasks.pending \ {id} : pending[x] = tasks.pending[x]
        /\ id \notin DOMAIN tasks.pending => pending = tasks.pending
    BY DEF TasksOK
  <2> HIDE DEF pending
  <2>7. TasksOK(new)
    <3>1. \A x \in DOMAIN pending : TaskOK(pending[x])
      BY <2>5, <2>6 DEF TasksOK
    <3> QED BY <2>4, <2>6, <3>1 DEF TasksOK
  <2>8. UseEffect(tasks, e, new)
    BY <2>0, <2>4, <2>5, <2>6 DEF UseEffect
  <2> QED BY <1>2, <2>7, <2>8 DEF new
<1> QED BY <1>1, <1>2

DoneEffect(tasks, new) ==
    /\ new.armed = tasks.armed /\ new.last = tasks.last
    /\ \E timing, id :
        /\ new.done = Append(tasks.done, timing) /\ timing.output \in Nat \cup {None}
        /\ IF id \in DOMAIN tasks.pending THEN Amount(timing.output) <= tasks.pending[id].counted
           ELSE Amount(timing.output) = 0
        /\ DOMAIN new.pending = DOMAIN tasks.pending \ {id}
        /\ \A x \in DOMAIN tasks.pending \ {id} : new.pending[x] = tasks.pending[x]

LEMMA CompletedIs ==
    ASSUME NEW tasks, TasksOK(tasks), NEW e
    PROVE  /\ TasksOK(Completed(tasks, e))
           /\ Completed(tasks, e) = tasks \/ DoneEffect(tasks, Completed(tasks, e))
<1> DEFINE id == IdOf(tasks, e)
           new == Completed(tasks, e)
           task == IF id \in DOMAIN tasks.pending THEN tasks.pending[id] ELSE Fresh(None)
           output == IF ~task.used THEN None ELSE IF task.recorded # None THEN task.recorded ELSE task.counted
           pending == [i \in DOMAIN tasks.pending \ {id} |-> tasks.pending[i]]
<1>1. CASE Finished(tasks, id)
  BY <1>1 DEF Completed
<1>2. CASE ~Finished(tasks, id)
  <2> DEFINE timing == TimingOf(task, id, e)
             active == IF tasks.active = id THEN None ELSE tasks.active
  <2>1. new = [tasks EXCEPT !.done = Append(@, timing), !.pending = [i \in DOMAIN @ \ {id} |-> @[i]], !.active = active]
    <3> HIDE DEF id
    <3> QED BY <1>2 DEF Completed, id
  <2>2. timing.output = output
    BY DEF TimingOf
  <2> HIDE DEF new, id, timing, active
  <2>3. new = [pending |-> pending, done |-> Append(tasks.done, timing), active |-> active,
               armed |-> tasks.armed, last |-> tasks.last]
    BY <2>1 DEF TasksOK
  <2>4. TaskOK(task) /\ (id \notin DOMAIN tasks.pending => task.used = FALSE)
    BY DEF TasksOK, TaskOK, Fresh
  <2>5. output \in Nat \cup {None} /\ Amount(output) <= task.counted /\ (~task.used => Amount(output) = 0)
    <3> HIDE DEF task
    <3> QED BY <2>4 DEF TaskOK, Amount
  <2>6. CostsOK(Append(tasks.done, timing))
    BY <2>2, <2>5, TotalAppend DEF TasksOK
  <2>7. /\ DOMAIN pending = DOMAIN tasks.pending \ {id} /\ pending = [i \in DOMAIN pending |-> pending[i]]
        /\ \A x \in DOMAIN tasks.pending \ {id} : pending[x] = tasks.pending[x]
    OBVIOUS
  <2>8. id \in DOMAIN tasks.pending => task = tasks.pending[id]
    OBVIOUS
  <2> HIDE DEF pending, task
  <2>9. TasksOK(new)
    <3>1. \A x \in DOMAIN pending : TaskOK(pending[x])
      BY <2>7 DEF TasksOK
    <3> QED BY <2>3, <2>6, <2>7, <3>1 DEF TasksOK
  <2>10. DoneEffect(tasks, new)
    <3>1. /\ new.armed = tasks.armed /\ new.last = tasks.last
          /\ new.done = Append(tasks.done, timing) /\ timing.output \in Nat \cup {None}
          /\ DOMAIN new.pending = DOMAIN tasks.pending \ {id}
          /\ \A x \in DOMAIN tasks.pending \ {id} : new.pending[x] = tasks.pending[x]
      BY <2>2, <2>3, <2>5, <2>7
    <3>2. IF id \in DOMAIN tasks.pending THEN Amount(timing.output) <= tasks.pending[id].counted
          ELSE Amount(timing.output) = 0
      BY <2>2, <2>4, <2>5, <2>8
    <3> QED BY <3>1, <3>2 DEF DoneEffect
  <2> QED BY <2>9, <2>10 DEF new
<1> QED BY <1>1, <1>2

\* Nothing of the log reports the usage of a task.
NoReports(events) == \A i \in DOMAIN events : events[i].kind # "usage"

LEMMA AdvanceKeeps ==
    ASSUME NEW tasks, TasksOK(tasks), NEW e, EventOK(e), e.kind # "usage"
    PROVE  /\ TasksOK(Advance(tasks, e))
           /\ \/ e.kind = "start" /\ StartEffect(tasks, Advance(tasks, e))
              \/ e.kind = "request" /\ tasks.armed /\ UseEffect(tasks, e, Advance(tasks, e))
              \/ e.kind = "complete" /\ DoneEffect(tasks, Advance(tasks, e))
              \/ e.kind # "start" /\ Advance(tasks, e) = tasks
           /\ (e.kind = "request" /\ tasks.armed /\ Advance(tasks, e) = tasks)
                    => e.output = None \/ e.raw = tasks.last
<1>0. e.output \in Nat \cup {None}
  BY DEF EventOK
<1>1. CASE e.kind = "start"
  BY <1>1, StartedIs DEF Advance
<1>2. CASE e.kind # "start" /\ ~tasks.armed
  BY <1>2 DEF Advance
<1>3. CASE e.kind = "request" /\ tasks.armed
  <2>1. Advance(tasks, e) = Used(tasks, e)
    BY <1>3 DEF Advance
  <2>2. /\ TasksOK(Used(tasks, e))
        /\ IF e.output = None \/ e.raw = tasks.last THEN Used(tasks, e) = tasks ELSE UseEffect(tasks, e, Used(tasks, e))
    BY <1>0, UsedIs
  <2>3. UseEffect(tasks, e, Used(tasks, e)) => Used(tasks, e) # tasks
    BY DEF UseEffect
  <2> QED BY <1>3, <2>1, <2>2, <2>3
<1>4. CASE e.kind = "complete" /\ tasks.armed
  BY <1>4, CompletedIs DEF Advance
<1>5. CASE e.kind \notin {"start", "request", "complete"} /\ tasks.armed
  BY <1>5 DEF Advance
<1> QED BY <1>1, <1>2, <1>3, <1>4, <1>5

LEMMA TasksTyped ==
    ASSUME NEW events, EventsOK(events), NoReports(events), NEW sub \in BOOLEAN
    PROVE  \A i \in 0..Len(events) : TasksOK(TasksAfter(events, sub)[i])
<1> DEFINE n == Len(events)
           T == TasksAfter(events, sub)
           S == {i \in 0..n : TasksOK(T[i])}
<1>1. n \in Nat /\ T[0] = NoTasks(sub) /\ \A i \in 1..n : T[i] = Advance(T[i - 1], events[i])
  BY TasksSteps DEF EventsOK
<1>2. TasksOK(NoTasks(sub))
  <2>1. CostsOK(<<>>)
    <3>1. <<>> \in Seq({}) /\ Len(<<>>) = 0
      BY EmptySeq
    <3> QED BY <3>1 DEF CostsOK, IsList
  <2> QED BY <2>1 DEF TasksOK, NoTasks
<1> HIDE DEF T
<1>3. 0 \in S
  BY <1>1, <1>2
<1>4. \A i \in 0..(n - 1) : i \in S => i + 1 \in S
  <2> SUFFICES ASSUME NEW i \in 0..(n - 1), TasksOK(T[i]) PROVE i + 1 \in S
    OBVIOUS
  <2>1. i + 1 \in 1..n /\ (i + 1) - 1 = i /\ i + 1 \in 0..n
    BY <1>1
  <2>2. EventOK(events[i + 1]) /\ events[i + 1].kind # "usage"
    BY <2>1 DEF EventsOK, NoReports
  <2>3. TasksOK(Advance(T[i], events[i + 1]))
    BY <2>2, AdvanceKeeps
  <2>4. T[i + 1] = Advance(T[i], events[i + 1])
    BY <1>1, <2>1
  <2> QED BY <2>1, <2>3, <2>4
<1>5. 0..n \subseteq S
  <2> HIDE DEF S
  <2> QED BY <1>1, <1>3, <1>4, ReachesAll
<1> QED BY <1>5 DEF T

\* What a step of the extraction is.
LEMMA TasksStep ==
    ASSUME NEW events, EventsOK(events), NoReports(events), NEW sub \in BOOLEAN, NEW i \in 0..(Len(events) - 1)
    PROVE  LET old == TasksAfter(events, sub)[i]
               new == TasksAfter(events, sub)[i + 1]
               e == events[i + 1]
           IN  /\ TasksOK(old) /\ TasksOK(new) /\ EventOK(e) /\ e.raw \in Nat /\ i + 1 \in DOMAIN events
               /\ \/ e.kind = "start" /\ StartEffect(old, new)
                  \/ e.kind = "request" /\ old.armed /\ UseEffect(old, e, new)
                  \/ e.kind = "complete" /\ DoneEffect(old, new)
                  \/ e.kind # "start" /\ new = old
               /\ (e.kind = "request" /\ old.armed /\ new = old) => e.output = None \/ e.raw = old.last
<1>1. i + 1 \in 1..Len(events) /\ (i + 1) - 1 = i /\ i \in 0..Len(events) /\ i + 1 \in DOMAIN events
  BY DEF EventsOK
<1>2. EventOK(events[i + 1]) /\ events[i + 1].kind # "usage" /\ events[i + 1].raw \in Nat
  BY <1>1 DEF EventsOK, NoReports
<1> DEFINE T == TasksAfter(events, sub)
<1>3. T[i + 1] = Advance(T[i], events[i + 1])
  BY <1>1, TasksSteps DEF EventsOK
<1>4. TasksOK(T[i])
  BY <1>1, TasksTyped
<1> HIDE DEF T
<1>5. /\ TasksOK(T[i + 1])
      /\ \/ events[i + 1].kind = "start" /\ StartEffect(T[i], T[i + 1])
         \/ events[i + 1].kind = "request" /\ T[i].armed /\ UseEffect(T[i], events[i + 1], T[i + 1])
         \/ events[i + 1].kind = "complete" /\ DoneEffect(T[i], T[i + 1])
         \/ events[i + 1].kind # "start" /\ T[i + 1] = T[i]
      /\ (events[i + 1].kind = "request" /\ T[i].armed /\ T[i + 1] = T[i])
            => events[i + 1].output = None \/ events[i + 1].raw = T[i].last
  BY <1>2, <1>3, <1>4, AdvanceKeeps
<1> QED BY <1>1, <1>2, <1>4, <1>5 DEF T

\* Nothing counts for a subagent before a task starts, here as in the ledger.
LEMMA ArmedIs ==
    ASSUME NEW events, EventsOK(events), NoReports(events), NEW sub \in BOOLEAN
    PROVE  \A i \in 0..Len(events) : TasksAfter(events, sub)[i].armed <=> (~sub \/ Starts(events, i))
<1> DEFINE n == Len(events)
           T == TasksAfter(events, sub)
           S == {i \in 0..n : T[i].armed <=> (~sub \/ Starts(events, i))}
<1>0. n \in Nat
  BY DEF EventsOK
<1>1. 0 \in S
  <2>1. T[0] = NoTasks(sub)
    BY <1>0, TasksSteps
  <2>2. T[0].armed = ~sub
    BY <2>1 DEF NoTasks
  <2>3. ~Starts(events, 0)
    BY DEF Starts
  <2>4. T[0].armed <=> (~sub \/ Starts(events, 0))
    BY <2>2, <2>3
  <2> HIDE DEF T
  <2>5. 0 \in 0..n
    BY <1>0
  <2> QED BY <2>4, <2>5
<1>2. \A i \in 0..(n - 1) : i \in S => i + 1 \in S
  <2> SUFFICES ASSUME NEW i \in 0..(n - 1), T[i].armed <=> (~sub \/ Starts(events, i)) PROVE i + 1 \in S
    OBVIOUS
  <2>0. i + 1 \in 0..n /\ 1..(i + 1) = 1..i \cup {i + 1}
    BY <1>0
  <2>1. Starts(events, i + 1) <=> Starts(events, i) \/ events[i + 1].kind = "start"
    BY <2>0 DEF Starts
  <2>2. /\ T[i].armed \in BOOLEAN /\ T[i + 1].armed \in BOOLEAN
        /\ \/ events[i + 1].kind = "start" /\ T[i + 1].armed = TRUE
           \/ events[i + 1].kind # "start" /\ T[i + 1].armed = T[i].armed
    <3> DEFINE old == T[i]
               new == T[i + 1]
               e == events[i + 1]
    <3>1. /\ TasksOK(old) /\ TasksOK(new)
          /\ \/ e.kind = "start" /\ StartEffect(old, new)
             \/ e.kind = "request" /\ old.armed /\ UseEffect(old, e, new)
             \/ e.kind = "complete" /\ DoneEffect(old, new)
             \/ e.kind # "start" /\ new = old
      BY TasksStep
    <3> HIDE DEF old, new, e
    <3>2. /\ old.armed \in BOOLEAN /\ new.armed \in BOOLEAN
          /\ \/ e.kind = "start" /\ new.armed = TRUE
             \/ e.kind # "start" /\ new.armed = old.armed
      BY <3>1 DEF TasksOK, StartEffect, UseEffect, DoneEffect
    <3> QED BY <3>2 DEF old, new, e
  <2> HIDE DEF T
  <2> QED BY <2>0, <2>1, <2>2
<1>3. 0..n \subseteq S
  <2> HIDE DEF S
  <2> QED BY <1>0, <1>1, <1>2, ReachesAll
<1> QED BY <1>3 DEF T

\* What a task compares with is the last count of the agent's own that has an output.
LEMMA LastIs ==
    ASSUME NEW events, EventsOK(events), NoReports(events), NEW sub \in BOOLEAN
    PROVE  \A i \in 0..Len(events) :
             LET tasks == TasksAfter(events, sub)[i]
             IN  /\ tasks.last # None => i # 0 /\ tasks.armed /\ tasks.last = events[i].raw
                 /\ \A j \in 1..i : Own(events, j, TRUE, sub) => tasks.last # None
<1> DEFINE n == Len(events)
           T == TasksAfter(events, sub)
           Recent(i, armed, last) == last # None => i # 0 /\ armed /\ last = events[i].raw
           Kept(i, last) == \A j \in 1..i : Own(events, j, TRUE, sub) => last # None
           S == {i \in 0..n : Recent(i, T[i].armed, T[i].last) /\ Kept(i, T[i].last)}
<1>0. n \in Nat /\ DOMAIN events = 1..n
  BY DEF EventsOK
<1>1. 0 \in S
  <2>1. T[0] = NoTasks(sub)
    BY <1>0, TasksSteps
  <2>2. T[0].last = None
    BY <2>1 DEF NoTasks
  <2>3. \A armed : Recent(0, armed, None) /\ Kept(0, None)
    OBVIOUS
  <2> HIDE DEF T, Recent, Kept
  <2>4. 0 \in 0..n
    BY <1>0
  <2> QED BY <2>2, <2>3, <2>4
<1>2. \A i \in 0..(n - 1) : i \in S => i + 1 \in S
  <2> HIDE DEF Recent, Kept
  <2> SUFFICES ASSUME NEW i \in 0..(n - 1), Recent(i, T[i].armed, T[i].last), Kept(i, T[i].last)
               PROVE  Recent(i + 1, T[i + 1].armed, T[i + 1].last) /\ Kept(i + 1, T[i + 1].last)
    BY <1>0
  <2> DEFINE e == events[i + 1]
             was == T[i]
             is == T[i + 1]
  <2>1. i + 1 \in 1..n /\ 1..(i + 1) = 1..i \cup {i + 1} /\ i + 1 # 0 /\ (i + 1) - 1 = i /\ i \in 0..n
    BY <1>0
  <2>2. EventOK(e) /\ e.raw \in Nat
    BY <1>0, <2>1 DEF EventsOK
  <2>3. i # 0 /\ ~Reworded(e) => e.raw = events[i].raw
    BY <1>0, <2>1 DEF EventsOK
  <2>4. /\ TasksOK(was) /\ TasksOK(is)
        /\ \/ e.kind = "start" /\ StartEffect(was, is)
           \/ e.kind = "request" /\ was.armed /\ UseEffect(was, e, is)
           \/ e.kind = "complete" /\ DoneEffect(was, is)
           \/ e.kind # "start" /\ is = was
        /\ (e.kind = "request" /\ was.armed /\ is = was) => e.output = None \/ e.raw = was.last
    BY TasksStep
  <2>5. was.armed <=> (~sub \/ Starts(events, i))
    BY <2>1, ArmedIs
  <2>6. e.kind # "start" => (Starts(events, i + 1) <=> Starts(events, i))
    BY <2>1 DEF Starts
  <2>7. Own(events, i + 1, TRUE, sub) => e.kind = "request" /\ was.armed /\ e.output # None
    <3> HIDE DEF was, is
    <3> SUFFICES ASSUME Own(events, i + 1, TRUE, sub) PROVE e.kind = "request" /\ was.armed /\ e.output # None
      OBVIOUS
    <3>1. e.kind = "request" /\ e.usage # None /\ (sub => Starts(events, i + 1))
      BY DEF Own
    <3>2. e.output # None
      BY <2>2, <3>1, SourcesAssumption DEF EventOK
    <3> QED BY <2>5, <2>6, <3>1, <3>2
  <2> HIDE DEF was, is, e, T
  <2>8. Recent(i, was.armed, was.last) /\ Kept(i, was.last)
    BY DEF was
  <2>9. CASE is.last = e.raw /\ is.armed
    <3>1. is.last # None
      BY <2>2, <2>9, SourcesAssumption
    <3> QED BY <2>1, <2>9, <3>1 DEF Recent, Kept, is, e
  <2>10. CASE is.last = was.last /\ (was.armed => is.armed) /\ ~Reworded(e) /\ ~Own(events, i + 1, TRUE, sub)
    <3>1. Recent(i + 1, is.armed, is.last)
      BY <2>1, <2>3, <2>8, <2>10 DEF Recent, e
    <3>2. Kept(i + 1, is.last)
      BY <2>1, <2>8, <2>10 DEF Kept
    <3> QED BY <3>1, <3>2 DEF is
  <2>11. CASE is = was /\ ~was.armed
    <3>1. was.last = None
      BY <2>8, <2>11 DEF Recent
    <3>2. Kept(i + 1, is.last)
      BY <2>1, <2>7, <2>8, <2>11 DEF Kept
    <3> QED BY <2>11, <3>1, <3>2 DEF Recent, is
  <2>12. \/ is.last = e.raw /\ is.armed
         \/ is.last = was.last /\ (was.armed => is.armed) /\ ~Reworded(e) /\ ~Own(events, i + 1, TRUE, sub)
         \/ is = was /\ ~was.armed
    BY <2>4, <2>7 DEF StartEffect, UseEffect, DoneEffect, Reworded
  <2> QED BY <2>9, <2>10, <2>11, <2>12
<1>3. 0..n \subseteq S
  <2> HIDE DEF S
  <2> QED BY <1>0, <1>1, <1>2, ReachesAll
<1> QED BY <1>3 DEF T

\* What a task counts, the ledger counts, or it is beside the ledger.
LEMMA UseCounts ==
    ASSUME NEW events, EventsOK(events), NoReports(events), NEW sub \in BOOLEAN, NEW i \in 0..(Len(events) - 1),
           events[i + 1].kind = "request", TasksAfter(events, sub)[i].armed, events[i + 1].output # None,
           events[i + 1].raw # TasksAfter(events, sub)[i].last
    PROVE  Counts(events, i + 1, TRUE, sub) \/ Beside(events, i + 1, sub)
<1> DEFINE e == events[i + 1]
           last == TasksAfter(events, sub)[i].last
<1>1. Len(events) \in Nat /\ i \in 0..Len(events) /\ i + 1 \in DOMAIN events /\ EventOK(e) /\ (i + 1) - 1 = i
  BY DEF EventsOK
<1>2. ~sub \/ Starts(events, i + 1)
  <2>1. ~sub \/ Starts(events, i)
    BY <1>1, ArmedIs
  <2>2. 1..i \subseteq 1..(i + 1)
    BY <1>1
  <2> QED BY <2>1, <2>2 DEF Starts
<1>3. CASE e.usage = None \/ e.again = "same"
  BY <1>2, <1>3 DEF Beside
<1>4. CASE e.usage # None /\ e.again # "same"
  <2>1. Own(events, i + 1, TRUE, sub)
    BY <1>2, <1>4 DEF Own
  <2>2. \A j \in 1..i : Own(events, j, TRUE, sub) => events[j].key # e.key
    <3>1. CASE e.again = "new"
      <4>1. IsNew(e)
        BY <1>4, <3>1 DEF IsNew
      <4>2. \A j \in 1..i : events[j].key < e.key /\ events[j].key \in Nat /\ e.key \in Nat
        <5>1. \A j \in 1..i : j \in DOMAIN events
          BY <1>1 DEF EventsOK
        <5> QED BY <1>1, <4>1, <5>1 DEF EventsOK
      <4> QED BY <4>2
    <3>2. CASE e.again = "echo"
      <4> SUFFICES ASSUME NEW j \in 1..i, Own(events, j, TRUE, sub) PROVE FALSE
        OBVIOUS
      <4>1. last # None => i # 0 /\ last = events[i].raw
        BY <1>1, LastIs
      <4>2. last # None
        BY <1>1, LastIs
      <4>3. ~Reworded(e) /\ i \in DOMAIN events
        BY <1>1, <3>2 DEF Reworded, EventsOK
      <4>4. e.raw = events[i].raw
        BY <1>1, <4>3 DEF EventsOK
      <4> QED BY <4>1, <4>2, <4>4
    <3> QED BY <1>1, <1>4, <3>1, <3>2 DEF EventOK
  <2>3. ~Repeats(events, i + 1, sub)
    BY <1>1, <2>2 DEF Repeats
  <2> QED BY <2>1, <2>3 DEF Counts
<1> QED BY <1>3, <1>4

\* What of a log is beside the ledger, event by event.
BesideTo(events, sub, i) == [j \in 1..i |-> IF Beside(events, j, sub) THEN events[j].output ELSE 0]

LEMMA BesideSteps ==
    ASSUME NEW events, EventsOK(events), NEW sub
    PROVE  /\ \A i \in 0..Len(events) : BesideTo(events, sub, i) \in Seq(Nat) /\ Len(BesideTo(events, sub, i)) = i
           /\ \A i \in 0..(Len(events) - 1) :
                SumOf(BesideTo(events, sub, i + 1)) = SumOf(BesideTo(events, sub, i))
                                                      + (IF Beside(events, i + 1, sub) THEN events[i + 1].output ELSE 0)
           /\ BesideOutputs(events, sub) = BesideTo(events, sub, Len(events))
<1> DEFINE n == Len(events)
           B(i) == BesideTo(events, sub, i)
           Out(j) == IF Beside(events, j, sub) THEN events[j].output ELSE 0
<1>1. n \in Nat /\ DOMAIN events = 1..n
  BY DEF EventsOK
<1>2. \A j \in 1..n : Out(j) \in Nat
  BY <1>1 DEF EventsOK, EventOK, Beside
<1>3. \A i : B(i) = [j \in 1..i |-> Out(j)]
  BY DEF BesideTo
<1>4. BesideOutputs(events, sub) = B(n)
  BY <1>1 DEF BesideOutputs, BesideTo
<1> HIDE DEF B, Out
<1>5. ASSUME NEW i \in 0..n PROVE B(i) \in Seq(Nat) /\ Len(B(i)) = i /\ \A j \in 1..i : B(i)[j] = Out(j)
  <2>1. 1..i \subseteq 1..n /\ i \in Nat
    BY <1>1
  <2>2. \A j \in 1..i : Out(j) \in Nat
    BY <1>2, <2>1
  <2>3. B(i) = [j \in 1..i |-> Out(j)]
    BY <1>3
  <2> QED BY <2>1, <2>2, <2>3
<1>6. ASSUME NEW i \in 0..(n - 1) PROVE SumOf(B(i + 1)) = SumOf(B(i)) + Out(i + 1)
  <2>1. i \in 0..n /\ i + 1 \in 0..n /\ i + 1 \in 1..(i + 1) /\ 1..i \subseteq 1..(i + 1)
    BY <1>1
  <2>2. SumOf(B(i + 1)) = SumOf(B(i)) + B(i + 1)[i + 1]
    BY <1>5, <2>1, SumExtends
  <2> QED BY <1>5, <2>1, <2>2
<1> QED BY <1>4, <1>5, <1>6 DEF B, Out

---------------------------------------------------------------------------
\* The tokens of the tasks are within a total: share gives each event of a
\* log some of them, and at gives each pending task the event that started it.

Holds(tasks, i, share, at) ==
    /\ share \in Seq(Nat) /\ Len(share) = i
    /\ \A id \in DOMAIN tasks.pending : at[id] \in 1..i /\ tasks.pending[id].counted <= share[at[id]]
    /\ \A a, b \in DOMAIN tasks.pending : at[a] = at[b] => a = b

WithinLedger(tasks, i, total) == \E share, at : Holds(tasks, i, share, at) /\ Total(tasks.done) + SumOf(share) <= total

\* One share more, of nothing, and another share changed.
LEMMA Shares ==
    ASSUME NEW list \in Seq(Nat), NEW j \in 1..Len(list), NEW v \in Nat
    PROVE  \E new \in Seq(Nat) : /\ Len(new) = Len(list) + 1 /\ new[Len(list) + 1] = 0 /\ new[j] = v
                                 /\ \A k \in 1..Len(list) : k # j => new[k] = list[k]
                                 /\ SumOf(new) + list[j] = SumOf(list) + v
<1> DEFINE n == Len(list)
           changed == [k \in 1..n |-> IF k = j THEN v ELSE list[k]]
           new == [k \in 1..(n + 1) |-> IF k = n + 1 THEN 0 ELSE changed[k]]
<1>0. n \in Nat /\ \A k \in 1..n : list[k] \in Nat
  OBVIOUS
<1>1. /\ changed \in Seq(Nat) /\ Len(changed) = n /\ changed[j] = v
      /\ \A k \in 1..n : k # j => changed[k] = list[k]
  BY <1>0
<1> HIDE DEF changed
<1>2. \A k \in 1..n : changed[k] \in Nat
  BY <1>0, <1>1
<1>3. /\ new \in Seq(Nat) /\ Len(new) = n + 1 /\ new[n + 1] = 0
      /\ \A k \in 1..n : new[k] = changed[k]
  <2>1. n + 1 \in Nat /\ n + 1 \in 1..(n + 1) /\ \A k \in 1..(n + 1) : k # n + 1 => k \in 1..n
    BY <1>0
  <2>2. \A k \in 1..(n + 1) : (IF k = n + 1 THEN 0 ELSE changed[k]) \in Nat
    BY <1>2, <2>1
  <2>3. new \in Seq(Nat) /\ Len(new) = n + 1
    BY <2>1, <2>2
  <2>4. new[n + 1] = 0 /\ \A k \in 1..n : new[k] = changed[k]
    BY <1>0
  <2> QED BY <2>3, <2>4
<1> HIDE DEF new
<1>4. SumOf(changed) + list[j] = SumOf(list) + v
  BY <1>1, SumDiffers
<1>5. SumOf(new) = SumOf(changed)
  <2>1. SumOf(new) = SumOf(changed) + 0
    BY <1>1, <1>3, SumExtends
  <2>2. SumOf(changed) \in Nat
    BY <1>1, SumNat
  <2> QED BY <2>1, <2>2
<1>6. new[j] = v /\ \A k \in 1..n : k # j => new[k] = list[k]
  BY <1>1, <1>3
<1> QED BY <1>3, <1>4, <1>5, <1>6

LEMMA ShareMore ==
    ASSUME NEW list \in Seq(Nat)
    PROVE  \E new \in Seq(Nat) : /\ Len(new) = Len(list) + 1 /\ new[Len(list) + 1] = 0
                                 /\ \A k \in 1..Len(list) : new[k] = list[k]
                                 /\ SumOf(new) = SumOf(list)
<1> DEFINE n == Len(list)
           new == [k \in 1..(n + 1) |-> IF k = n + 1 THEN 0 ELSE list[k]]
<1>0. n \in Nat /\ \A k \in 1..n : list[k] \in Nat
  OBVIOUS
<1>1. /\ new \in Seq(Nat) /\ Len(new) = n + 1 /\ new[n + 1] = 0
      /\ \A k \in 1..n : new[k] = list[k]
  BY <1>0
<1> HIDE DEF new
<1>2. SumOf(new) = SumOf(list) + 0
  BY <1>1, SumExtends
<1>3. SumOf(list) \in Nat
  BY SumNat
<1> QED BY <1>1, <1>2, <1>3

LEMMA WithinSame ==
    ASSUME NEW tasks, NEW i \in Nat, NEW total \in Nat, WithinLedger(tasks, i, total), CostsOK(tasks.done),
           NEW more \in Nat
    PROVE  WithinLedger(tasks, i + 1, total + more)
<1>1. PICK h, at : Holds(tasks, i, h, at) /\ Total(tasks.done) + SumOf(h) <= total
  BY DEF WithinLedger
<1>2. PICK new \in Seq(Nat) : /\ Len(new) = Len(h) + 1 /\ \A k \in 1..Len(h) : new[k] = h[k]
                              /\ SumOf(new) = SumOf(h)
  BY <1>1, ShareMore DEF Holds
<1>3. Holds(tasks, i + 1, new, at)
  BY <1>1, <1>2 DEF Holds
<1>4. SumOf(h) \in Nat /\ Total(tasks.done) \in Nat
  BY <1>1, SumNat, TotalNat DEF Holds
<1>5. Total(tasks.done) + SumOf(new) <= total + more
  BY <1>1, <1>2, <1>4
<1> QED BY <1>3, <1>5 DEF WithinLedger

LEMMA WithinStart ==
    ASSUME NEW tasks, NEW new, NEW i \in Nat, NEW total \in Nat, WithinLedger(tasks, i, total), StartEffect(tasks, new),
           CostsOK(tasks.done)
    PROVE  WithinLedger(new, i + 1, total)
<1>1. PICK h, at : Holds(tasks, i, h, at) /\ Total(tasks.done) + SumOf(h) <= total
  BY DEF WithinLedger
<1>2. PICK g \in Seq(Nat) : /\ Len(g) = Len(h) + 1 /\ \A k \in 1..Len(h) : g[k] = h[k]
                            /\ g[Len(h) + 1] = 0 /\ SumOf(g) = SumOf(h)
  BY <1>1, ShareMore DEF Holds
<1>3. PICK id : /\ DOMAIN new.pending = DOMAIN tasks.pending \cup {id}
                /\ new.pending[id].counted = 0
                /\ \A x \in DOMAIN tasks.pending \ {id} : new.pending[x] = tasks.pending[x]
  BY DEF StartEffect
<1> DEFINE to == [x \in DOMAIN new.pending |-> IF x = id THEN i + 1 ELSE at[x]]
<1>4. /\ to[id] = i + 1
      /\ \A x \in DOMAIN new.pending \ {id} : /\ to[x] = at[x] /\ at[x] \in 1..i /\ x \in DOMAIN tasks.pending
                                              /\ new.pending[x] = tasks.pending[x]
  BY <1>1, <1>3 DEF Holds
<1> HIDE DEF to
<1>5. g[i + 1] = 0 /\ Len(g) = i + 1 /\ \A k \in 1..i : g[k] = h[k]
  BY <1>1, <1>2 DEF Holds
<1>6. ASSUME NEW x \in DOMAIN new.pending PROVE to[x] \in 1..(i + 1) /\ new.pending[x].counted <= g[to[x]]
  <2>1. CASE x = id
    BY <1>3, <1>4, <1>5, <2>1
  <2>2. CASE x # id
    BY <1>1, <1>4, <1>5, <2>2 DEF Holds
  <2> QED BY <2>1, <2>2
<1>7. ASSUME NEW a \in DOMAIN new.pending, NEW b \in DOMAIN new.pending, to[a] = to[b] PROVE a = b
  <2>1. CASE a # id /\ b # id
    BY <1>1, <1>4, <1>7, <2>1 DEF Holds
  <2>2. CASE a = id \/ b = id
    <3>1. \A k \in 1..i : k # i + 1
      OBVIOUS
    <3> QED BY <1>4, <1>7, <2>2, <3>1
  <2> QED BY <2>1, <2>2
<1>8. Holds(new, i + 1, g, to)
  BY <1>5, <1>6, <1>7 DEF Holds
<1>9. Total(new.done) + SumOf(g) <= total
  BY <1>1, <1>2 DEF StartEffect
<1> QED BY <1>8, <1>9 DEF WithinLedger

LEMMA WithinUse ==
    ASSUME NEW tasks, TasksOK(tasks), NEW new, NEW e, NEW i \in Nat, NEW total \in Nat,
           WithinLedger(tasks, i, total), UseEffect(tasks, e, new)
    PROVE  WithinLedger(new, i + 1, total + e.output)
<1>1. PICK h, at : Holds(tasks, i, h, at) /\ Total(tasks.done) + SumOf(h) <= total
  BY DEF WithinLedger
<1>2. e.output \in Nat /\ new.done = tasks.done /\ DOMAIN new.pending = DOMAIN tasks.pending
  BY DEF UseEffect
<1>3. CASE new.pending = tasks.pending
  <2>1. PICK g, to : Holds(tasks, i + 1, g, to) /\ Total(tasks.done) + SumOf(g) <= total + e.output
    BY <1>2, WithinSame DEF TasksOK, WithinLedger
  <2>2. Holds(new, i + 1, g, to)
    BY <1>3, <2>1 DEF Holds
  <2> QED BY <1>2, <2>1, <2>2 DEF WithinLedger
<1>4. CASE \E id \in DOMAIN tasks.pending :
             /\ new.pending[id].counted = tasks.pending[id].counted + e.output
             /\ \A x \in DOMAIN tasks.pending \ {id} : new.pending[x] = tasks.pending[x]
  <2>1. PICK id \in DOMAIN tasks.pending :
             /\ new.pending[id].counted = tasks.pending[id].counted + e.output
             /\ \A x \in DOMAIN tasks.pending \ {id} : new.pending[x] = tasks.pending[x]
    BY <1>4
  <2> DEFINE j == at[id]
             v == h[j] + e.output
  <2>2. h \in Seq(Nat) /\ Len(h) = i /\ j \in 1..i /\ j \in 1..Len(h) /\ h[j] \in Nat
    BY <1>1 DEF Holds
  <2>3. v \in Nat
    BY <1>2, <2>2
  <2> HIDE DEF v
  <2>4. PICK g \in Seq(Nat) : /\ Len(g) = Len(h) + 1 /\ g[j] = v
                              /\ \A k \in 1..Len(h) : k # j => g[k] = h[k]
                              /\ SumOf(g) + h[j] = SumOf(h) + v
    <3> HIDE DEF j
    <3> QED BY <2>2, <2>3, Shares
  <2>5. ASSUME NEW x \in DOMAIN tasks.pending PROVE at[x] \in 1..(i + 1) /\ new.pending[x].counted <= g[at[x]]
    <3>0. at[x] \in 1..i /\ tasks.pending[x].counted <= h[at[x]]
      BY <1>1 DEF Holds
    <3>1. CASE x = id
      <4>1. tasks.pending[id].counted \in Nat
        BY DEF TasksOK, TaskOK
      <4>2. new.pending[id].counted <= v
        BY <1>2, <2>1, <2>2, <3>0, <3>1, <4>1 DEF v
      <4> QED BY <2>4, <3>0, <3>1, <4>2
    <3>2. CASE x # id
      <4>1. at[x] # j /\ new.pending[x] = tasks.pending[x]
        BY <1>1, <2>1, <3>2 DEF Holds
      <4> QED BY <2>2, <2>4, <3>0, <4>1
    <3> QED BY <3>1, <3>2
  <2>6. Holds(new, i + 1, g, at)
    BY <1>1, <1>2, <2>2, <2>4, <2>5 DEF Holds
  <2>7. Total(new.done) + SumOf(g) <= total + e.output
    <3>1. SumOf(h) \in Nat /\ SumOf(g) \in Nat /\ Total(tasks.done) \in Nat
      BY <2>2, <2>4, SumNat, TotalNat DEF TasksOK
    <3>2. SumOf(g) = SumOf(h) + e.output
      <4> DEFINE a == SumOf(g)
                 b == SumOf(h)
                 x == h[j]
                 y == e.output
      <4>1. a + x = b + (x + y) /\ a \in Nat /\ b \in Nat /\ x \in Nat /\ y \in Nat
        BY <1>2, <2>2, <2>4, <3>1 DEF v
      <4> HIDE DEF a, b, x, y
      <4>2. a = b + y
        BY <4>1
      <4> QED BY <4>2 DEF a, b, y
    <3> QED BY <1>1, <1>2, <3>1, <3>2
  <2> QED BY <2>6, <2>7 DEF WithinLedger
<1> QED BY <1>3, <1>4 DEF UseEffect

LEMMA WithinDone ==
    ASSUME NEW tasks, TasksOK(tasks), NEW new, NEW i \in Nat, NEW total \in Nat,
           WithinLedger(tasks, i, total), DoneEffect(tasks, new)
    PROVE  WithinLedger(new, i + 1, total)
<1>1. PICK h, at : Holds(tasks, i, h, at) /\ Total(tasks.done) + SumOf(h) <= total
  BY DEF WithinLedger
<1>2. PICK timing, id :
        /\ new.done = Append(tasks.done, timing) /\ timing.output \in Nat \cup {None}
        /\ IF id \in DOMAIN tasks.pending THEN Amount(timing.output) <= tasks.pending[id].counted
           ELSE Amount(timing.output) = 0
        /\ DOMAIN new.pending = DOMAIN tasks.pending \ {id}
        /\ \A x \in DOMAIN tasks.pending \ {id} : new.pending[x] = tasks.pending[x]
  BY DEF DoneEffect
<1>3. Total(new.done) = Total(tasks.done) + Amount(timing.output) /\ Total(tasks.done) \in Nat
  BY <1>2, TotalAppend, TotalNat DEF TasksOK
<1>4. Amount(timing.output) \in Nat
  BY <1>2 DEF Amount
<1>5. CASE id \notin DOMAIN tasks.pending
  <2>1. PICK g \in Seq(Nat) : /\ Len(g) = Len(h) + 1 /\ \A k \in 1..Len(h) : g[k] = h[k]
                              /\ SumOf(g) = SumOf(h)
    BY <1>1, ShareMore DEF Holds
  <2>2. Holds(new, i + 1, g, at)
    BY <1>1, <1>2, <2>1 DEF Holds
  <2>3. Total(new.done) + SumOf(g) <= total
    BY <1>1, <1>2, <1>3, <1>5, <2>1
  <2> QED BY <2>2, <2>3 DEF WithinLedger
<1>6. CASE id \in DOMAIN tasks.pending
  <2> DEFINE j == at[id]
  <2>1. h \in Seq(Nat) /\ Len(h) = i /\ j \in 1..i /\ j \in 1..Len(h) /\ h[j] \in Nat /\ tasks.pending[id].counted <= h[j]
    BY <1>1, <1>6 DEF Holds
  <2>2. PICK g \in Seq(Nat) : /\ Len(g) = Len(h) + 1
                              /\ \A k \in 1..Len(h) : k # j => g[k] = h[k]
                              /\ SumOf(g) + h[j] = SumOf(h) + 0
    <3> DEFINE v == 0
    <3>1. v \in Nat
      OBVIOUS
    <3> HIDE DEF j, v
    <3>2. \E g \in Seq(Nat) : /\ Len(g) = Len(h) + 1
                              /\ \A k \in 1..Len(h) : k # j => g[k] = h[k]
                              /\ SumOf(g) + h[j] = SumOf(h) + v
      BY <2>1, <3>1, Shares
    <3> QED BY <3>2 DEF v
  <2>3. ASSUME NEW x \in DOMAIN new.pending PROVE at[x] \in 1..(i + 1) /\ new.pending[x].counted <= g[at[x]]
    <3>1. x \in DOMAIN tasks.pending /\ x # id /\ new.pending[x] = tasks.pending[x]
      BY <1>2
    <3>2. at[x] \in 1..i /\ tasks.pending[x].counted <= h[at[x]] /\ at[x] # j
      BY <1>1, <1>6, <3>1 DEF Holds
    <3> QED BY <2>1, <2>2, <3>1, <3>2
  <2>4. Holds(new, i + 1, g, at)
    BY <1>1, <1>2, <2>1, <2>2, <2>3 DEF Holds
  <2>5. Total(new.done) + SumOf(g) <= total
    <3>1. SumOf(h) \in Nat /\ SumOf(g) \in Nat
      BY <2>1, <2>2, SumNat
    <3>2. Amount(timing.output) <= h[j]
      <4>1. tasks.pending[id].counted \in Nat
        BY <1>6 DEF TasksOK, TaskOK
      <4> QED BY <1>2, <1>4, <1>6, <2>1, <4>1
    <3>3. SumOf(g) + Amount(timing.output) <= SumOf(h)
      BY <1>4, <2>1, <2>2, <3>1, <3>2
    <3> QED BY <1>1, <1>3, <1>4, <3>1, <3>3
  <2> QED BY <2>4, <2>5 DEF WithinLedger
<1> QED BY <1>5, <1>6

LEMMA WithinMore ==
    ASSUME NEW tasks, CostsOK(tasks.done), NEW i, NEW total \in Nat, NEW more \in Nat, WithinLedger(tasks, i, total)
    PROVE  WithinLedger(tasks, i, total + more)
<1>1. PICK h, at : Holds(tasks, i, h, at) /\ Total(tasks.done) + SumOf(h) <= total
  BY DEF WithinLedger
<1>2. SumOf(h) \in Nat /\ Total(tasks.done) \in Nat
  BY <1>1, SumNat, TotalNat DEF Holds
<1>3. Total(tasks.done) + SumOf(h) <= total + more
  BY <1>1, <1>2
<1> QED BY <1>1, <1>3 DEF WithinLedger

\* The requests the ledger counts have their outputs.
LEMMA CountedCosts ==
    ASSUME NEW events, EventsOK(events), NEW sub, NEW i \in 0..Len(events)
    PROVE  CostsOK(CountedTo(events, TRUE, sub)[i])
<1>1. CountedTo(events, TRUE, sub)[i] \in Seq(Requests(events, TRUE))
  BY CountedListed
<1>2. \A e \in Requests(events, TRUE) : e.output \in Nat \cup {None}
  BY DEF Requests, Range, EventsOK, EventOK
<1> DEFINE c == CountedTo(events, TRUE, sub)[i]
           R == Requests(events, TRUE)
<1> HIDE DEF c, R
<1>3. \A k \in 1..Len(c) : c[k] \in R
  <2>1. c \in Seq(R)
    BY <1>1 DEF c, R
  <2> QED BY <2>1
<1> QED BY <1>1, <1>2, <1>3 DEF CostsOK, IsList, c, R

\* Event by event, the tokens of the tasks are within those of the ledger and of
\* what is beside it.
LEMMA TasksWithin ==
    ASSUME NEW events, EventsOK(events), NoReports(events), NEW sub \in BOOLEAN
    PROVE  \A i \in 0..Len(events) :
             WithinLedger(TasksAfter(events, sub)[i], i,
                          Total(CountedTo(events, TRUE, sub)[i]) + SumOf(BesideTo(events, sub, i)))
<1> DEFINE n == Len(events)
           T == TasksAfter(events, sub)
           C == CountedTo(events, TRUE, sub)
           B(i) == SumOf(BesideTo(events, sub, i))
           S == {i \in 0..n : WithinLedger(T[i], i, Total(C[i]) + B(i))}
<1>0. n \in Nat
  BY DEF EventsOK
<1>1. 0 \in S
  <2>1. T[0] = NoTasks(sub) /\ C[0] = <<>>
    BY <1>0, TasksSteps, CountedSteps
  <2>2. CostsOK(<<>>)
    <3>1. <<>> \in Seq({}) /\ Len(<<>>) = 0
      BY EmptySeq
    <3> QED BY <3>1 DEF CostsOK, IsList
  <2>3. Total(<<>>) = 0
    BY <2>2, OutputsOK, EmptySum DEF Total
  <2>4. NoTasks(sub).done = <<>> /\ DOMAIN NoTasks(sub).pending = {}
    BY DEF NoTasks
  <2>5. <<>> \in Seq(Nat) /\ Len(<<>>) = 0 /\ SumOf(<<>>) = 0
    BY EmptySeq, EmptySum
  <2>6. Holds(NoTasks(sub), 0, <<>>, <<>>)
    BY <2>4, <2>5 DEF Holds
  <2>7. B(0) = 0
    <3>1. BesideTo(events, sub, 0) \in Seq(Nat) /\ Len(BesideTo(events, sub, 0)) = 0
      BY <1>0, BesideSteps
    <3> QED BY <3>1, EmptySum
  <2> HIDE DEF T, C, B
  <2>8. Total(<<>>) + B(0) = 0
    BY <2>3, <2>7
  <2>9. WithinLedger(NoTasks(sub), 0, 0)
    BY <2>3, <2>4, <2>5, <2>6 DEF WithinLedger
  <2> QED BY <1>0, <2>1, <2>8, <2>9
<1>2. \A i \in 0..(n - 1) : i \in S => i + 1 \in S
  <2> HIDE DEF T, C, B
  <2> SUFFICES ASSUME NEW i \in 0..(n - 1), WithinLedger(T[i], i, Total(C[i]) + B(i))
               PROVE  WithinLedger(T[i + 1], i + 1, Total(C[i + 1]) + B(i + 1))
    BY <1>0
  <2> USE DEF T, C
  <2> DEFINE e == events[i + 1]
             was == T[i]
             is == T[i + 1]
             ledger == Total(C[i])
             total == ledger + B(i)
             beside == IF Beside(events, i + 1, sub) THEN e.output ELSE 0
             counted == IF Counts(events, i + 1, TRUE, sub) THEN Amount(e.output) ELSE 0
  <2>1. i + 1 \in 1..n /\ (i + 1) - 1 = i /\ i \in Nat /\ i \in 0..n
    BY <1>0
  <2>2. /\ TasksOK(was) /\ TasksOK(is) /\ EventOK(e)
        /\ \/ e.kind = "start" /\ StartEffect(was, is)
           \/ e.kind = "request" /\ was.armed /\ UseEffect(was, e, is)
           \/ e.kind = "complete" /\ DoneEffect(was, is)
           \/ e.kind # "start" /\ is = was
    BY TasksStep
  <2>3. CostsOK(C[i]) /\ ledger \in Nat /\ B(i) \in Nat /\ B(i + 1) = B(i) + beside
    <3>1. CostsOK(C[i]) /\ ledger \in Nat
      BY <2>1, CountedCosts, TotalNat
    <3>2. BesideTo(events, sub, i) \in Seq(Nat) /\ B(i + 1) = B(i) + beside
      BY <2>1, BesideSteps DEF B
    <3> QED BY <3>1, <3>2, SumNat DEF B
  <2>4. C[i + 1] = IF Counts(events, i + 1, TRUE, sub) THEN Append(C[i], e) ELSE C[i]
    <3> DEFINE codex == TRUE
    <3> HIDE DEF codex
    <3>1. CountedTo(events, codex, sub)[i + 1] =
                IF Counts(events, i + 1, codex, sub) THEN Append(CountedTo(events, codex, sub)[i], events[i + 1])
                ELSE CountedTo(events, codex, sub)[i]
      BY <1>0, CountedStep
    <3> QED BY <3>1 DEF codex
  <2>5. e.output \in Nat \cup {None} /\ Amount(e.output) \in Nat
    BY <2>2 DEF EventOK, Amount
  <2>6. UseEffect(was, e, is) /\ e.kind = "request" /\ was.armed
            => e.output \in Nat /\ (Counts(events, i + 1, TRUE, sub) \/ Beside(events, i + 1, sub))
    <3>1. UseEffect(was, e, is) => e.output \in Nat /\ e.raw # was.last
      BY DEF UseEffect
    <3>2. e.output \in Nat => e.output # None
      BY SourcesAssumption
    <3> QED BY <3>1, <3>2, UseCounts
  <2>7. beside \in Nat /\ counted \in Nat
    BY <2>5 DEF Beside
  <2> HIDE DEF C, T
  <2>8. Total(C[i + 1]) = ledger + counted
    <3> DEFINE c == C[i]
               next == C[i + 1]
    <3>1. CostsOK(c) /\ Total(c) \in Nat /\ ledger = Total(c)
      BY <2>3
    <3>2. CASE Counts(events, i + 1, TRUE, sub)
      <4>1. next = Append(c, e) /\ counted = Amount(e.output)
        BY <2>4, <3>2
      <4> HIDE DEF c, next, e, counted, ledger
      <4>2. Total(Append(c, e)) = Total(c) + Amount(e.output)
        BY <2>5, <3>1, TotalAppend
      <4> QED BY <3>1, <4>1, <4>2 DEF next
    <3>3. CASE ~Counts(events, i + 1, TRUE, sub)
      <4>1. next = c /\ counted = 0
        BY <2>4, <3>3
      <4> HIDE DEF c, next, e, counted, ledger
      <4> QED BY <3>1, <4>1 DEF next
    <3> QED BY <3>2, <3>3
  <2> DEFINE more == counted + beside
  <2>9. more \in Nat /\ total \in Nat /\ Total(C[i + 1]) + B(i + 1) = total + more
    <3> HIDE DEF ledger, counted, beside
    <3> QED BY <2>3, <2>7, <2>8
  <2>10. WithinLedger(was, i, total) /\ CostsOK(was.done) /\ CostsOK(is.done)
    BY <2>2 DEF TasksOK
  <2>11. UseEffect(was, e, is) /\ e.kind = "request" /\ was.armed
            => e.output \in Nat /\ more - e.output \in Nat
    <3>1. e.output \in Nat => Amount(e.output) = e.output
      BY SourcesAssumption DEF Amount
    <3> HIDE DEF was, is, e
    <3>2. e.output \in Nat /\ (counted = e.output \/ beside = e.output) => more - e.output \in Nat
      <4> HIDE DEF counted, beside
      <4> QED BY <2>7
    <3> QED BY <2>6, <3>1, <3>2
  <2> HIDE DEF e, was, is, total, more, B
  <2> DEFINE new == Total(C[i + 1]) + B(i + 1)
  <2>12. new = total + more
    BY <2>9
  <2> HIDE DEF new
  <2>13. WithinLedger(is, i + 1, new)
    <3>1. CASE is = was
      BY <2>1, <2>9, <2>10, <2>12, <3>1, WithinSame
    <3>2. CASE StartEffect(was, is)
      <4>1. WithinLedger(is, i + 1, total)
        BY <2>1, <2>9, <2>10, <3>2, WithinStart
      <4> QED BY <2>1, <2>9, <2>10, <2>12, <4>1, WithinMore
    <3>3. CASE DoneEffect(was, is)
      <4>1. WithinLedger(is, i + 1, total)
        BY <2>1, <2>2, <2>9, <2>10, <3>3, WithinDone
      <4> QED BY <2>1, <2>9, <2>10, <2>12, <4>1, WithinMore
    <3>4. CASE e.kind = "request" /\ was.armed /\ UseEffect(was, e, is)
      <4>1. WithinLedger(is, i + 1, total + e.output)
        BY <2>1, <2>2, <2>9, <2>10, <3>4, WithinUse
      <4> DEFINE rest == more - e.output
                 sum == total + e.output
      <4>2. rest \in Nat /\ sum \in Nat /\ new = sum + rest
        BY <2>9, <2>11, <2>12, <3>4
      <4> HIDE DEF rest, sum
      <4>3. WithinLedger(is, i + 1, sum)
        BY <4>1 DEF sum
      <4> QED BY <2>1, <2>10, <4>2, <4>3, WithinMore
    <3> QED BY <2>2, <3>1, <3>2, <3>3, <3>4
  <2> QED BY <2>13 DEF is, new
<1>3. 0..n \subseteq S
  <2> HIDE DEF S
  <2> QED BY <1>0, <1>1, <1>2, ReachesAll
<1> QED BY <1>3 DEF T, C, B

\* The turns of a log have the outputs of its requests that count.
LEMMA TurnsCost ==
    ASSUME NEW s, NEW codex, NEW events, EventsOK(events), NEW sub, NEW compacts
    PROVE  LET turns == Detected(Classified(TurnsOf(s, codex, events, sub)), compacts)
           IN  /\ Outputs(turns) \in Seq(Nat)
               /\ codex => Outputs(turns) = Outputs(Counted(events, codex, sub))
<1> DEFINE base == TurnsOf(s, codex, events, sub)
           turns == Detected(Classified(base), compacts)
           requests == Counted(events, codex, sub)
           R == Requests(events, codex)
<1>1. TurnsOK(base) /\ DOMAIN base = DOMAIN requests /\ requests \in Seq(R)
  BY TurnsOfLog, CountedOK
<1>2. \A i \in DOMAIN requests : base[i] = TurnOf(s, codex, requests[i])
  BY DEF TurnsOf
<1>3. /\ \A e \in R : e.usage # None => e.usage.output \in Nat /\ e.output = e.usage.output
      /\ codex => \A e \in R : e.usage # None
  BY DEF Requests, Range, EventsOK, EventOK
<1>4. \A i \in DOMAIN requests : TurnOf(s, codex, requests[i]).output
                                    = IF requests[i].usage = None THEN None ELSE requests[i].usage.output
  BY DEF TurnOf
<1> HIDE DEF base
<1>5. DOMAIN turns = DOMAIN base /\ \A i \in DOMAIN base : turns[i].output = base[i].output
  BY <1>1, AnalysedTurns
<1>6. /\ \A i \in DOMAIN requests : requests[i] \in R
      /\ Len(requests) \in Nat /\ DOMAIN requests = 1..Len(requests)
  <2> HIDE DEF requests, R
  <2> QED BY <1>1
<1> HIDE DEF turns, requests, R
<1>7. \A i \in DOMAIN requests : turns[i].output = IF requests[i].usage = None THEN None ELSE requests[i].usage.output
  BY <1>1, <1>2, <1>4, <1>5
<1>8. Outputs(turns) \in Seq(Nat)
  <2>1. DOMAIN turns = 1..Len(requests) /\ Len(requests) \in Nat
    BY <1>1, <1>5, <1>6
  <2>2. \A i \in 1..Len(requests) : Amount(turns[i].output) \in Nat
    BY <1>3, <1>6, <1>7 DEF Amount
  <2>3. Outputs(turns) = [i \in 1..Len(requests) |-> Amount(turns[i].output)]
    BY <2>1 DEF Outputs
  <2> QED BY <2>1, <2>2, <2>3
<1>9. codex => Outputs(turns) = Outputs(requests)
  <2>1. codex => \A i \in DOMAIN requests : turns[i].output = requests[i].output
    BY <1>3, <1>6, <1>7
  <2> QED BY <1>1, <1>5, <2>1 DEF Outputs
<1> QED BY <1>8, <1>9 DEF turns, requests, base

\* The tasks of an agent's log are within the requests that count and what is beside them.
LEMMA TimingsWithin ==
    ASSUME NEW events, EventsOK(events), NoReports(events), NEW sub \in BOOLEAN
    PROVE  Total(TaskTimings(events, sub)) <= Total(Counted(events, TRUE, sub)) + SumOf(BesideOutputs(events, sub))
<1> DEFINE n == Len(events)
           tasks == TasksAfter(events, sub)[n]
           total == Total(CountedTo(events, TRUE, sub)[n]) + SumOf(BesideTo(events, sub, n))
<1>1. n \in 0..n
  BY DEF EventsOK
<1>2. WithinLedger(tasks, n, total) /\ TasksOK(tasks)
  BY <1>1, TasksWithin, TasksTyped
<1>3. total \in Nat
  <2>1. Total(CountedTo(events, TRUE, sub)[n]) \in Nat
    BY <1>1, CountedCosts, TotalNat
  <2>2. BesideTo(events, sub, n) \in Seq(Nat)
    BY <1>1, BesideSteps
  <2>3. SumOf(BesideTo(events, sub, n)) \in Nat
    BY <2>2, SumNat
  <2>4. \A a, b \in Nat : a + b \in Nat
    OBVIOUS
  <2> QED BY <2>1, <2>3, <2>4
<1>4. /\ TaskTimings(events, sub) = tasks.done
      /\ Total(Counted(events, TRUE, sub)) + SumOf(BesideOutputs(events, sub)) = total
  BY BesideSteps DEF TaskTimings, Counted
<1> HIDE DEF tasks, total
<1>5. PICK h, at : Holds(tasks, n, h, at) /\ Total(tasks.done) + SumOf(h) <= total
  BY <1>2 DEF WithinLedger
<1>6. SumOf(h) \in Nat /\ Total(tasks.done) \in Nat
  BY <1>2, <1>5, SumNat, TotalNat DEF Holds, TasksOK
<1>7. Total(tasks.done) <= total
  BY <1>3, <1>5, <1>6
<1> QED BY <1>4, <1>7

\* The tokens of an agent's tasks are tokens of its turns, whatever its log and however
\* often it repeats a count, but for those of the counts that the extraction of the
\* tasks takes and the ledger does not, by what the two compare: a count the ledger
\* refuses, or one with its last numbers in other words (extractTaskTimings, buildLedger).
THEOREM TasksWithinLedgerAlways == Spec => []TasksWithinLedger
<1>1. SourcesInv => TasksWithinLedger
  <2> SUFFICES ASSUME SourcesInv, NEW s \in DOMAIN sources,
                      ~\E e \in Range(EventsOf(fingerprints[s])) : e.kind = "usage"
               PROVE  Total(sources[s].tasks)
                        <= Total(sources[s].turns) + SumOf(BesideOutputs(EventsOf(fingerprints[s]), parent[s] # None))
    BY DEF TasksWithinLedger, Total, Outputs
  <2> DEFINE events == EventsOf(fingerprints[s])
             codex == SourceOf[s] = "codex"
             sub == parent[s] # None
             beside == SumOf(BesideOutputs(events, sub))
  <2>1. FromFile(s)
    BY DEF SourcesInv
  <2>2. EventsOK(events)
    BY <2>1, EventsOfFile DEF FromFile
  <2>3. NoReports(events)
    BY DEF NoReports, Range
  <2> HIDE DEF events
  <2>4. PICK live \in BOOLEAN : sources[s] = AnalyseSession(s, SourceOf[s], parent[s], events, live)
    BY <2>1 DEF FromFile, events
  <2>5. PICK compacts : sources[s].turns = Detected(Classified(TurnsOf(s, codex, events, sub)), compacts)
    BY <2>4, HeldTurns
  <2>6. /\ Outputs(sources[s].turns) \in Seq(Nat)
        /\ codex => Total(sources[s].turns) = Total(Counted(events, codex, sub))
    <3> HIDE DEF codex, sub
    <3> DEFINE turns == Detected(Classified(TurnsOf(s, codex, events, sub)), compacts)
    <3>1. /\ Outputs(turns) \in Seq(Nat)
          /\ codex => Outputs(turns) = Outputs(Counted(events, codex, sub))
      BY <2>2, TurnsCost
    <3>2. sources[s].turns = turns
      BY <2>5
    <3> HIDE DEF turns
    <3> QED BY <3>1, <3>2 DEF Total
  <2>7. sources[s].tasks = IF codex THEN TaskTimings(events, sub) ELSE <<>>
    BY <2>4 DEF AnalyseSession
  <2>8. CASE codex
    <3>1. codex = TRUE /\ sub \in BOOLEAN
      BY <2>8
    <3> HIDE DEF codex, sub
    <3>2. Total(TaskTimings(events, sub)) <= Total(Counted(events, TRUE, sub)) + beside
      BY <2>2, <2>3, <3>1, TimingsWithin
    <3> HIDE DEF beside
    <3> QED BY <2>6, <2>7, <3>1, <3>2 DEF beside, sub, events
  <2>9. CASE ~codex
    <3>1. CostsOK(<<>>) /\ Total(<<>>) = 0
      <4>1. <<>> \in Seq({}) /\ Len(<<>>) = 0
        BY EmptySeq
      <4>2. CostsOK(<<>>)
        BY <4>1 DEF CostsOK, IsList
      <4> QED BY <4>1, <4>2, OutputsOK, EmptySum DEF Total
    <3>2. Total(sources[s].turns) \in Nat
      BY <2>6, SumNat DEF Total
    <3>3. beside \in Nat
      <4>1. Len(events) \in 0..Len(events)
        BY <2>2 DEF EventsOK
      <4> QED BY <2>2, <4>1, BesideSteps, SumNat
    <3> HIDE DEF codex, beside
    <3>4. Total(sources[s].tasks) <= Total(sources[s].turns) + beside
      BY <2>7, <2>9, <3>1, <3>2, <3>3
    <3> QED BY <3>4 DEF beside, sub, events
  <2> QED BY <2>8, <2>9
<1> QED BY <1>1, SourcesInvAlways, PTL

====
