---- MODULE PiLog_proofs ----
(***************************************************************************)
(* Proofs about pi's logs and the engine's reading of them: an entry has the  *)
(* same content in every file it was copied to, a call is in the file it was  *)
(* made in and comes to the others from the file they were forked from, and a *)
(* measurement that can be joined to a message is that message's own, since   *)
(* what the extension holds is at every step of a turn about that turn.        *)
(***************************************************************************)
EXTENDS PiLog, SequenceTheorems, WellFoundedInduction, TLAPS

---------------------------------------------------------------------------
\* The states.

Bodies ==
    [kind : {"user"}]
    \cup [kind : {"compaction"}, made : Nat]
    \cup [kind : {"assistant"}, response : Names, own : Times, made : Nat, wait : Times, span : Times]
    \cup Timings

LogEntries == [id : Nat, parent : Names, body : Bodies]

\* What the variables are: those of the files, and those of the turn and the extension.
Files ==
    /\ next \in Nat \ {0} /\ leaf \in Names
    /\ logs \in Seq(Seq(LogEntries))
    /\ forkedFrom \in [DOMAIN logs -> Names]
    /\ present \subseteq DOMAIN logs /\ file \in present

Requests ==
    /\ now \in Nat
    /\ phase \in {"idle", "turn", "waiting", "streaming", "ended"}
    /\ began \in Names /\ sent \in Names /\ first \in Names
    /\ phase \in {"waiting", "streaming"} => began # Null /\ sent # Null
    /\ message \in {Null} \cup Messages
    /\ phase = "ended" => message # Null
    /\ enabled \in BOOLEAN /\ on \in BOOLEAN
    /\ pending \in {Null} \cup Pendings
    /\ ready \in {Null} \cup Readies
    /\ timed \subseteq Nat

World == Files /\ Requests

---------------------------------------------------------------------------
\* The logs.

All == UNION {Entries(logs[f]) : f \in DOMAIN logs}

\* Ids grow along a log, all are below the next one, and what has the same id is
\* the same entry.
IdsGrow ==
    /\ \A e \in All : e.id < next
    /\ \A f \in DOMAIN logs : \A i, j \in DOMAIN logs[f] : i < j => logs[f][i].id < logs[f][j].id
    /\ \A e, d \in All : e.id = d.id => e = d

\* A fork comes after the file it was forked from; a call is in the file it was
\* made in, and comes to another from the file that was forked from.
CallsAreCopied ==
    /\ \A f \in DOMAIN logs : forkedFrom[f] # Null => forkedFrom[f] \in 1..(f - 1)
    /\ \A f \in DOMAIN logs : \A e \in Entries(logs[f]) : IsCall(e) =>
         /\ e.body.made \in DOMAIN logs /\ e \in Entries(logs[e.body.made])
         /\ e.body.made # f => forkedFrom[f] # Null /\ e \in Entries(logs[forkedFrom[f]])
         /\ e.body.made = f => forkedFrom[f] = Null \/ e.id \notin Ids(logs[forkedFrom[f]])

\* The entry that the next one goes on from is in the file in use, and the parent
\* of an entry before it.
ParentsAreBefore ==
    /\ leaf # Null => leaf \in Ids(logs[file])
    /\ \A f \in DOMAIN logs : \A i \in DOMAIN logs[f] :
         logs[f][i].parent # Null => \E j \in DOMAIN logs[f] : j < i /\ logs[f][j].id = logs[f][i].parent

---------------------------------------------------------------------------
\* The measurements.

IsMessage(e) == e.body.kind = "assistant"
Joins(t, e) == NamesEntry(t, e) \/ NamesResponse(t, e)

\* What a measurement says of a message, and what is held ready to be written.
Agrees(t, a) == t.ttft = a.wait /\ t.own = a.own /\ t.span = a.span
Reads(r, a) == r.first = a.wait /\ r.own = a.own /\ r.ended - r.t0 = a.span

Earlier(x) == x # Null => x \in Nat /\ x < next

\* A measurement in any file agrees with every message it can be joined to.
MeasurementsAgree ==
    /\ \A e \in All : IsMessage(e) => e.body.response \in {Null, e.id}
    /\ \A t \in All : Measures(t) => Earlier(t.body.message) /\ Earlier(t.body.response)
    /\ \A t, e \in All : IsMessage(e) /\ Joins(t, e) => Agrees(t.body, e.body)

\* A message that must have one has it in the file it was made in.
TimedAreMeasured ==
    /\ \A id \in timed : id < next
    /\ \A e \in All : IsMessage(e) /\ e.id \in timed => \E t \in Entries(logs[e.body.made]) : Joins(t, e)

\* During a request nothing is ready, and what is pending is the last attempt.
PendingIsOwn ==
    /\ phase \in {"turn", "waiting", "streaming"} => ready = Null
    /\ phase \in {"waiting", "streaming"} =>
         /\ pending # Null => /\ pending.t0 = sent
                              /\ pending.first = IF first = Null THEN Null ELSE first - sent
         /\ on => pending # Null

\* What is ready is of the message with its response, after which it is of the
\* message the turn made; a message that is to be measured was, or will be when
\* the turn ends.
ReadyIsOwn ==
    /\ ready # Null =>
         /\ Earlier(ready.response)
         /\ \A e \in All : IsMessage(e) /\ ready.response # Null /\ e.body.response = ready.response =>
              Reads(ready, e.body)
    /\ phase = "ended" =>
         /\ message.id < next
         /\ \A e \in All : e.id = message.id =>
              /\ IsMessage(e) /\ e.body.made = file /\ e.body.response = message.response
              /\ ready # Null => Reads(ready, e.body)
         /\ ready # Null => ready.response = message.response
         /\ on /\ ready = Null =>
              /\ message.response # Null
              /\ \E t \in Entries(logs[file]) :
                    Measures(t) /\ t.body.message = Null /\ t.body.response = message.response

LogInv == World /\ IdsGrow /\ CallsAreCopied /\ ParentsAreBefore
TimingInv == LogInv /\ MeasurementsAgree /\ TimedAreMeasured /\ PendingIsOwn /\ ReadyIsOwn

---------------------------------------------------------------------------
\* What appending to the file in use does.

News(bodies) == {Placed(i, bodies[i]) : i \in 1..Len(bodies)}

Grown(bodies) ==
    /\ logs' \in Seq(Seq(LogEntries)) /\ DOMAIN logs' = DOMAIN logs
    /\ next' = next + Len(bodies) /\ leaf' \in Names
    /\ leaf' = IF bodies = <<>> THEN leaf ELSE next + Len(bodies) - 1
    /\ \A f \in DOMAIN logs : f # file => logs'[f] = logs[f]
    /\ DOMAIN logs'[file] = 1..(Len(logs[file]) + Len(bodies))
    /\ \A i \in DOMAIN logs[file] : logs'[file][i] = logs[file][i]
    /\ \A i \in 1..Len(bodies) : logs'[file][Len(logs[file]) + i] = Placed(i, bodies[i])

\* The entries that are appended are entries.
LEMMA PlacedIsEntry ==
    ASSUME World, NEW body \in Bodies, NEW i \in Nat \ {0}
    PROVE  Placed(i, body) \in LogEntries
<1>1. next + i - 1 \in Nat /\ next + i - 2 \in Int /\ (i # 1 => next + i - 2 \in Nat)
  BY DEF World, Files, Requests
<1> QED BY <1>1 DEF World, Files, Requests, Placed, LogEntries, Names

\* Two sequences, one after the other.
LEMMA Joined ==
    ASSUME NEW S, NEW s \in Seq(S), NEW t \in Seq(S)
    PROVE  /\ s \o t \in Seq(S) /\ Len(s \o t) = Len(s) + Len(t)
           /\ \A i \in 1..Len(s) : (s \o t)[i] = s[i]
           /\ \A i \in 1..Len(t) : (s \o t)[Len(s) + i] = t[i]
<1>1. Len(s) \in Nat /\ Len(t) \in Nat
  OBVIOUS
<1>2. s \o t \in Seq(S) /\ Len(s \o t) = Len(s) + Len(t)
      /\ \A i \in 1..Len(s) + Len(t) : (s \o t)[i] = IF i <= Len(s) THEN s[i] ELSE t[i - Len(s)]
  BY ConcatProperties
<1>3. \A i \in 1..Len(s) : i \in 1..Len(s) + Len(t) /\ i <= Len(s)
  BY <1>1
<1>4. \A i \in 1..Len(t) : Len(s) + i \in 1..Len(s) + Len(t) /\ ~(Len(s) + i <= Len(s)) /\ (Len(s) + i) - Len(s) = i
  BY <1>1
<1> QED BY <1>2, <1>3, <1>4

\* Appending changes the file in use at its end only.
LEMMA LoggedGrows ==
    ASSUME World, NEW bodies \in Seq(Bodies), Logged(bodies)
    PROVE  Grown(bodies)
<1> DEFINE old == logs[file]
           more == [i \in 1..Len(bodies) |-> Placed(i, bodies[i])]
<1>1. file \in DOMAIN logs /\ old \in Seq(LogEntries) /\ logs \in Seq(Seq(LogEntries))
  BY DEF World, Files, Requests
<1>2. more \in Seq(LogEntries) /\ Len(more) = Len(bodies)
  <2>1. \A i \in 1..Len(bodies) : bodies[i] \in Bodies /\ i \in Nat \ {0}
    OBVIOUS
  <2>2. \A i \in 1..Len(bodies) : Placed(i, bodies[i]) \in LogEntries
    BY <2>1, PlacedIsEntry
  <2> QED BY <2>2
<1>3. logs' = [logs EXCEPT ![file] = old \o more]
  BY DEF Logged
<1>4. /\ old \o more \in Seq(LogEntries)
      /\ DOMAIN (old \o more) = 1..(Len(old) + Len(bodies))
      /\ \A i \in DOMAIN old : (old \o more)[i] = old[i]
      /\ \A i \in 1..Len(bodies) : (old \o more)[Len(old) + i] = Placed(i, bodies[i])
  <2>1. /\ old \o more \in Seq(LogEntries) /\ Len(old \o more) = Len(old) + Len(more)
        /\ \A i \in 1..Len(old) : (old \o more)[i] = old[i]
        /\ \A i \in 1..Len(more) : (old \o more)[Len(old) + i] = more[i]
    <3>1. old \in Seq(LogEntries) /\ more \in Seq(LogEntries)
      BY <1>1, <1>2
    <3> HIDE DEF old, more
    <3> QED BY ONLY <3>1, Joined
  <2>2. \A i \in 1..Len(bodies) : i \in 1..Len(more) /\ more[i] = Placed(i, bodies[i])
    BY <1>2
  <2> QED BY <2>1, <2>2, <1>1, <1>2
<1>5. logs'[file] = old \o more /\ DOMAIN logs' = DOMAIN logs
      /\ \A f \in DOMAIN logs : f # file => logs'[f] = logs[f]
  BY <1>1, <1>3
<1>6. logs' \in Seq(Seq(LogEntries))
  <2> HIDE DEF old, more
  <2> QED BY <1>1, <1>3, <1>4
<1>7. next' = next + Len(bodies) /\ leaf' \in Names
  <2>1. Len(bodies) \in Nat /\ (bodies # <<>> => Len(bodies) # 0)
    OBVIOUS
  <2>2. bodies # <<>> => next + Len(bodies) - 1 \in Nat
    BY <2>1 DEF World, Files, Requests
  <2> QED BY <2>2 DEF Logged, World, Files, Requests, Names
<1> QED BY <1>4, <1>5, <1>6, <1>7 DEF Grown, Logged

\* The next id goes on by what is appended.
LEMMA GrownNext ==
    ASSUME World, NEW bodies \in Seq(Bodies), Grown(bodies)
    PROVE  Len(bodies) \in Nat /\ next \in Nat /\ next' = next + Len(bodies)
<1>1. next' = next + Len(bodies)
  BY DEF Grown
<1>2. next \in Nat
  BY DEF World, Files
<1> QED BY <1>1, <1>2

\* The entries there are after it.
LEMMA GrownEntries ==
    ASSUME World, NEW bodies \in Seq(Bodies), Grown(bodies)
    PROVE  /\ Entries(logs'[file]) = Entries(logs[file]) \cup News(bodies)
           /\ \A f \in DOMAIN logs : f # file => Entries(logs'[f]) = Entries(logs[f])
           /\ All' = All \cup News(bodies)
<1>1. file \in DOMAIN logs /\ DOMAIN logs[file] = 1..Len(logs[file]) /\ Len(logs[file]) \in Nat /\ Len(bodies) \in Nat
  BY DEF World, Files, Requests
<1>2. Entries(logs'[file]) = Entries(logs[file]) \cup News(bodies)
  <2>1. ASSUME NEW e \in Entries(logs'[file]) PROVE e \in Entries(logs[file]) \cup News(bodies)
    <3>1. PICK k \in 1..(Len(logs[file]) + Len(bodies)) : e = logs'[file][k]
      BY <2>1 DEF Entries, Grown
    <3>2. CASE k \in DOMAIN logs[file]
      BY <3>1, <3>2 DEF Entries, Grown
    <3>3. CASE k \notin DOMAIN logs[file]
      <4>1. k - Len(logs[file]) \in 1..Len(bodies) /\ Len(logs[file]) + (k - Len(logs[file])) = k
        BY <1>1, <3>1, <3>3
      <4> QED BY <3>1, <4>1 DEF Grown, News
    <3> QED BY <3>2, <3>3
  <2>2. ASSUME NEW e \in Entries(logs[file]) PROVE e \in Entries(logs'[file])
    <3>1. PICK k \in DOMAIN logs[file] : e = logs[file][k]
      BY <2>2 DEF Entries
    <3>2. k \in DOMAIN logs'[file] /\ logs'[file][k] = e
      BY <1>1, <3>1 DEF Grown
    <3> QED BY <3>2 DEF Entries
  <2>3. ASSUME NEW e \in News(bodies) PROVE e \in Entries(logs'[file])
    <3>1. PICK i \in 1..Len(bodies) : e = Placed(i, bodies[i])
      BY <2>3 DEF News
    <3>2. Len(logs[file]) + i \in DOMAIN logs'[file] /\ logs'[file][Len(logs[file]) + i] = e
      BY <1>1, <3>1 DEF Grown
    <3> QED BY <3>2 DEF Entries
  <2> QED BY <2>1, <2>2, <2>3
<1>3. \A f \in DOMAIN logs : f # file => Entries(logs'[f]) = Entries(logs[f])
  BY DEF Grown, Entries
<1>4. All' = All \cup News(bodies)
  <2>1. DOMAIN logs' = DOMAIN logs
    BY DEF Grown
  <2>2. All' = UNION {Entries(logs'[f]) : f \in DOMAIN logs}
    BY <2>1 DEF All, Entries
  <2> DEFINE After(f) == Entries(logs'[f])
             Before(f) == Entries(logs[f])
  <2>3. \A f \in DOMAIN logs : After(f) = IF f = file THEN Before(f) \cup News(bodies) ELSE Before(f)
    BY <1>2, <1>3
  <2>4. All' = UNION {After(f) : f \in DOMAIN logs} /\ All = UNION {Before(f) : f \in DOMAIN logs}
    BY <2>2 DEF All
  <2> HIDE DEF After, Before
  <2> QED BY <1>1, <2>3, <2>4
<1> QED BY <1>2, <1>3, <1>4

\* What is known of an entry that is appended.
LEMMA NewEntry ==
    ASSUME World, NEW bodies \in Seq(Bodies), NEW e \in News(bodies)
    PROVE  \E i \in 1..Len(bodies) : e = Placed(i, bodies[i]) /\ e.body = bodies[i] /\ e.id = next + i - 1 /\ e.id \in Nat
                                     /\ bodies[i] \in Bodies
<1>1. PICK i \in 1..Len(bodies) : e = Placed(i, bodies[i])
  BY DEF News
<1>2. e.body = bodies[i] /\ e.id = next + i - 1 /\ next + i - 1 \in Nat
  BY <1>1 DEF Placed, World, Files, Requests
<1> QED BY <1>1, <1>2

\* Every entry of every log is one.
LEMMA EntriesAreEntries ==
    ASSUME World
    PROVE  /\ \A f \in DOMAIN logs : logs[f] \in Seq(LogEntries) /\ Entries(logs[f]) \subseteq All
           /\ \A e \in All : e \in LogEntries /\ e.id \in Nat /\ e.parent \in Names /\ e.body \in Bodies
<1>1. \A f \in DOMAIN logs : logs[f] \in Seq(LogEntries)
  BY DEF World, Files, Requests
<1>2. \A f \in DOMAIN logs : \A i \in DOMAIN logs[f] : logs[f][i] \in LogEntries
  BY <1>1
<1>3. \A f \in DOMAIN logs : Entries(logs[f]) \subseteq All
  BY DEF All
<1>4. \A e \in All : e \in LogEntries
  BY <1>2 DEF All, Entries
<1>5. \A e \in LogEntries : e.id \in Nat /\ e.parent \in Names /\ e.body \in Bodies
  BY DEF LogEntries
<1> QED BY <1>1, <1>3, <1>4, <1>5

\* New ids are above all others and grow.
LEMMA GrownIds ==
    ASSUME World, IdsGrow, NEW bodies \in Seq(Bodies), Grown(bodies)
    PROVE  IdsGrow'
<1>1. Len(bodies) \in Nat /\ next \in Nat /\ next' = next + Len(bodies)
  BY DEF World, Files, Requests, Grown
<1>2. \A e \in News(bodies) : e.id \in Nat /\ next <= e.id /\ e.id < next'
  BY <1>1, NewEntry
<1>3. \A e \in All : e.id \in Nat /\ e.id < next
  BY EntriesAreEntries DEF IdsGrow
<1>4. All' = All \cup News(bodies)
  BY GrownEntries
<1>5. \A e \in All' : e.id < next'
  <2>1. ASSUME NEW e \in All PROVE e.id < next'
    BY <1>1, <1>3
  <2> QED BY <2>1, <1>2, <1>4
<1>6. \A e, d \in All' : e.id = d.id => e = d
  <2>1. ASSUME NEW e \in News(bodies), NEW d \in News(bodies), e.id = d.id PROVE e = d
    <3>1. PICK i \in 1..Len(bodies) : e = Placed(i, bodies[i]) /\ e.id = next + i - 1
      BY NewEntry
    <3>2. PICK j \in 1..Len(bodies) : d = Placed(j, bodies[j]) /\ d.id = next + j - 1
      BY NewEntry
    <3>3. i = j
      BY <1>1, <2>1, <3>1, <3>2
    <3> QED BY <3>1, <3>2, <3>3
  <2>2. ASSUME NEW e \in News(bodies), NEW d \in All PROVE e.id # d.id
    BY <1>1, <1>2, <1>3
  <2>3. \A e, d \in All : e.id = d.id => e = d
    BY DEF IdsGrow
  <2> QED BY <1>4, <2>1, <2>2, <2>3
<1>7. ASSUME NEW f \in DOMAIN logs, NEW i \in DOMAIN logs'[f], NEW j \in DOMAIN logs'[f], i < j
      PROVE  logs'[f][i].id < logs'[f][j].id
  <2>1. CASE f # file
    BY <1>7, <2>1 DEF Grown, IdsGrow
  <2>2. CASE f = file
    <3>1. DOMAIN logs[file] = 1..Len(logs[file]) /\ Len(logs[file]) \in Nat /\ file \in DOMAIN logs
      <4>1. file \in DOMAIN logs /\ logs \in Seq(Seq(LogEntries))
        BY DEF World, Files
      <4>2. \A seqs \in Seq(Seq(LogEntries)) : \A g \in DOMAIN seqs : seqs[g] \in Seq(LogEntries)
        OBVIOUS
      <4> HIDE DEF LogEntries
      <4>3. logs[file] \in Seq(LogEntries)
        BY <4>1, <4>2
      <4> QED BY <4>1, <4>3
    <3>2. \A k \in DOMAIN logs[file] : logs'[file][k].id = logs[file][k].id /\ logs[file][k].id \in Nat
                                       /\ logs[file][k].id < next
      <4>1. \A k \in DOMAIN logs[file] : logs[file][k] \in All
        BY <3>1 DEF All, Entries
      <4>2. \A k \in DOMAIN logs[file] : logs[file][k].id \in Nat /\ logs[file][k].id < next
        BY <1>3, <4>1
      <4>3. \A k \in DOMAIN logs[file] : logs'[file][k] = logs[file][k]
        BY DEF Grown
      <4> QED BY <4>2, <4>3
    <3>3. \A k \in 1..Len(bodies) : logs'[file][Len(logs[file]) + k].id = next + k - 1
      <4>1. \A k \in 1..Len(bodies) : Placed(k, bodies[k]).id = next + k - 1
        BY DEF Placed
      <4> QED BY <4>1 DEF Grown
    <3>4. i \in 1..(Len(logs[file]) + Len(bodies)) /\ j \in 1..(Len(logs[file]) + Len(bodies))
      BY <2>2 DEF Grown
    <3>5. CASE j \in DOMAIN logs[file]
      <4>1. i \in DOMAIN logs[file]
        BY <1>7, <3>1, <3>4, <3>5
      <4> QED BY <1>7, <2>2, <3>1, <3>2, <3>5, <4>1 DEF IdsGrow
    <3>6. CASE j \notin DOMAIN logs[file]
      <4> DEFINE m == j - Len(logs[file])
      <4>1. m \in 1..Len(bodies) /\ Len(logs[file]) + m = j
        BY <3>1, <3>4, <3>6
      <4>2. logs'[file][j].id = next + m - 1
        BY <3>3, <4>1
      <4>3. CASE i \in DOMAIN logs[file]
        <5>1. logs'[file][i].id \in Nat /\ logs'[file][i].id < next
          BY <3>2, <4>3
        <5>2. m \in Nat /\ m >= 1 /\ next <= next + m - 1
          BY <1>1, <4>1
        <5> HIDE DEF m
        <5> QED BY <1>1, <2>2, <4>2, <5>1, <5>2
      <4>4. CASE i \notin DOMAIN logs[file]
        <5> DEFINE k == i - Len(logs[file])
        <5>1. k \in 1..Len(bodies) /\ Len(logs[file]) + k = i
          BY <3>1, <3>4, <4>4
        <5>2. logs'[file][i].id = next + k - 1
          BY <3>3, <5>1
        <5>3. k < m
          BY <1>7, <3>1, <3>4
        <5> QED BY <1>1, <2>2, <4>1, <4>2, <5>1, <5>2, <5>3
      <4> QED BY <4>3, <4>4
    <3> QED BY <3>5, <3>6
  <2> QED BY <2>1, <2>2
<1> QED BY <1>5, <1>6, <1>7 DEF IdsGrow, Grown

\* What is appended was made in the file in use.
MadeHere(bodies) == \A i \in 1..Len(bodies) : bodies[i].kind \in {"assistant", "compaction"} => bodies[i].made = file

\* A call that is appended is new, so the file was not forked with it.
LEMMA GrownCalls ==
    ASSUME World, IdsGrow, CallsAreCopied, NEW bodies \in Seq(Bodies), Grown(bodies), MadeHere(bodies),
           forkedFrom' = forkedFrom
    PROVE  CallsAreCopied'
<1>1. /\ Entries(logs'[file]) = Entries(logs[file]) \cup News(bodies)
      /\ \A f \in DOMAIN logs : f # file => Entries(logs'[f]) = Entries(logs[f])
      /\ DOMAIN logs' = DOMAIN logs /\ file \in DOMAIN logs
  BY GrownEntries DEF Grown, World, Files, Requests
<1>2. \A f \in DOMAIN logs : \A e \in Entries(logs[f]) : e.id \in Nat /\ e.id < next
  BY EntriesAreEntries DEF IdsGrow
<1>3. \A e \in News(bodies) : e.id \in Nat /\ next <= e.id /\ (IsCall(e) => e.body.made = file)
  <2>1. ASSUME NEW e \in News(bodies) PROVE e.id \in Nat /\ next <= e.id /\ (IsCall(e) => e.body.made = file)
    <3>1. PICK i \in 1..Len(bodies) : e.body = bodies[i] /\ e.id = next + i - 1 /\ e.id \in Nat
      BY NewEntry
    <3> QED BY <3>1 DEF MadeHere, IsCall, World, Files, Requests
  <2> QED BY <2>1
<1>4. next \in Nat
  BY DEF World, Files, Requests
<1>5. \A f \in DOMAIN logs : forkedFrom[f] # Null => forkedFrom[f] \in DOMAIN logs /\ forkedFrom[f] # f
  <2>1. DOMAIN logs = 1..Len(logs) /\ Len(logs) \in Nat
    BY DEF World, Files, Requests
  <2> QED BY <2>1 DEF CallsAreCopied
<1>6. \A f \in DOMAIN logs : Entries(logs[f]) \subseteq Entries(logs'[f])
  BY <1>1
<1>7. ASSUME NEW f \in DOMAIN logs, NEW e \in Entries(logs'[f]), IsCall(e)
      PROVE  /\ e.body.made \in DOMAIN logs /\ e \in Entries(logs'[e.body.made])
             /\ e.body.made # f => forkedFrom[f] # Null /\ e \in Entries(logs'[forkedFrom[f]])
             /\ e.body.made = f => forkedFrom[f] = Null \/ e.id \notin {d.id : d \in Entries(logs'[forkedFrom[f]])}
  <2>1. CASE e \in Entries(logs[f])
    <3>1. /\ e.body.made \in DOMAIN logs /\ e \in Entries(logs[e.body.made])
          /\ e.body.made # f => forkedFrom[f] # Null /\ e \in Entries(logs[forkedFrom[f]])
          /\ e.body.made = f => forkedFrom[f] = Null \/ e.id \notin {d.id : d \in Entries(logs[forkedFrom[f]])}
      BY <1>7, <2>1 DEF CallsAreCopied, Ids
    <3>2. ASSUME forkedFrom[f] # Null, NEW d \in Entries(logs'[forkedFrom[f]]), d.id = e.id
          PROVE  d \in Entries(logs[forkedFrom[f]])
      <4>1. d \in Entries(logs[forkedFrom[f]]) \/ d \in News(bodies)
        BY <1>1, <1>5, <3>2
      <4>2. e.id \in Nat /\ e.id < next
        BY <1>2, <2>1
      <4>3. d \notin News(bodies)
        BY <1>3, <1>4, <3>2, <4>2
      <4> QED BY <4>1, <4>3
    <3>3. e.body.made = f => forkedFrom[f] = Null \/ e.id \notin {d.id : d \in Entries(logs'[forkedFrom[f]])}
      BY <3>1, <3>2
    <3> QED BY <3>1, <3>3, <1>5, <1>6
  <2>2. CASE e \notin Entries(logs[f])
    <3>1. f = file /\ e \in News(bodies) /\ e.body.made = file /\ e.id \in Nat /\ next <= e.id
      BY <1>1, <1>3, <1>7, <2>2
    <3>2. ASSUME forkedFrom[f] # Null, NEW d \in Entries(logs'[forkedFrom[f]]) PROVE d.id # e.id
      <4>1. d \in Entries(logs[forkedFrom[f]]) /\ forkedFrom[f] \in DOMAIN logs
        BY <1>1, <1>5, <3>1, <3>2
      <4>2. d.id \in Nat /\ d.id < next
        BY <1>2, <4>1
      <4> QED BY <1>4, <3>1, <4>2
    <3> QED BY <1>1, <3>1, <3>2
  <2> QED BY <2>1, <2>2
<1>8. \A f \in DOMAIN logs : forkedFrom[f] # Null => forkedFrom[f] \in 1..(f - 1)
  BY DEF CallsAreCopied
<1> QED BY <1>1, <1>7, <1>8 DEF CallsAreCopied, IsCall, Ids

\* Each entry goes on from the one appended before it, the first from the leaf.
LEMMA GrownParents ==
    ASSUME World, ParentsAreBefore, NEW bodies \in Seq(Bodies), Grown(bodies), file' = file
    PROVE  ParentsAreBefore'
<1> DEFINE n == Len(logs[file])
<1>1. /\ Len(bodies) \in Nat /\ next \in Nat /\ n \in Nat /\ DOMAIN logs[file] = 1..n /\ file \in DOMAIN logs
      /\ DOMAIN logs' = DOMAIN logs /\ DOMAIN logs'[file] = 1..(n + Len(bodies))
  <2>1. file \in DOMAIN logs /\ logs[file] \in Seq(LogEntries) /\ n \in Nat /\ DOMAIN logs[file] = 1..n
    BY DEF World, Files
  <2>2. DOMAIN logs' = DOMAIN logs /\ DOMAIN logs'[file] = 1..(n + Len(bodies))
    BY DEF Grown
  <2> QED BY <2>1, <2>2, GrownNext
<1>2. \A k \in 1..Len(bodies) :
        /\ n + k \in DOMAIN logs'[file]
        /\ logs'[file][n + k].id = next + k - 1
        /\ logs'[file][n + k].parent = IF k = 1 THEN leaf ELSE next + k - 2
  <2>1. ASSUME NEW k \in 1..Len(bodies)
        PROVE  /\ n + k \in 1..(n + Len(bodies))
               /\ Placed(k, bodies[k]).id = next + k - 1
               /\ Placed(k, bodies[k]).parent = IF k = 1 THEN leaf ELSE next + k - 2
    BY <1>1, <2>1 DEF Placed
  <2> QED BY <1>1, <2>1 DEF Grown
<1>3. \A i \in 1..n : i \in DOMAIN logs'[file] /\ logs'[file][i] = logs[file][i]
  BY <1>1 DEF Grown
<1>4. ASSUME NEW i \in DOMAIN logs'[file], logs'[file][i].parent # Null
      PROVE  \E j \in DOMAIN logs'[file] : j < i /\ logs'[file][j].id = logs'[file][i].parent
  <2>1. CASE i \in 1..n
    <3>1. PICK j \in 1..n : j < i /\ logs[file][j].id = logs[file][i].parent
      BY <1>1, <1>3, <1>4, <2>1 DEF ParentsAreBefore
    <3> QED BY <1>3, <2>1, <3>1
  <2>2. CASE i \notin 1..n
    <3> DEFINE k == i - n
    <3>1. k \in 1..Len(bodies) /\ i = n + k
      BY <1>1, <2>2
    <3> HIDE DEF k, n
    <3>2. CASE k = 1
      <4>1. leaf # Null /\ logs'[file][i].parent = leaf
        BY <1>2, <1>4, <3>1, <3>2
      <4>2. PICK j \in 1..n : logs[file][j].id = leaf
        BY <1>1, <4>1 DEF ParentsAreBefore, Ids, Entries
      <4>3. j < i
        BY <1>1, <3>1, <3>2
      <4> QED BY <1>3, <4>1, <4>2, <4>3
    <3>3. CASE k # 1
      <4>1. k - 1 \in 1..Len(bodies) /\ n + (k - 1) < i /\ next + (k - 1) - 1 = next + k - 2
        BY <1>1, <3>1, <3>3
      <4> QED BY <1>2, <3>1, <3>3, <4>1
    <3> QED BY <3>2, <3>3
  <2> QED BY <2>1, <2>2
<1>5. ASSUME leaf' # Null PROVE \E j \in DOMAIN logs'[file] : logs'[file][j].id = leaf'
  <2>1. CASE bodies = <<>>
    <3>1. leaf' = leaf
      BY <2>1 DEF Grown
    <3>2. PICK j \in 1..n : logs[file][j].id = leaf
      BY <1>1, <1>5, <3>1 DEF ParentsAreBefore, Ids, Entries
    <3> QED BY <1>3, <3>1, <3>2
  <2>2. CASE bodies # <<>>
    <3>1. Len(bodies) \in 1..Len(bodies) /\ leaf' = next + Len(bodies) - 1
      BY <2>2 DEF Grown
    <3> HIDE DEF n
    <3> QED BY <1>2, <3>1
  <2> QED BY <2>1, <2>2
<1>6. ASSUME NEW f \in DOMAIN logs, f # file, NEW i \in DOMAIN logs'[f], logs'[f][i].parent # Null
      PROVE  \E j \in DOMAIN logs'[f] : j < i /\ logs'[f][j].id = logs'[f][i].parent
  <2>1. logs'[f] = logs[f]
    BY <1>6 DEF Grown
  <2> QED BY <1>6, <2>1 DEF ParentsAreBefore
<1> QED BY <1>1, <1>4, <1>5, <1>6 DEF ParentsAreBefore, Ids, Entries

---------------------------------------------------------------------------
\* What forking does.

\* The file that is made begins as the one in use did, which stays as it is.
Forked(n) ==
    /\ logs' \in Seq(Seq(LogEntries)) /\ DOMAIN logs' = DOMAIN logs \cup {file'}
    /\ file' = Len(logs) + 1 /\ file' \notin DOMAIN logs /\ file' \in Nat
    /\ \A f \in DOMAIN logs : logs'[f] = logs[f] /\ forkedFrom'[f] = forkedFrom[f]
    /\ DOMAIN logs'[file'] = 1..n
    /\ \A i \in 1..n : logs'[file'][i] = logs[file][i] /\ i \in DOMAIN logs[file]
    /\ forkedFrom' \in [DOMAIN logs' -> Names] /\ forkedFrom'[file'] = file
    /\ leaf' \in Nat /\ leaf' = logs[file][n].id

\* A sequence with one more element.
LEMMA Extended ==
    ASSUME NEW S, NEW s \in Seq(S), NEW x \in S
    PROVE  /\ Append(s, x) \in Seq(S) /\ DOMAIN Append(s, x) = DOMAIN s \cup {Len(s) + 1}
           /\ Append(s, x)[Len(s) + 1] = x /\ \A i \in DOMAIN s : Append(s, x)[i] = s[i]
OBVIOUS

\* The first elements of a sequence.
LEMMA Begun ==
    ASSUME NEW S, NEW s \in Seq(S), NEW n \in DOMAIN s
    PROVE  /\ SubSeq(s, 1, n) \in Seq(S) /\ DOMAIN SubSeq(s, 1, n) = 1..n
           /\ \A i \in 1..n : SubSeq(s, 1, n)[i] = s[i] /\ i \in DOMAIN s
<1>1. n \in Nat /\ 1 <= n /\ \A i \in 1..n : i \in DOMAIN s /\ s[i] \in S
  OBVIOUS
<1>2. /\ SubSeq(s, 1, n) \in Seq(S) /\ Len(SubSeq(s, 1, n)) = IF 1 <= n THEN n - 1 + 1 ELSE 0
      /\ \A i \in 1..(n - 1 + 1) : SubSeq(s, 1, n)[i] = s[1 + i - 1]
  BY <1>1, SubSeqProperties
<1>3. n - 1 + 1 = n /\ \A i \in 1..n : 1 + i - 1 = i
  BY <1>1
<1> QED BY <1>1, <1>2, <1>3

LEMMA ForkForks ==
    ASSUME World, NEW n \in DOMAIN logs[file], Fork(n)
    PROVE  Forked(n)
<1>1. logs \in Seq(Seq(LogEntries)) /\ file \in DOMAIN logs /\ logs[file] \in Seq(LogEntries)
      /\ DOMAIN logs = 1..Len(logs) /\ Len(logs) \in Nat /\ file \in Nat
  BY DEF World, Files, Requests
<1> DEFINE copy == SubSeq(logs[file], 1, n)
<1>2. copy \in Seq(LogEntries) /\ DOMAIN copy = 1..n
      /\ \A i \in 1..n : copy[i] = logs[file][i] /\ i \in DOMAIN logs[file]
  BY <1>1, Begun
<1>3. logs' = Append(logs, copy) /\ forkedFrom' = Append(forkedFrom, file) /\ file' = Len(logs) + 1
      /\ leaf' = logs[file][n].id
  BY DEF Fork
<1>4. /\ logs' \in Seq(Seq(LogEntries)) /\ DOMAIN logs' = DOMAIN logs \cup {Len(logs) + 1}
      /\ logs'[Len(logs) + 1] = copy /\ \A f \in DOMAIN logs : logs'[f] = logs[f]
  <2> HIDE DEF copy
  <2> QED BY <1>1, <1>2, <1>3, Extended
<1>5. forkedFrom \in Seq(Names) /\ Len(forkedFrom) = Len(logs) /\ DOMAIN forkedFrom = DOMAIN logs
  <2>1. forkedFrom \in [1..Len(logs) -> Names] /\ DOMAIN forkedFrom = 1..Len(logs)
    BY <1>1 DEF World, Files, Requests
  <2>2. \A k \in Nat : \A S : \A g \in [1..k -> S] : g \in Seq(S) /\ Len(g) = k
    OBVIOUS
  <2> QED BY <1>1, <2>1, <2>2
<1>6. /\ forkedFrom' \in Seq(Names) /\ DOMAIN forkedFrom' = DOMAIN logs \cup {Len(logs) + 1}
      /\ forkedFrom'[Len(logs) + 1] = file /\ \A f \in DOMAIN logs : forkedFrom'[f] = forkedFrom[f]
  <2>1. file \in Names
    BY <1>1 DEF Names
  <2> QED BY <2>1, <1>3, <1>5, Extended
<1>7. forkedFrom' \in [DOMAIN logs' -> Names]
  <2>1. \A S : \A g \in Seq(S) : g \in [DOMAIN g -> S]
    OBVIOUS
  <2> QED BY <1>4, <1>6, <2>1
<1>8. leaf' \in Nat
  <2>1. logs[file][n] \in LogEntries
    BY <1>1
  <2> QED BY <1>3, <2>1 DEF LogEntries
<1>9. Len(logs) + 1 \notin DOMAIN logs /\ Len(logs) + 1 \in Nat
  BY <1>1
<1> QED BY <1>2, <1>3, <1>4, <1>6, <1>7, <1>8, <1>9 DEF Forked

\* No entry is new.
LEMMA ForkedEntries ==
    ASSUME World, NEW n \in DOMAIN logs[file], Forked(n)
    PROVE  /\ \A f \in DOMAIN logs : Entries(logs'[f]) = Entries(logs[f])
           /\ Entries(logs'[file']) \subseteq Entries(logs[file])
           /\ All' = All
<1>1. \A f \in DOMAIN logs : Entries(logs'[f]) = Entries(logs[f])
  BY DEF Forked, Entries
<1>2. Entries(logs'[file']) \subseteq Entries(logs[file])
  <2>1. ASSUME NEW e \in Entries(logs'[file']) PROVE e \in Entries(logs[file])
    <3>1. PICK i \in 1..n : e = logs'[file'][i]
      BY <2>1 DEF Entries, Forked
    <3>2. e = logs[file][i] /\ i \in DOMAIN logs[file]
      BY <3>1 DEF Forked
    <3> QED BY <3>2 DEF Entries
  <2> QED BY <2>1
<1>3. All' = All
  <2> DEFINE After(f) == Entries(logs'[f])
             Before(f) == Entries(logs[f])
  <2>1. All' = UNION {After(f) : f \in DOMAIN logs \cup {file'}} /\ All = UNION {Before(f) : f \in DOMAIN logs}
    BY DEF All, Forked, Entries
  <2>2. (\A f \in DOMAIN logs : After(f) = Before(f)) /\ After(file') \subseteq Before(file) /\ file \in DOMAIN logs
    BY <1>1, <1>2 DEF World, Files, Requests
  <2> HIDE DEF After, Before
  <2> QED BY <2>1, <2>2
<1> QED BY <1>1, <1>2, <1>3

\* What was made in a file and comes to a fork of it comes from that file.
LEMMA ForkKeepsLogs ==
    ASSUME LogInv, NEW n \in DOMAIN logs[file], Forked(n), next' = next
    PROVE  IdsGrow' /\ CallsAreCopied' /\ ParentsAreBefore'
<1> USE DEF LogInv
<1>1. /\ \A f \in DOMAIN logs : Entries(logs'[f]) = Entries(logs[f])
      /\ Entries(logs'[file']) \subseteq Entries(logs[file])
      /\ All' = All
  BY ForkedEntries
<1>2. file \in DOMAIN logs /\ file \in 1..(file' - 1) /\ DOMAIN logs' = DOMAIN logs \cup {file'}
      /\ file' \notin DOMAIN logs
  BY DEF World, Files, Requests, Forked
<1>3. IdsGrow'
  <2>1. ASSUME NEW f \in DOMAIN logs', NEW i \in DOMAIN logs'[f], NEW j \in DOMAIN logs'[f], i < j
        PROVE  logs'[f][i].id < logs'[f][j].id
    <3>1. CASE f \in DOMAIN logs
      BY <2>1, <3>1 DEF IdsGrow, Forked
    <3>2. CASE f = file'
      <4>1. i \in 1..n /\ j \in 1..n
        BY <2>1, <3>2 DEF Forked
      <4>2. logs'[f][i] = logs[file][i] /\ logs'[f][j] = logs[file][j] /\ i \in DOMAIN logs[file] /\ j \in DOMAIN logs[file]
        BY <3>2, <4>1 DEF Forked
      <4> QED BY <1>2, <2>1, <4>2 DEF IdsGrow
    <3> QED BY <1>2, <3>1, <3>2
  <2> QED BY <1>1, <2>1 DEF IdsGrow
<1>4. CallsAreCopied'
  <2>1. ASSUME NEW f \in DOMAIN logs', forkedFrom'[f] # Null PROVE forkedFrom'[f] \in 1..(f - 1)
    <3>1. CASE f \in DOMAIN logs
      BY <2>1, <3>1 DEF Forked, CallsAreCopied
    <3>2. CASE f = file'
      BY <1>2, <3>2 DEF Forked
    <3> QED BY <1>2, <3>1, <3>2
  <2>2. \A f \in DOMAIN logs : forkedFrom[f] # Null => forkedFrom[f] \in DOMAIN logs
    <3>1. DOMAIN logs = 1..Len(logs) /\ Len(logs) \in Nat
      BY DEF World, Files, Requests
    <3> QED BY <3>1 DEF CallsAreCopied
  <2>3. ASSUME NEW f \in DOMAIN logs', NEW e \in Entries(logs'[f]), IsCall(e)
        PROVE  /\ e.body.made \in DOMAIN logs' /\ e \in Entries(logs'[e.body.made])
               /\ e.body.made # f => forkedFrom'[f] # Null /\ e \in Entries(logs'[forkedFrom'[f]])
               /\ e.body.made = f => forkedFrom'[f] = Null \/ e.id \notin {d.id : d \in Entries(logs'[forkedFrom'[f]])}
    <3>1. CASE f \in DOMAIN logs
      <4>1. /\ e.body.made \in DOMAIN logs /\ e \in Entries(logs[e.body.made])
            /\ e.body.made # f => forkedFrom[f] # Null /\ e \in Entries(logs[forkedFrom[f]])
            /\ e.body.made = f => forkedFrom[f] = Null \/ e.id \notin {d.id : d \in Entries(logs[forkedFrom[f]])}
        BY <1>1, <2>3, <3>1 DEF CallsAreCopied, Ids
      <4>2. forkedFrom'[f] = forkedFrom[f]
        BY <3>1 DEF Forked
      <4>3. forkedFrom[f] # Null => Entries(logs'[forkedFrom[f]]) = Entries(logs[forkedFrom[f]])
        BY <1>1, <2>2, <3>1
      <4> QED BY <1>1, <1>2, <4>1, <4>2, <4>3
    <3>2. CASE f = file'
      <4>1. e \in Entries(logs[file])
        BY <1>1, <2>3, <3>2
      <4>2. e.body.made \in DOMAIN logs /\ e \in Entries(logs[e.body.made])
        BY <1>2, <2>3, <4>1 DEF CallsAreCopied
      <4>3. e.body.made # f
        BY <1>2, <3>2, <4>2
      <4>4. forkedFrom'[f] = file /\ file # Null
        <5>1. file \in Int
          BY <1>2
        <5> QED BY <3>2, <5>1, PiTimingAssumption DEF Forked
      <4> QED BY <1>1, <1>2, <4>1, <4>2, <4>3, <4>4
    <3> QED BY <1>2, <3>1, <3>2
  <2> QED BY <2>1, <2>3 DEF CallsAreCopied, IsCall, Ids
<1>5. ParentsAreBefore'
  <2>1. n \in 1..n /\ \A i \in 1..n : i \in DOMAIN logs[file] /\ \A j \in DOMAIN logs[file] : j < i => j \in 1..n
    <3>1. DOMAIN logs[file] = 1..Len(logs[file]) /\ Len(logs[file]) \in Nat /\ n \in 1..Len(logs[file])
      BY DEF World, Files
    <3> QED BY <3>1
  <2>2. ASSUME NEW f \in DOMAIN logs', NEW i \in DOMAIN logs'[f], logs'[f][i].parent # Null
        PROVE  \E j \in DOMAIN logs'[f] : j < i /\ logs'[f][j].id = logs'[f][i].parent
    <3>1. CASE f \in DOMAIN logs
      BY <2>2, <3>1 DEF ParentsAreBefore, Forked
    <3>2. CASE f = file'
      <4>1. i \in 1..n /\ logs'[f][i] = logs[file][i] /\ i \in DOMAIN logs[file]
        BY <2>1, <2>2, <3>2 DEF Forked
      <4>2. PICK j \in DOMAIN logs[file] : j < i /\ logs[file][j].id = logs[file][i].parent
        BY <1>2, <2>2, <4>1 DEF ParentsAreBefore
      <4>3. j \in 1..n
        BY <2>1, <4>1, <4>2
      <4> QED BY <3>2, <4>1, <4>2, <4>3 DEF Forked
    <3> QED BY <1>2, <3>1, <3>2
  <2>3. leaf' \in Ids(logs'[file'])
    BY <2>1 DEF Forked, Ids, Entries
  <2> QED BY <2>2, <2>3 DEF ParentsAreBefore, Ids, Entries
<1> QED BY <1>3, <1>4, <1>5

---------------------------------------------------------------------------
\* What appending does to the measurements.

\* What may be appended: a message with its own response or none, and what agrees
\* with every message there is.
Fits(bodies) ==
    /\ bodies \in Seq(Bodies) /\ MadeHere(bodies)
    /\ \A i \in 1..Len(bodies) :
         /\ bodies[i].kind = "assistant" => bodies[i].response \in {Null, next + i - 1}
         /\ bodies[i].kind = "timing" =>
              /\ Earlier(bodies[i].message) /\ Earlier(bodies[i].response)
              /\ \A e \in All : IsMessage(e) /\ Joins(Placed(i, bodies[i]), e) => Agrees(bodies[i], e.body)

\* No measurement is of a message that comes later.
LEMMA NotLater ==
    ASSUME World, NEW t, NEW e, Measures(t), Earlier(t.body.message), Earlier(t.body.response),
           e.id \in Nat, next <= e.id, e.body.response \in {Null, e.id}
    PROVE  ~Joins(t, e)
<1>1. next \in Nat /\ e.id # Null
  BY PiTimingAssumption DEF World, Files, Requests
<1>2. ~NamesEntry(t, e)
  BY <1>1 DEF NamesEntry, Earlier
<1>3. ~NamesResponse(t, e)
  BY <1>1 DEF NamesResponse, Earlier
<1> QED BY <1>2, <1>3 DEF Joins

\* Measurements go on agreeing.
LEMMA MeasurementsGrow ==
    ASSUME LogInv, MeasurementsAgree, NEW bodies, Fits(bodies), Grown(bodies)
    PROVE  MeasurementsAgree'
<1>1. World /\ bodies \in Seq(Bodies) /\ Len(bodies) \in Nat /\ next \in Nat /\ next' = next + Len(bodies)
  <2>1. World /\ bodies \in Seq(Bodies)
    BY DEF LogInv, Fits
  <2> QED BY <2>1, GrownNext DEF World, Requests
<1>2. All' = All \cup News(bodies)
  BY <1>1, GrownEntries
<1>3. ASSUME NEW e \in News(bodies)
      PROVE  /\ IsMessage(e) => e.body.response \in {Null, e.id}
             /\ Measures(e) => /\ Earlier(e.body.message) /\ Earlier(e.body.response)
                               /\ \A d \in All : IsMessage(d) /\ Joins(e, d) => Agrees(e.body, d.body)
             /\ e.id \in Nat /\ next <= e.id
  <2>1. PICK i \in 1..Len(bodies) : e = Placed(i, bodies[i]) /\ e.body = bodies[i] /\ e.id = next + i - 1 /\ e.id \in Nat
    BY <1>1, <1>3, NewEntry
  <2>2. next <= e.id
    BY <1>1, <2>1
  <2> QED BY <2>1, <2>2 DEF Fits, IsMessage, Measures
<1>5. \A e \in All' : IsMessage(e) => e.body.response \in {Null, e.id}
  BY <1>2, <1>3 DEF MeasurementsAgree
<1>6. \A t \in All' : Measures(t) => Earlier(t.body.message) /\ Earlier(t.body.response)
  BY <1>2, <1>3 DEF MeasurementsAgree
<1>7. \A t \in All' : Measures(t) => Earlier(t.body.message)' /\ Earlier(t.body.response)'
  <2>1. ASSUME NEW t \in All', Measures(t) PROVE Earlier(t.body.message)' /\ Earlier(t.body.response)'
    BY <1>1, <1>6, <2>1 DEF Earlier
  <2> QED BY <2>1
<1>8. ASSUME NEW t \in All', NEW e \in All', IsMessage(e), Joins(t, e) PROVE Agrees(t.body, e.body)
  <2>1. Measures(t)
    BY <1>8 DEF Joins, NamesEntry, NamesResponse
  <2>2. e \notin News(bodies)
    <3>1. e \in News(bodies) => e.id \in Nat /\ next <= e.id /\ e.body.response \in {Null, e.id}
      BY <1>3, <1>8
    <3> QED BY <1>1, <1>6, <1>8, <2>1, <3>1, NotLater
  <2>3. e \in All
    BY <1>2, <2>2
  <2>4. CASE t \in All
    BY <1>8, <2>3, <2>4 DEF MeasurementsAgree
  <2>5. CASE t \in News(bodies)
    BY <1>3, <1>8, <2>1, <2>3, <2>5
  <2> QED BY <1>2, <2>4, <2>5
<1> QED BY <1>5, <1>7, <1>8 DEF MeasurementsAgree

\* What was measured stays so.
LEMMA TimedGrow ==
    ASSUME LogInv, TimedAreMeasured, NEW bodies, Fits(bodies), Grown(bodies)
    PROVE  /\ \A id \in timed : id < next'
           /\ \A e \in All' : IsMessage(e) /\ e.id \in timed => \E t \in Entries(logs'[e.body.made]) : Joins(t, e)
<1>1. World /\ bodies \in Seq(Bodies) /\ Len(bodies) \in Nat /\ next \in Nat /\ next' = next + Len(bodies) /\ timed \subseteq Nat
  <2>1. World /\ bodies \in Seq(Bodies)
    BY DEF LogInv, Fits
  <2> QED BY <2>1, GrownNext DEF World, Requests
<1>2. /\ All' = All \cup News(bodies)
      /\ \A f \in DOMAIN logs : Entries(logs[f]) \subseteq Entries(logs'[f])
  BY <1>1, GrownEntries
<1>3. \A e \in News(bodies) : e.id \in Nat /\ next <= e.id
  BY <1>1, NewEntry
<1>4. ASSUME NEW id \in timed PROVE id < next'
  <2>1. id \in Nat /\ id < next
    BY <1>1 DEF TimedAreMeasured
  <2> QED BY <1>1, <2>1
<1>5. ASSUME NEW e \in All', IsMessage(e), e.id \in timed PROVE \E t \in Entries(logs'[e.body.made]) : Joins(t, e)
  <2>1. e \notin News(bodies)
    BY <1>1, <1>3, <1>5 DEF TimedAreMeasured
  <2>2. e \in All /\ e.body.made \in DOMAIN logs
    BY <1>2, <1>5, <2>1 DEF LogInv, CallsAreCopied, All, IsMessage, IsCall
  <2>3. PICK t \in Entries(logs[e.body.made]) : Joins(t, e)
    BY <1>5, <2>2 DEF TimedAreMeasured
  <2> QED BY <1>2, <2>2, <2>3
<1> QED BY <1>4, <1>5

\* Nor does forking change any of it.
LEMMA ForkMeasures ==
    ASSUME LogInv, MeasurementsAgree, TimedAreMeasured, NEW n \in DOMAIN logs[file], Forked(n),
           next' = next, timed' = timed
    PROVE  MeasurementsAgree' /\ TimedAreMeasured'
<1>1. /\ \A f \in DOMAIN logs : Entries(logs'[f]) = Entries(logs[f])
      /\ All' = All
  BY ForkedEntries DEF LogInv
<1>2. \A e \in All : IsMessage(e) => e.body.made \in DOMAIN logs
  BY DEF LogInv, CallsAreCopied, All, IsMessage, IsCall
<1>3. MeasurementsAgree'
  BY <1>1 DEF MeasurementsAgree, Earlier
<1>4. TimedAreMeasured'
  BY <1>1, <1>2 DEF TimedAreMeasured
<1> QED BY <1>3, <1>4

---------------------------------------------------------------------------
\* What the extension writes.

Body(id) == [kind |-> "timing", message |-> id, response |-> ready.response, ttft |-> ready.first,
             own |-> ready.own, span |-> ready.ended - ready.t0]

\* The entry written for a message, or for none, is of what was ready.
LEMMA BodyIsReady ==
    ASSUME World, ready # Null, NEW id \in Names
    PROVE  /\ Body(id) \in Bodies
           /\ Body(id).kind = "timing" /\ Body(id).message = id /\ Body(id).response = ready.response
           /\ \A a : Reads(ready, a) => Agrees(Body(id), a)
<1>1. ready \in Readies
  BY DEF World, Files, Requests
<1>2. ready.response \in Names /\ ready.first \in Times /\ ready.own \in Times /\ ready.ended - ready.t0 \in Times
  BY <1>1 DEF Readies, Times
<1>3. Body(id) \in Timings
  BY <1>2 DEF Body, Timings
<1>4. Body(id) \in Bodies
  BY <1>3 DEF Bodies
<1>5. \A a : Reads(ready, a) => Agrees(Body(id), a)
  BY DEF Body, Reads, Agrees
<1> QED BY <1>4, <1>5 DEF Body

\* It agrees with the messages it can be joined to: the one the turn made, if it
\* names that, and else the one with the response.
LEMMA WrittenFits ==
    ASSUME TimingInv, NEW id \in Names, id # Null => phase = "ended" /\ id = message.id
    PROVE  /\ Fits(Write(id))
           /\ ready = Null => Write(id) = <<>>
           /\ ready # Null => Write(id) = <<Body(id)>>
<1>1. World
  BY DEF TimingInv, LogInv
<1>2. CASE ready = Null
  <2>1. Write(id) = <<>>
    BY <1>2 DEF Write
  <2> QED BY <1>2, <2>1 DEF Fits, MadeHere
<1>3. CASE ready # Null
  <2>1. Write(id) = <<Body(id)>>
    BY <1>3 DEF Write, Entry, Body
  <2>2. /\ Body(id) \in Bodies
        /\ Body(id).kind = "timing" /\ Body(id).message = id /\ Body(id).response = ready.response
        /\ \A a : Reads(ready, a) => Agrees(Body(id), a)
    BY <1>1, <1>3, BodyIsReady
  <2>3. Earlier(id)
    <3>1. id # Null => id < next
      BY DEF TimingInv, ReadyIsOwn
    <3> QED BY <3>1 DEF Earlier, Names
  <2>4. Earlier(ready.response)
    BY <1>3 DEF TimingInv, ReadyIsOwn
  <2>5. ASSUME NEW e \in All, IsMessage(e), Joins(Placed(1, Body(id)), e) PROVE Reads(ready, e.body)
    <3>1. Placed(1, Body(id)).body = Body(id)
      BY DEF Placed
    <3>2. CASE NamesEntry(Placed(1, Body(id)), e)
      <4>1. id = e.id /\ id # Null
        <5>1. e.id \in Nat
          BY <1>1, EntriesAreEntries
        <5> QED BY <2>2, <3>1, <3>2, <5>1, PiTimingAssumption DEF NamesEntry
      <4> QED BY <1>3, <4>1 DEF TimingInv, ReadyIsOwn
    <3>3. CASE NamesResponse(Placed(1, Body(id)), e)
      <4>1. ready.response # Null /\ e.body.response = ready.response
        BY <2>2, <3>1, <3>3 DEF NamesResponse
      <4> QED BY <1>3, <2>5, <4>1 DEF TimingInv, ReadyIsOwn
    <3> QED BY <2>5, <3>2, <3>3 DEF Joins
  <2>6. Fits(<<Body(id)>>)
    <3>1. <<Body(id)>> \in Seq(Bodies) /\ Len(<<Body(id)>>) = 1
      BY <2>2
    <3>2. \A i \in 1..1 : i = 1 /\ <<Body(id)>>[i] = Body(id)
      OBVIOUS
    <3> HIDE DEF Body
    <3> QED BY <2>2, <2>3, <2>4, <2>5, <3>1, <3>2 DEF Fits, MadeHere
  <2> QED BY <1>3, <2>1, <2>6
<1> QED BY <1>2, <1>3

\* A body that is no measurement, nor a message with another's response, fits.
LEMMA OneFits ==
    ASSUME World, NEW b \in Bodies, b.kind # "timing",
           b.kind \in {"assistant", "compaction"} => b.made = file,
           b.kind = "assistant" => b.response \in {Null, next}
    PROVE  Fits(<<b>>)
<1>1. <<b>> \in Seq(Bodies) /\ Len(<<b>>) = 1 /\ \A i \in 1..1 : i = 1 /\ <<b>>[i] = b
  OBVIOUS
<1>2. next + 1 - 1 = next
  BY DEF World, Files, Requests
<1> QED BY <1>1, <1>2 DEF Fits, MadeHere

\* Two lists of bodies that fit, one after the other, when the second holds a compaction.
LEMMA ThenCompaction ==
    ASSUME World, NEW bodies, Fits(bodies)
    PROVE  LET c == [kind |-> "compaction", made |-> file]
           IN  Fits(bodies \o <<c>>) /\ News(bodies \o <<c>>) = News(bodies) \cup {Placed(Len(bodies) + 1, c)}
<1> DEFINE c == [kind |-> "compaction", made |-> file]
           both == bodies \o <<c>>
<1>1. c \in Bodies /\ c.kind = "compaction" /\ c.made = file
  <2>1. file \in Nat
    BY DEF World, Files, Requests
  <2> QED BY <2>1 DEF Bodies
<1> HIDE DEF c
<1>2. bodies \in Seq(Bodies) /\ <<c>> \in Seq(Bodies) /\ Len(<<c>>) = 1 /\ <<c>>[1] = c /\ Len(bodies) \in Nat
  BY <1>1 DEF Fits
<1>3. /\ both \in Seq(Bodies) /\ Len(both) = Len(bodies) + 1
      /\ \A i \in 1..Len(bodies) : both[i] = bodies[i]
      /\ both[Len(bodies) + 1] = c
  <2>1. /\ both \in Seq(Bodies) /\ Len(both) = Len(bodies) + Len(<<c>>)
        /\ \A i \in 1..Len(bodies) : both[i] = bodies[i]
        /\ \A i \in 1..Len(<<c>>) : both[Len(bodies) + i] = <<c>>[i]
    BY ONLY <1>2, Joined
  <2>2. 1 \in 1..Len(<<c>>)
    BY <1>2
  <2> QED BY <1>2, <2>1, <2>2
<1> HIDE DEF both
<1>4. \A i \in 1..Len(both) : i \in 1..Len(bodies) \/ i = Len(bodies) + 1
  BY <1>2, <1>3
<1>5. Fits(both)
  BY <1>1, <1>3, <1>4 DEF Fits, MadeHere
<1>6. News(both) = News(bodies) \cup {Placed(Len(bodies) + 1, c)}
  <2>1. Len(bodies) + 1 \in 1..Len(both) /\ \A i \in 1..Len(bodies) : i \in 1..Len(both)
    BY <1>2, <1>3
  <2> QED BY <1>3, <1>4, <2>1 DEF News
<1> QED BY <1>5, <1>6 DEF both, c

---------------------------------------------------------------------------
\* The logs, step by step.

LEMMA LogsGrow ==
    ASSUME TimingInv, NEW bodies, Fits(bodies), Logged(bodies), UNCHANGED files
    PROVE  /\ Grown(bodies) /\ Files' /\ IdsGrow' /\ CallsAreCopied' /\ ParentsAreBefore' /\ MeasurementsAgree'
           /\ All' = All \cup News(bodies)
           /\ Entries(logs'[file]) = Entries(logs[file]) \cup News(bodies)
           /\ next \in Nat /\ next <= next'
           /\ \A e \in News(bodies) : e.id \in Nat /\ next <= e.id /\ e.id < next'
<1>1. World /\ IdsGrow /\ CallsAreCopied /\ bodies \in Seq(Bodies) /\ MadeHere(bodies) /\ MeasurementsAgree
  BY DEF TimingInv, LogInv, Fits
<1>2. forkedFrom' = forkedFrom /\ present' = present /\ file' = file
  BY DEF files
<1>3. Grown(bodies)
  BY <1>1, LoggedGrows
<1>4. Files'
  <2>1. Len(bodies) \in Nat /\ next \in Nat \ {0}
    BY <1>1 DEF World, Files
  <2>2. next' \in Nat \ {0}
    BY <1>3, <2>1 DEF Grown
  <2> QED BY <1>1, <1>2, <1>3, <2>2 DEF World, Files, Grown
<1>5. IdsGrow' /\ CallsAreCopied' /\ ParentsAreBefore'
  BY <1>1, <1>2, <1>3, GrownIds, GrownCalls, GrownParents DEF TimingInv, LogInv
<1>6. MeasurementsAgree'
  BY <1>1, <1>3, MeasurementsGrow DEF TimingInv
<1>7. All' = All \cup News(bodies) /\ Entries(logs'[file]) = Entries(logs[file]) \cup News(bodies)
  BY <1>1, <1>3, GrownEntries
<1>8. Len(bodies) \in Nat /\ next \in Nat /\ next' = next + Len(bodies)
  BY <1>1, <1>3 DEF World, Files, Grown
<1>9. ASSUME NEW e \in News(bodies) PROVE e.id \in Nat /\ next <= e.id /\ e.id < next'
  <2>1. PICK i \in 1..Len(bodies) : e.id = next + i - 1 /\ e.id \in Nat
    BY <1>1, <1>9, NewEntry
  <2> QED BY <1>8, <2>1
<1> QED BY <1>3, <1>4, <1>5, <1>6, <1>7, <1>8, <1>9

\* Nothing is appended.
LEMMA LogsStay ==
    ASSUME TimingInv, UNCHANGED <<logs, next, forkedFrom, file>>, present' \in SUBSET present, file \in present',
           leaf' = leaf \/ leaf' \in Ids(logs[file])
    PROVE  /\ Files' /\ IdsGrow' /\ CallsAreCopied' /\ ParentsAreBefore' /\ MeasurementsAgree' /\ All' = All
           /\ timed' = timed => TimedAreMeasured'
<1>1. Files'
  <2>1. Ids(logs[file]) \subseteq Names
    <3>1. World /\ file \in DOMAIN logs
      BY DEF TimingInv, LogInv, World, Files
    <3> QED BY <3>1, EntriesAreEntries DEF Ids, Names
  <2> QED BY <2>1 DEF TimingInv, LogInv, World, Files
<1>2. All' = All
  BY DEF All
<1>3. IdsGrow' /\ CallsAreCopied' /\ ParentsAreBefore'
  BY <1>2 DEF TimingInv, LogInv, IdsGrow, CallsAreCopied, ParentsAreBefore
<1>4. MeasurementsAgree' /\ (timed' = timed => TimedAreMeasured')
  BY <1>2 DEF TimingInv, MeasurementsAgree, TimedAreMeasured, Earlier
<1> QED BY <1>1, <1>2, <1>3, <1>4

\* A message that is to be measured keeps its measurement.
LEMMA TimedStay ==
    ASSUME TimingInv, NEW bodies, Fits(bodies), Grown(bodies), timed' = timed
    PROVE  TimedAreMeasured'
BY TimedGrow DEF TimingInv, TimedAreMeasured

---------------------------------------------------------------------------
\* The requests, step by step.

\* Where neither logs nor what is ready changes, that is still of the message it was of.
LEMMA ReadyStays ==
    ASSUME TimingInv, UNCHANGED <<logs, next, ready>>,
           phase' = "ended" => UNCHANGED <<phase, message, file, on>>
    PROVE  ReadyIsOwn'
<1>1. All' = All
  BY DEF All
<1> QED BY <1>1 DEF TimingInv, ReadyIsOwn, Earlier

LEMMA TickKeeps ==
    ASSUME TimingInv, Tick
    PROVE  TimingInv'
<1>1. UNCHANGED <<logs, files, leaf, next, phase, turn, extension, on, timed>> /\ now' = now + 1
  BY DEF Tick
<1>2. Files' /\ IdsGrow' /\ CallsAreCopied' /\ ParentsAreBefore' /\ MeasurementsAgree' /\ TimedAreMeasured'
  BY <1>1, LogsStay DEF files, TimingInv, LogInv, World, Files
<1>3. Requests'
  BY <1>1 DEF files, turn, extension, TimingInv, LogInv, World, Requests
<1>4. PendingIsOwn'
  BY <1>1 DEF turn, extension, TimingInv, PendingIsOwn
<1>5. ReadyIsOwn'
  BY <1>1, ReadyStays DEF files, turn, extension
<1> QED BY <1>2, <1>3, <1>4, <1>5 DEF TimingInv, LogInv, World

LEMMA TurnStartKeeps ==
    ASSUME TimingInv, NEW said \in BOOLEAN, TurnStart(said)
    PROVE  TimingInv'
<1> DEFINE bodies == IF said THEN <<[kind |-> "user"]>> ELSE <<>>
<1>1. /\ phase' = "turn" /\ ready' = Null /\ pending' = Null /\ UNCHANGED <<now, files, turn, enabled, on, timed>>
      /\ Logged(bodies)
  BY DEF TurnStart, OnTurnStart
<1>2. World
  BY DEF TimingInv, LogInv
<1>3. Fits(bodies)
  <2>1. [kind |-> "user"] \in Bodies
    BY DEF Bodies
  <2>2. Fits(<<[kind |-> "user"]>>)
    BY <1>2, <2>1, OneFits
  <2>3. Fits(<<>>)
    BY DEF Fits, MadeHere
  <2> QED BY <2>2, <2>3
<1> HIDE DEF bodies
<1>4. Grown(bodies) /\ Files' /\ IdsGrow' /\ CallsAreCopied' /\ ParentsAreBefore' /\ MeasurementsAgree'
  BY <1>1, <1>3, LogsGrow
<1>5. TimedAreMeasured'
  BY <1>1, <1>3, <1>4, TimedStay
<1>6. Requests'
  BY <1>1, <1>2 DEF turn, World, Requests
<1>7. PendingIsOwn' /\ ReadyIsOwn'
  BY <1>1 DEF PendingIsOwn, ReadyIsOwn
<1> QED BY <1>4, <1>5, <1>6, <1>7 DEF TimingInv, LogInv, World

\* The first attempt, or another, begins with the clock at nothing.
LEMMA RequestKeeps ==
    ASSUME TimingInv, PiRequest
    PROVE  TimingInv'
<1>1. /\ phase \in {"turn", "waiting", "streaming"} /\ phase' = "waiting"
      /\ sent' = now /\ first' = Null /\ on' = enabled
      /\ began' = IF began = Null THEN now ELSE began
      /\ pending' = IF enabled THEN [t0 |-> now, first |-> Null] ELSE Null
      /\ ready' = IF enabled THEN Null ELSE ready
      /\ UNCHANGED <<now, files, message, timed, enabled>>
      /\ Logged(WrittenBefore)
  BY DEF PiRequest, BeforeProviderRequest
<1>2. World /\ ready = Null
  BY <1>1 DEF TimingInv, LogInv, PendingIsOwn
<1>3. WrittenBefore = <<>> /\ Fits(<<>>)
  BY <1>2 DEF WrittenBefore, Write, Fits, MadeHere
<1>4. Grown(<<>>) /\ Files' /\ IdsGrow' /\ CallsAreCopied' /\ ParentsAreBefore' /\ MeasurementsAgree'
  BY <1>1, <1>3, LogsGrow
<1>5. TimedAreMeasured'
  BY <1>1, <1>3, <1>4, TimedStay
<1>7. Requests'
  <2>1. now \in Nat /\ now # Null
    BY <1>2, PiTimingAssumption DEF World, Requests
  <2>2. [t0 |-> now, first |-> Null] \in Pendings
    BY <2>1 DEF Pendings, Times
  <2> QED BY <1>1, <1>2, <2>1, <2>2 DEF World, Requests, Names
<1>8. PendingIsOwn'
  <2>1. [t0 |-> now, first |-> Null] # Null
    <3>1. [t0 |-> now, first |-> Null] \in Pendings
      BY <1>2 DEF World, Requests, Pendings, Times
    <3> QED BY <3>1, PiTimingAssumption
  <2> QED BY <1>1, <1>2, <2>1 DEF PendingIsOwn
<1>9. ReadyIsOwn'
  BY <1>1, <1>2 DEF ReadyIsOwn
<1> QED BY <1>4, <1>5, <1>7, <1>8, <1>9 DEF TimingInv, LogInv, World

\* The first token is that of the last attempt.
LEMMA MessageUpdateKeeps ==
    ASSUME TimingInv, MessageUpdate
    PROVE  TimingInv'
<1>1. /\ phase \in {"waiting", "streaming"} /\ phase' = "streaming"
      /\ first' = IF first = Null THEN now ELSE first
      /\ pending' = IF pending = Null \/ (pending # Null /\ pending.first # Null) THEN pending
                    ELSE [pending EXCEPT !.first = now - pending.t0]
      /\ UNCHANGED <<enabled, ready, now, logs, files, leaf, next, began, sent, message, on, timed>>
  BY DEF MessageUpdate, OnMessageUpdate
<1>2. Files' /\ IdsGrow' /\ CallsAreCopied' /\ ParentsAreBefore' /\ MeasurementsAgree' /\ TimedAreMeasured'
  BY <1>1, LogsStay DEF files, TimingInv, LogInv, World, Files
<1>3. Requests /\ PendingIsOwn
  BY DEF TimingInv, LogInv, World
<1>4. /\ now \in Nat /\ now # Null /\ (first # Null => first - sent # Null /\ first \in Nat)
      /\ pending # Null => pending \in Pendings /\ pending.t0 = sent /\ sent \in Nat
  <2>1. sent \in Nat /\ now \in Nat /\ (first # Null => first \in Nat)
    BY <1>1, <1>3 DEF Requests, Names
  <2>2. now # Null /\ (first # Null => first - sent \in Int)
    BY <2>1, PiTimingAssumption
  <2>3. first # Null => first - sent # Null
    BY <2>2, PiTimingAssumption
  <2> QED BY <1>1, <1>3, <2>1, <2>2, <2>3 DEF Requests, PendingIsOwn
<1>5. pending' # Null =>
        /\ pending # Null /\ pending'.t0 = sent /\ pending'.first = first' - sent /\ pending' \in Pendings
  <2>1. CASE pending = Null
    BY <1>1, <2>1
  <2>2. CASE pending # Null /\ pending.first # Null
    BY <1>1, <1>3, <1>4, <2>2 DEF PendingIsOwn
  <2>3. CASE pending # Null /\ pending.first = Null
    <3>1. first = Null
      BY <1>1, <1>3, <1>4, <2>3 DEF PendingIsOwn
    <3>2. pending' = [pending EXCEPT !.first = now - sent]
      BY <1>1, <1>4, <2>3
    <3>3. pending \in [t0 : Nat, first : Times] /\ now - sent \in Times
      BY <1>4, <2>3 DEF Pendings, Times
    <3>4. pending' \in Pendings /\ pending'.t0 = pending.t0 /\ pending'.first = now - sent
      BY <3>2, <3>3 DEF Pendings
    <3> QED BY <1>1, <1>4, <2>3, <3>1, <3>4
  <2> QED BY <2>1, <2>2, <2>3
<1>6. Requests'
  <2>1. first' \in Names
    BY <1>1, <1>3 DEF Requests, Names
  <2> QED BY <1>1, <1>3, <1>5, <2>1 DEF Requests
<1>7. PendingIsOwn'
  <2>1. first' # Null
    BY <1>1, <1>4
  <2>2. pending = Null => pending' = Null
    BY <1>1
  <2>3. pending # Null => pending' # Null
    <3>1. ASSUME pending # Null PROVE [pending EXCEPT !.first = now - pending.t0] # Null
      <4>1. pending \in [t0 : Nat, first : Times] /\ now - pending.t0 \in Times
        BY <1>4, <3>1 DEF Pendings, Times
      <4>2. [pending EXCEPT !.first = now - pending.t0] \in Pendings
        BY <4>1 DEF Pendings
      <4> QED BY <4>2, PiTimingAssumption
    <3> QED BY <1>1, <3>1
  <2> QED BY <1>1, <1>3, <1>5, <2>1, <2>2, <2>3 DEF PendingIsOwn
<1>8. ReadyIsOwn'
  BY <1>1, ReadyStays
<1> QED BY <1>2, <1>6, <1>7, <1>8 DEF TimingInv, LogInv, World

\* A message is what its last attempt was, and that is what becomes ready.
LEMMA MessageEndKeeps ==
    ASSUME TimingInv, MessageEnd
    PROVE  TimingInv'
<1> DEFINE own == IF build.duration THEN now - began ELSE Null
           response == IF build.response THEN next ELSE Null
           body == [kind |-> "assistant", response |-> response, own |-> own, made |-> file,
                    wait |-> IF first = Null THEN Null ELSE first - sent, span |-> now - sent]
           read == [t0 |-> pending.t0, first |-> pending.first, ended |-> now, response |-> response, own |-> own]
<1>1. /\ phase \in {"waiting", "streaming"} /\ phase' = "ended" /\ message' = [id |-> next, response |-> response]
      /\ began' = Null /\ sent' = Null /\ first' = Null /\ pending' = Null
      /\ ready' = IF pending = Null THEN ready ELSE read
      /\ UNCHANGED <<now, files, on, timed, enabled>>
      /\ Logged(<<body>>)
  BY DEF MessageEnd, OnMessageEnd
<1>2. World /\ PendingIsOwn /\ Requests
  BY DEF TimingInv, LogInv, World
<1>3. /\ next \in Nat /\ next # Null /\ response \in {Null, next} /\ response \in Names
      /\ own \in Times /\ file \in Nat /\ now \in Nat /\ sent \in Nat
      /\ (IF first = Null THEN Null ELSE first - sent) \in Times /\ now - sent \in Times
  <2>1. next \in Nat /\ next # Null /\ file \in Nat
    BY <1>2, PiTimingAssumption DEF World, Files
  <2>2. now \in Nat /\ sent \in Nat /\ began \in Nat /\ first \in Names
    BY <1>1, <1>2 DEF Requests, Names
  <2> QED BY <2>1, <2>2 DEF Names, Times
<1>4. /\ body \in Bodies /\ body.kind = "assistant" /\ body.made = file /\ body.response = response
      /\ body.own = own /\ body.wait = (IF first = Null THEN Null ELSE first - sent) /\ body.span = now - sent
  BY <1>3 DEF Bodies
<1>5. pending # Null =>
        /\ read \in Readies /\ read # Null /\ read.response = response /\ Reads(read, body)
  <2>1. ASSUME pending # Null PROVE pending.t0 = sent /\ pending.first = body.wait
    BY <1>1, <1>2, <1>4, <2>1 DEF PendingIsOwn
  <2>2. ASSUME pending # Null PROVE read \in Readies
    BY <1>3, <1>4, <2>1, <2>2 DEF Readies
  <2>3. ASSUME pending # Null PROVE Reads(read, body)
    BY <1>4, <2>1, <2>3 DEF Reads
  <2> QED BY <2>2, <2>3, PiTimingAssumption
<1>6. ready = Null
  BY <1>1, <1>2 DEF PendingIsOwn
<1> HIDE DEF body, read, own
<1>7. Fits(<<body>>)
  BY <1>2, <1>3, <1>4, OneFits
<1>8. /\ Grown(<<body>>) /\ Files' /\ IdsGrow' /\ CallsAreCopied' /\ ParentsAreBefore' /\ MeasurementsAgree'
      /\ All' = All \cup News(<<body>>) /\ next < next'
  <2>1. /\ Grown(<<body>>) /\ Files' /\ IdsGrow' /\ CallsAreCopied' /\ ParentsAreBefore' /\ MeasurementsAgree'
        /\ All' = All \cup News(<<body>>)
    BY <1>1, <1>7, LogsGrow
  <2>2. next' = next + 1
    BY <1>1 DEF Logged
  <2> QED BY <1>3, <2>1, <2>2
<1>9. TimedAreMeasured'
  BY <1>1, <1>7, <1>8, TimedStay
<1>10. \A e \in News(<<body>>) : e.body = body /\ e.id = next
  <2>1. News(<<body>>) = {Placed(1, body)}
    BY DEF News
  <2> QED BY <1>3, <2>1 DEF Placed
<1>11. ASSUME NEW e \in All', e.id = next \/ (IsMessage(e) /\ e.body.response = response /\ response # Null)
       PROVE  e.body = body
  <2>1. CASE e \in All
    <3>1. e.id \in Nat /\ e.id < next
      BY <1>2, <2>1, EntriesAreEntries DEF TimingInv, LogInv, IdsGrow
    <3>2. IsMessage(e) => e.body.response \in {Null, e.id}
      BY <2>1 DEF TimingInv, MeasurementsAgree
    <3> QED BY <1>3, <1>11, <3>1, <3>2
  <2> QED BY <1>8, <1>10, <2>1
<1>12. Requests'
  <2>1. message' \in Messages /\ message' # Null
    <3>1. message' \in Messages
      BY <1>1, <1>3 DEF Messages
    <3> QED BY <3>1, PiTimingAssumption
  <2> QED BY <1>1, <1>2, <1>5, <1>6, <2>1 DEF Requests, Names
<1>13. PendingIsOwn'
  BY <1>1 DEF PendingIsOwn
<1>14. ReadyIsOwn'
  <2>1. message'.id = next /\ message'.response = response
    BY <1>1
  <2>2. ASSUME ready' # Null PROVE pending # Null /\ ready' = read
    BY <1>1, <1>6, <2>2
  <2>3. response # Null => response \in Nat /\ response < next'
    BY <1>3, <1>8
  <2>4. on' => ready' # Null
    BY <1>1, <1>2, <1>5 DEF PendingIsOwn
  <2>5. IsMessage([id |-> next, body |-> body]) /\ body.made = file'
    BY <1>1, <1>4 DEF IsMessage, files
  <2>6. \A e \in All' : e.id = next => IsMessage(e) /\ e.body = body /\ e.body.made = file' /\ e.body.response = response
    BY <1>4, <1>11, <2>5 DEF IsMessage
  <2>7. ready' # Null => \A e \in All' : e.id = next => Reads(ready', e.body)
    BY <1>5, <2>2, <2>6
  <2>8. ready' # Null => \A e \in All' : IsMessage(e) /\ ready'.response # Null /\ e.body.response = ready'.response =>
              Reads(ready', e.body)
    BY <1>5, <1>11, <2>2
  <2>9. ready' # Null => ready'.response = response
    BY <1>5, <2>2
  <2> HIDE DEF response
  <2> QED BY <1>8, <2>1, <2>3, <2>4, <2>6, <2>7, <2>8, <2>9 DEF ReadyIsOwn, Earlier
<1> QED BY <1>8, <1>9, <1>12, <1>13, <1>14 DEF TimingInv, LogInv, World

\* The turn ends: what was ready is in the log.
LEMMA TurnEndKeeps ==
    ASSUME TimingInv, TurnEnd
    PROVE  TimingInv'
<1> DEFINE named == IF build.entry THEN message.id ELSE Null
<1>1. /\ phase = "ended" /\ phase' = "idle" /\ ready' = Null /\ pending' = Null
      /\ began' = Null /\ sent' = Null /\ first' = Null /\ message' = Null /\ on' = FALSE
      /\ timed' = IF on /\ (message.response # Null \/ build.entry) THEN timed \cup {message.id} ELSE timed
      /\ UNCHANGED <<now, files, enabled>>
      /\ Logged(Write(named))
  BY DEF TurnEnd, Idle, OnTurnEnd
<1>2. World /\ ReadyIsOwn /\ Requests
  BY DEF TimingInv, LogInv, World
<1>3. message \in Messages /\ message.id \in Nat /\ message.id < next /\ named \in Names
      /\ (named # Null => build.entry /\ named = message.id)
  BY <1>1, <1>2 DEF Requests, Messages, Names, ReadyIsOwn
<1>4. /\ Fits(Write(named))
      /\ ready = Null => Write(named) = <<>>
      /\ ready # Null => Write(named) = <<Body(named)>>
  BY <1>1, <1>3, WrittenFits
<1>5. /\ Grown(Write(named)) /\ Files' /\ IdsGrow' /\ CallsAreCopied' /\ ParentsAreBefore' /\ MeasurementsAgree'
      /\ All' = All \cup News(Write(named)) /\ Entries(logs'[file]) = Entries(logs[file]) \cup News(Write(named))
      /\ next \in Nat /\ next <= next'
      /\ \A e \in News(Write(named)) : e.id \in Nat /\ next <= e.id
  BY <1>1, <1>4, LogsGrow
<1>6. Requests'
  BY <1>1, <1>2, <1>3 DEF Requests, Names
<1>7. PendingIsOwn' /\ ReadyIsOwn'
  BY <1>1 DEF PendingIsOwn, ReadyIsOwn
<1>8. ASSUME NEW e \in All', e.id = message.id, on, message.response # Null \/ build.entry
      PROVE  \E t \in Entries(logs'[e.body.made]) : Joins(t, e)
  <2>1. e \in All
    <3>1. e \notin News(Write(named))
      BY <1>3, <1>5, <1>8
    <3> QED BY <1>5, <3>1
  <2>2. IsMessage(e) /\ e.body.made = file /\ e.body.response = message.response
    BY <1>1, <1>2, <1>8, <2>1 DEF ReadyIsOwn
  <2>3. CASE ready = Null
    <3>1. message.response # Null
          /\ \E t \in Entries(logs[file]) : Measures(t) /\ t.body.message = Null /\ t.body.response = message.response
      BY <1>1, <1>2, <1>8, <2>3 DEF ReadyIsOwn
    <3> QED BY <1>5, <2>2, <3>1 DEF Joins, NamesResponse
  <2>4. CASE ready # Null
    <3>1. /\ Body(named).kind = "timing" /\ Body(named).message = named /\ Body(named).response = ready.response
      BY <1>2, <1>3, <2>4, BodyIsReady
    <3>2. ready.response = message.response
      BY <1>1, <1>2, <2>4 DEF ReadyIsOwn
    <3>3. Placed(1, Body(named)) \in Entries(logs'[file]) /\ Placed(1, Body(named)).body = Body(named)
      <4>1. Write(named) = <<Body(named)>> /\ News(<<Body(named)>>) = {Placed(1, Body(named))}
        BY <1>4, <2>4 DEF News
      <4> QED BY <1>5, <4>1 DEF Placed
    <3>4. Joins(Placed(1, Body(named)), e)
      <4>1. CASE build.entry
        BY <1>8, <3>1, <3>3, <4>1 DEF Joins, NamesEntry, Measures
      <4>2. CASE ~build.entry
        BY <1>8, <2>2, <3>1, <3>2, <3>3, <4>2 DEF Joins, NamesResponse, Measures
      <4> QED BY <4>1, <4>2
    <3> QED BY <2>2, <3>3, <3>4
  <2> QED BY <2>3, <2>4
<1> HIDE DEF named
<1>9. TimedAreMeasured'
  <2>1. /\ \A id \in timed : id < next'
        /\ \A e \in All' : IsMessage(e) /\ e.id \in timed => \E t \in Entries(logs'[e.body.made]) : Joins(t, e)
    BY <1>4, <1>5, TimedGrow DEF TimingInv
  <2>2. next' \in Nat /\ message.id < next'
    BY <1>3, <1>5 DEF Files
  <2> QED BY <1>1, <1>8, <2>1, <2>2 DEF TimedAreMeasured
<1> QED BY <1>5, <1>6, <1>7, <1>9 DEF TimingInv, LogInv, World

\* The user stops a turn; what was ready stays so, for no message in particular.
LEMMA AbortKeeps ==
    ASSUME TimingInv, Abort
    PROVE  TimingInv'
<1>1. /\ phase' = "idle" /\ began' = Null /\ sent' = Null /\ first' = Null /\ message' = Null /\ on' = FALSE
      /\ UNCHANGED <<now, logs, files, leaf, next, extension, timed>>
  BY DEF Abort, Idle
<1>2. Files' /\ IdsGrow' /\ CallsAreCopied' /\ ParentsAreBefore' /\ MeasurementsAgree' /\ TimedAreMeasured'
  BY <1>1, LogsStay DEF files, TimingInv, LogInv, World, Files
<1>3. Requests'
  BY <1>1 DEF extension, TimingInv, LogInv, World, Requests, Names
<1>4. PendingIsOwn'
  BY <1>1 DEF PendingIsOwn
<1>5. ReadyIsOwn'
  BY <1>1, ReadyStays DEF files, extension
<1> QED BY <1>2, <1>3, <1>4, <1>5 DEF TimingInv, LogInv, World

\* A compaction takes the place of what was pending; what was ready is written
\* before it, if the extension is on, and else stays.
LEMMA CompactKeeps ==
    ASSUME TimingInv, Compact
    PROVE  TimingInv'
<1> DEFINE c == [kind |-> "compaction", made |-> file]
           bodies == WrittenBefore \o <<c>>
<1>1. /\ phase \in {"idle", "ended"}
      /\ on' = (on /\ ~(phase = "ended" /\ message.response = Null))
      /\ pending' = IF enabled THEN [t0 |-> now, first |-> Null] ELSE Null
      /\ ready' = IF enabled THEN Null ELSE ready
      /\ UNCHANGED <<now, files, phase, turn, timed, enabled>>
      /\ Logged(bodies)
  BY DEF Compact, BeforeProviderRequest
<1>2. World /\ ReadyIsOwn /\ Requests
  BY DEF TimingInv, LogInv, World
<1>3. Fits(WrittenBefore)
  <2>1. Fits(Write(Null))
    BY WrittenFits DEF Names
  <2>2. Fits(<<>>)
    BY DEF Fits, MadeHere
  <2> QED BY <2>1, <2>2 DEF WrittenBefore
<1>4. Fits(bodies) /\ News(bodies) = News(WrittenBefore) \cup {Placed(Len(WrittenBefore) + 1, c)}
  BY <1>2, <1>3, ThenCompaction
<1>5. enabled /\ ready # Null => News(WrittenBefore) = {Placed(1, Body(Null))}
  <2>1. ready # Null => Write(Null) = <<Body(Null)>>
    BY WrittenFits DEF Names
  <2>2. News(<<Body(Null)>>) = {Placed(1, Body(Null))}
    BY DEF News
  <2> QED BY <2>1, <2>2 DEF WrittenBefore
<1>6. \A e \in News(bodies) : ~IsMessage(e)
  <2>1. \A i \in 1..Len(WrittenBefore) : WrittenBefore[i].kind # "assistant"
    <3>1. CASE enabled /\ ready # Null
      <4>1. WrittenBefore = <<Body(Null)>>
        BY <3>1, WrittenFits DEF WrittenBefore, Names
      <4>2. Body(Null).kind = "timing"
        BY DEF Body
      <4> HIDE DEF Body
      <4> QED BY <4>1, <4>2
    <3>2. CASE ~(enabled /\ ready # Null)
      <4>1. WrittenBefore = <<>>
        BY <3>2 DEF WrittenBefore, Write
      <4> QED BY <4>1
    <3> QED BY <3>1, <3>2
  <2>2. \A e \in News(WrittenBefore) : ~IsMessage(e)
    BY <2>1 DEF News, Placed, IsMessage
  <2>3. ~IsMessage(Placed(Len(WrittenBefore) + 1, c))
    BY DEF Placed, IsMessage
  <2> QED BY <1>4, <2>2, <2>3
<1> HIDE DEF bodies
<1>7. /\ Grown(bodies) /\ Files' /\ IdsGrow' /\ CallsAreCopied' /\ ParentsAreBefore' /\ MeasurementsAgree'
      /\ All' = All \cup News(bodies) /\ Entries(logs'[file]) = Entries(logs[file]) \cup News(bodies)
      /\ next \in Nat /\ next <= next' /\ next' \in Nat
      /\ \A e \in News(bodies) : e.id \in Nat /\ next <= e.id
  BY <1>1, <1>4, LogsGrow DEF Files
<1>8. TimedAreMeasured'
  BY <1>1, <1>4, <1>7, TimedStay
<1>9. Requests'
  <2>1. enabled => pending' \in Pendings
    BY <1>1, <1>2 DEF Requests, Pendings, Times
  <2> QED BY <1>1, <1>2, <2>1 DEF turn, Requests
<1>10. PendingIsOwn'
  BY <1>1 DEF PendingIsOwn
<1>11. ReadyIsOwn'
  <2>1. \A x : Earlier(x) => x = Null \/ (x \in Nat /\ x < next')
    BY <1>7 DEF Earlier
  <2>2. ready' # Null => ready' = ready /\ ready # Null
    BY <1>1
  <2>3. \A e \in All' : IsMessage(e) => e \in All
    BY <1>6, <1>7
  <2>4. ready' # Null =>
          /\ Earlier(ready'.response)
          /\ \A e \in All' : IsMessage(e) /\ ready'.response # Null /\ e.body.response = ready'.response =>
               Reads(ready', e.body)
    BY <1>2, <2>2, <2>3 DEF ReadyIsOwn
  <2>5. ASSUME phase = "ended"
        PROVE  /\ message.id < next'
               /\ \A e \in All' : e.id = message.id =>
                    /\ IsMessage(e) /\ e.body.made = file /\ e.body.response = message.response
                    /\ ready' # Null => Reads(ready', e.body)
               /\ ready' # Null => ready'.response = message.response
    <3>1. message.id \in Nat /\ message.id < next
      BY <1>2, <2>5 DEF Requests, Messages, ReadyIsOwn
    <3>2. \A e \in All' : e.id = message.id => e \in All
      <4>1. \A e \in News(bodies) : e.id # message.id
        BY <1>7, <3>1
      <4> QED BY <1>7, <4>1
    <3> QED BY <1>2, <1>7, <2>2, <2>5, <3>1, <3>2 DEF ReadyIsOwn
  <2>6. ASSUME phase = "ended", on', ready' = Null
        PROVE  /\ message.response # Null
               /\ \E t \in Entries(logs'[file]) :
                    Measures(t) /\ t.body.message = Null /\ t.body.response = message.response
    <3>1. on /\ message.response # Null
      BY <1>1, <2>6
    <3>2. CASE ready = Null
      BY <1>2, <1>7, <2>6, <3>1, <3>2 DEF ReadyIsOwn
    <3>3. CASE ready # Null
      <4>1. enabled /\ ready.response = message.response
        BY <1>1, <1>2, <2>6, <3>3 DEF ReadyIsOwn
      <4>2. Placed(1, Body(Null)) \in Entries(logs'[file])
        BY <1>4, <1>5, <1>7, <3>3, <4>1
      <4>3. /\ Placed(1, Body(Null)).body.kind = "timing" /\ Placed(1, Body(Null)).body.message = Null
            /\ Placed(1, Body(Null)).body.response = message.response
        BY <4>1 DEF Placed, Body
      <4> QED BY <3>1, <4>2, <4>3 DEF Measures
    <3> QED BY <3>2, <3>3
  <2>7. phase' = phase /\ message' = message /\ file' = file
    BY <1>1 DEF turn, files
  <2> QED BY <2>1, <2>4, <2>5, <2>6, <2>7 DEF ReadyIsOwn, Earlier
<1> QED BY <1>7, <1>8, <1>9, <1>10, <1>11 DEF TimingInv, LogInv, World

LEMMA ToggleKeeps ==
    ASSUME TimingInv, Toggle
    PROVE  TimingInv'
<1>1. UNCHANGED <<now, logs, files, leaf, next, phase, turn, pending, ready, on, timed>> /\ enabled' = ~enabled
  BY DEF Toggle
<1>2. Files' /\ IdsGrow' /\ CallsAreCopied' /\ ParentsAreBefore' /\ MeasurementsAgree' /\ TimedAreMeasured'
  BY <1>1, LogsStay DEF files, TimingInv, LogInv, World, Files
<1>3. Requests'
  BY <1>1 DEF turn, TimingInv, LogInv, World, Requests
<1>4. PendingIsOwn'
  BY <1>1 DEF turn, TimingInv, PendingIsOwn
<1>5. ReadyIsOwn'
  BY <1>1, ReadyStays DEF files, turn
<1> QED BY <1>2, <1>3, <1>4, <1>5 DEF TimingInv, LogInv, World

\* pi ends, with what was ready written or not.
LEMMA RestartKeeps ==
    ASSUME TimingInv, NEW clean \in BOOLEAN, Restart(clean)
    PROVE  TimingInv'
<1> DEFINE bodies == IF clean THEN Write(Null) ELSE <<>>
<1>1. /\ phase' = "idle" /\ ready' = Null /\ pending' = Null /\ enabled' = TRUE
      /\ began' = Null /\ sent' = Null /\ first' = Null /\ message' = Null /\ on' = FALSE
      /\ UNCHANGED <<now, files, timed>>
      /\ Logged(bodies)
  BY DEF Restart, Idle
<1>2. Fits(bodies)
  <2>1. Fits(Write(Null))
    BY WrittenFits DEF Names
  <2>2. Fits(<<>>)
    BY DEF Fits, MadeHere
  <2> QED BY <2>1, <2>2
<1> HIDE DEF bodies
<1>3. Grown(bodies) /\ Files' /\ IdsGrow' /\ CallsAreCopied' /\ ParentsAreBefore' /\ MeasurementsAgree'
  BY <1>1, <1>2, LogsGrow
<1>4. TimedAreMeasured'
  BY <1>1, <1>2, <1>3, TimedStay
<1>5. Requests'
  BY <1>1 DEF TimingInv, LogInv, World, Requests, Names
<1>6. PendingIsOwn' /\ ReadyIsOwn'
  BY <1>1 DEF PendingIsOwn, ReadyIsOwn
<1> QED BY <1>3, <1>4, <1>5, <1>6 DEF TimingInv, LogInv, World

LEMMA BranchKeeps ==
    ASSUME TimingInv, NEW n \in DOMAIN logs[file], Branch(logs[file][n].id)
    PROVE  TimingInv'
<1>1. /\ UNCHANGED <<now, logs, files, next, phase, turn, extension, on, timed>> /\ leaf' = logs[file][n].id
  BY DEF Branch
<1>2. leaf' \in Ids(logs[file])
  BY <1>1 DEF Ids, Entries
<1>3. Files' /\ IdsGrow' /\ CallsAreCopied' /\ ParentsAreBefore' /\ MeasurementsAgree' /\ TimedAreMeasured'
  BY <1>1, <1>2, LogsStay DEF files, TimingInv, LogInv, World, Files
<1>4. Requests'
  BY <1>1 DEF turn, extension, TimingInv, LogInv, World, Requests
<1>5. PendingIsOwn'
  BY <1>1 DEF turn, extension, TimingInv, PendingIsOwn
<1>6. ReadyIsOwn'
  BY <1>1, ReadyStays DEF files, turn, extension
<1> QED BY <1>3, <1>4, <1>5, <1>6 DEF TimingInv, LogInv, World

\* What is ready stays so in the file that is made, which may lack the message.
LEMMA ForkKeeps ==
    ASSUME TimingInv, NEW n \in DOMAIN logs[file], Fork(n)
    PROVE  TimingInv'
<1>1. /\ phase = "idle" /\ present' = present \cup {file'}
      /\ UNCHANGED <<now, next, phase, turn, extension, on, timed>>
  BY DEF Fork
<1>2. LogInv /\ World /\ MeasurementsAgree /\ TimedAreMeasured
  BY DEF TimingInv, LogInv
<1>3. Forked(n)
  BY <1>2, ForkForks
<1>4. IdsGrow' /\ CallsAreCopied' /\ ParentsAreBefore' /\ MeasurementsAgree' /\ TimedAreMeasured' /\ All' = All
  BY <1>1, <1>2, <1>3, ForkKeepsLogs, ForkMeasures, ForkedEntries
<1>5. Files'
  BY <1>1, <1>2, <1>3 DEF World, Files, Forked, Names
<1>6. Requests'
  BY <1>1, <1>2 DEF turn, extension, World, Requests
<1>7. PendingIsOwn'
  BY <1>1 DEF turn, extension, TimingInv, PendingIsOwn
<1>8. ReadyIsOwn'
  BY <1>1, <1>4 DEF turn, extension, TimingInv, ReadyIsOwn, Earlier
<1> QED BY <1>4, <1>5, <1>6, <1>7, <1>8 DEF TimingInv, LogInv, World

LEMMA DeleteKeeps ==
    ASSUME TimingInv, NEW f \in present, Delete(f)
    PROVE  TimingInv'
<1>1. /\ f # file /\ present' = present \ {f}
      /\ UNCHANGED <<now, logs, forkedFrom, file, leaf, next, phase, turn, extension, on, timed>>
  BY DEF Delete
<1>2. Files' /\ IdsGrow' /\ CallsAreCopied' /\ ParentsAreBefore' /\ MeasurementsAgree' /\ TimedAreMeasured'
  BY <1>1, LogsStay DEF TimingInv, LogInv, World, Files
<1>3. Requests'
  BY <1>1 DEF turn, extension, TimingInv, LogInv, World, Requests
<1>4. PendingIsOwn'
  BY <1>1 DEF turn, extension, TimingInv, PendingIsOwn
<1>5. ReadyIsOwn'
  BY <1>1, ReadyStays DEF turn, extension
<1> QED BY <1>2, <1>3, <1>4, <1>5 DEF TimingInv, LogInv, World

\* Only pi and the extension change what is read.
LEMMA StutterKeeps ==
    ASSUME TimingInv, UNCHANGED piVars
    PROVE  TimingInv'
<1>1. UNCHANGED <<now, logs, forkedFrom, present, file, leaf, next, phase, turn, extension, on, timed>>
  BY DEF piVars, files
<1>2. Files' /\ IdsGrow' /\ CallsAreCopied' /\ ParentsAreBefore' /\ MeasurementsAgree' /\ TimedAreMeasured'
  BY <1>1, LogsStay DEF TimingInv, LogInv, World, Files
<1>3. Requests'
  BY <1>1 DEF turn, extension, TimingInv, LogInv, World, Requests
<1>4. PendingIsOwn'
  BY <1>1 DEF turn, extension, TimingInv, PendingIsOwn
<1>5. ReadyIsOwn'
  BY <1>1, ReadyStays DEF turn, extension
<1> QED BY <1>2, <1>3, <1>4, <1>5 DEF TimingInv, LogInv, World

\* At first there is an empty file and no request.
LEMMA InitTiming == PiInit => TimingInv
<1> SUFFICES ASSUME PiInit PROVE TimingInv
  OBVIOUS
<1>1. All = {}
  BY DEF PiInit, All, Entries
<1>2. World
  <2>1. logs \in Seq(Seq(LogEntries)) /\ DOMAIN logs = {1}
    BY DEF PiInit
  <2>2. forkedFrom \in [{1} -> Names]
    BY DEF PiInit, Names
  <2>3. Files
    BY <2>1, <2>2 DEF PiInit, Files, Names
  <2>4. Requests
    BY DEF PiInit, Requests, Names
  <2> QED BY <2>3, <2>4 DEF World
<1>3. IdsGrow /\ CallsAreCopied /\ ParentsAreBefore
  BY <1>1 DEF PiInit, IdsGrow, CallsAreCopied, ParentsAreBefore, Entries
<1>4. MeasurementsAgree /\ TimedAreMeasured /\ PendingIsOwn /\ ReadyIsOwn
  BY <1>1 DEF PiInit, MeasurementsAgree, TimedAreMeasured, PendingIsOwn, ReadyIsOwn
<1> QED BY <1>2, <1>3, <1>4 DEF TimingInv, LogInv

\* Measurements are true of every step of pi and of its extension.
THEOREM TimingInvHolds == PiSpec => []TimingInv
<1>1. TimingInv /\ [PiNext]_piVars => TimingInv'
  <2> SUFFICES ASSUME TimingInv, [PiNext]_piVars PROVE TimingInv'
    OBVIOUS
  <2>1. CASE Tick
    BY <2>1, TickKeeps
  <2>2. CASE PiRequest
    BY <2>2, RequestKeeps
  <2>3. CASE MessageUpdate
    BY <2>3, MessageUpdateKeeps
  <2>4. CASE MessageEnd
    BY <2>4, MessageEndKeeps
  <2>5. CASE TurnEnd
    BY <2>5, TurnEndKeeps
  <2>6. CASE Abort
    BY <2>6, AbortKeeps
  <2>7. CASE Compact
    BY <2>7, CompactKeeps
  <2>8. CASE Toggle
    BY <2>8, ToggleKeeps
  <2>9. CASE \E b \in BOOLEAN : TurnStart(b) \/ Restart(b)
    BY <2>9, TurnStartKeeps, RestartKeeps
  <2>10. CASE \E n \in DOMAIN logs[file] : Branch(logs[file][n].id) \/ Fork(n)
    BY <2>10, BranchKeeps, ForkKeeps
  <2>11. CASE \E f \in present : Delete(f)
    BY <2>11, DeleteKeeps
  <2>12. CASE UNCHANGED piVars
    BY <2>12, StutterKeeps
  <2> QED BY <2>1, <2>2, <2>3, <2>4, <2>5, <2>6, <2>7, <2>8, <2>9, <2>10, <2>11, <2>12 DEF PiNext
<1> QED BY <1>1, InitTiming, PTL DEF PiSpec

---------------------------------------------------------------------------
\* The turns of a file.

\* An entry is found by its id.
LEMMA EntryFound ==
    ASSUME LogInv, NEW f \in DOMAIN logs, NEW e \in Entries(logs[f])
    PROVE  EntryOf(f, e.id) = e
<1>1. Entries(logs[f]) \subseteq All
  BY EntriesAreEntries DEF LogInv
<1>2. \A d \in Entries(logs[f]) : d.id = e.id => d = e
  BY <1>1 DEF LogInv, IdsGrow
<1> QED BY <1>2 DEF EntryOf

\* The turns are the calls that are not inherited.
LEMMA TurnsAreCalls ==
    ASSUME NEW f \in DOMAIN logs, NEW t
    PROVE  t \in Turns(f) <=>
             \E i \in DOMAIN logs[f] : /\ t = TurnAt(logs[f], i)
                                       /\ IsCall(logs[f][i]) /\ logs[f][i].id \notin Inherited(f)
BY DEF Turns

LEMMA TurnOfEntry ==
    ASSUME NEW log, NEW i
    PROVE  TurnAt(log, i).id = log[i].id
BY DEF TurnAt

---------------------------------------------------------------------------
\* Spend.

\* A call is counted where it is in the log and is not inherited.
LEMMA Counted ==
    ASSUME LogInv, NEW f \in DOMAIN logs, NEW g \in DOMAIN logs, NEW e \in Entries(logs[f]), IsCall(e)
    PROVE  (\E t \in Turns(g) : t.id = e.id) <=> e \in Entries(logs[g]) /\ e.id \notin Inherited(g)
<1>1. e \in All /\ Entries(logs[g]) \subseteq All
  BY EntriesAreEntries DEF LogInv
<1>2. ASSUME NEW t \in Turns(g), t.id = e.id PROVE e \in Entries(logs[g]) /\ e.id \notin Inherited(g)
  <2>1. PICK i \in DOMAIN logs[g] : t = TurnAt(logs[g], i) /\ logs[g][i].id \notin Inherited(g)
    BY <1>2, TurnsAreCalls
  <2>2. logs[g][i].id = e.id /\ logs[g][i] \in Entries(logs[g])
    BY <1>2, <2>1, TurnOfEntry DEF Entries
  <2>3. logs[g][i] = e
    BY <1>1, <2>2 DEF LogInv, IdsGrow
  <2> QED BY <2>1, <2>2, <2>3
<1>3. ASSUME e \in Entries(logs[g]), e.id \notin Inherited(g) PROVE \E t \in Turns(g) : t.id = e.id
  <2>1. PICK i \in DOMAIN logs[g] : logs[g][i] = e
    BY <1>3 DEF Entries
  <2>2. TurnAt(logs[g], i) \in Turns(g)
    BY <1>3, <2>1, TurnsAreCalls
  <2> QED BY <2>1, <2>2, TurnOfEntry
<1> QED BY <1>2, <1>3

\* A set of natural numbers has a least element.
LEMMA LeastOf == ASSUME NEW S \in SUBSET Nat, S # {}
                 PROVE  \E m \in S : \A k \in S : m <= k
<1>1. PICK m \in S : \A k \in S : ~ (<<k, m>> \in OpToRel(<, Nat))
  BY NatLessThanWellFounded, WFMin
<1>2. \A k \in S : ~(k < m)
  BY <1>1 DEF OpToRel
<1> QED BY <1>2

\* Of the files there are with a call the first counts it.
LEMMA SomeFileCounts ==
    ASSUME LogInv, NEW f \in present, NEW e \in Entries(logs[f]), IsCall(e)
    PROVE  \E g \in present : e \in Entries(logs[g]) /\ e.id \notin Inherited(g)
<1> DEFINE Having == {g \in present : e \in Entries(logs[g])}
<1>1. present \subseteq DOMAIN logs /\ DOMAIN logs \subseteq Nat
  BY DEF LogInv, World, Files
<1>2. Having \in SUBSET Nat /\ Having # {}
  BY <1>1
<1>3. PICK g \in Having : \A h \in Having : g <= h
  <2> HIDE DEF Having
  <2> QED BY <1>2, LeastOf
<1>4. e.id \notin Inherited(g)
  <2>1. SUFFICES ASSUME forkedFrom[g] \in present, e.id \in Ids(logs[forkedFrom[g]]) PROVE FALSE
    BY DEF Inherited
  <2>2. PICK d \in Entries(logs[forkedFrom[g]]) : d.id = e.id
    BY <2>1 DEF Ids
  <2>3. d = e
    <3>1. d \in All /\ e \in All
      BY <1>1, <2>1, EntriesAreEntries DEF LogInv
    <3> QED BY <2>2, <3>1 DEF LogInv, IdsGrow
  <2>4. forkedFrom[g] \in Having
    BY <2>1, <2>2, <2>3
  <2>5. g \in Nat /\ forkedFrom[g] \in Nat /\ forkedFrom[g] # Null
    BY <1>1, <2>1, PiTimingAssumption
  <2>6. forkedFrom[g] \in 1..(g - 1)
    BY <1>1, <2>5 DEF LogInv, CallsAreCopied
  <2> QED BY <1>3, <2>4, <2>5, <2>6
<1> QED BY <1>4

\* What a request cost is counted, where it was made while that file is there, and
\* elsewhere only in a file whose origin is gone: every call is in the file it was
\* made in, and came to the others with the beginning of the file they came from.
THEOREM SpendCountedOnceAlways == PiSpec => []SpendCountedOnce
<1>1. TimingInv => SpendCountedOnce
  <2> SUFFICES ASSUME TimingInv, NEW f \in present, NEW e \in Entries(logs[f]), IsCall(e)
               PROVE  LET made == e.body.made
                          counting == {g \in present : \E t \in Turns(g) : t.id = e.id}
                      IN  /\ counting # {}
                          /\ made \in present => made \in counting
                          /\ \A g \in counting : made = g \/ forkedFrom[g] \notin present
    BY DEF SpendCountedOnce
  <2> DEFINE made == e.body.made
             counting == {g \in present : \E t \in Turns(g) : t.id = e.id}
  <2>1. LogInv /\ present \subseteq DOMAIN logs
    BY DEF TimingInv, LogInv, World, Files
  <2>2. \A g \in present : g \in counting <=> e \in Entries(logs[g]) /\ e.id \notin Inherited(g)
    BY <2>1, Counted
  <2> HIDE DEF counting
  <2>3. counting # {}
    BY <2>1, <2>2, SomeFileCounts
  <2>4. made \in present => made \in counting
    <3>1. e \in Entries(logs[made]) /\ made \in DOMAIN logs
      BY <2>1 DEF LogInv, CallsAreCopied
    <3>2. forkedFrom[made] = Null \/ e.id \notin Ids(logs[forkedFrom[made]])
      BY <2>1, <3>1 DEF LogInv, CallsAreCopied
    <3>3. Null \notin present
      <4>1. present \subseteq Int
        BY <2>1 DEF LogInv, World, Files
      <4> QED BY <4>1, PiTimingAssumption
    <3>4. e.id \notin Inherited(made)
      BY <3>2, <3>3 DEF Inherited
    <3> QED BY <2>2, <3>1, <3>4
  <2>5. ASSUME NEW g \in counting, made # g PROVE forkedFrom[g] \notin present
    <3>1. g \in present /\ e \in Entries(logs[g]) /\ e.id \notin Inherited(g)
      <4>1. counting \subseteq present
        BY DEF counting
      <4> QED BY <2>2, <4>1
    <3>2. e \in Entries(logs[forkedFrom[g]])
      BY <2>1, <2>5, <3>1 DEF LogInv, CallsAreCopied
    <3> QED BY <3>1, <3>2 DEF Inherited, Ids
  <2> QED BY <2>3, <2>4, <2>5 DEF counting
<1> QED BY <1>1, TimingInvHolds, PTL

---------------------------------------------------------------------------
\* Measurements.

\* The last of some entries is one of them.
LEMMA LastIsOne ==
    ASSUME NEW log, NEW n \in Nat, NEW found \in SUBSET (1..n), found # {}
    PROVE  \E i \in found : LastOf(log, found) = log[i].body
<1> DEFINE Back == {m \in Nat : n - m \in found}
<1>1. Back \in SUBSET Nat /\ Back # {}
  <2>1. PICK i \in found : i \in 1..n
    OBVIOUS
  <2>2. n - i \in Nat /\ n - (n - i) = i
    BY <2>1
  <2> QED BY <2>1, <2>2
<1>2. PICK m \in Back : \A k \in Back : m <= k
  <2> HIDE DEF Back
  <2> QED BY <1>1, LeastOf
<1>3. n - m \in found
  BY <1>2
<1>4. ASSUME NEW j \in found PROVE j <= n - m
  <2>1. n - j \in Nat /\ n - (n - j) = j /\ j \in Nat
    OBVIOUS
  <2>2. m <= n - j
    BY <1>2, <2>1
  <2> QED BY <1>2, <2>1, <2>2
<1>5. \E i \in found : \A j \in found : j <= i
  BY <1>3, <1>4
<1> QED BY <1>5 DEF LastOf

\* The measurement of a message, if it has one, agrees with it.
LEMMA TimingAgrees ==
    ASSUME TimingInv, NEW f \in DOMAIN logs, NEW e \in Entries(logs[f]), IsMessage(e)
    PROVE  /\ TimingOf(logs[f], e) # Null => Agrees(TimingOf(logs[f], e), e.body)
           /\ (\E t \in Entries(logs[f]) : Joins(t, e)) => TimingOf(logs[f], e) # Null
<1> DEFINE log == logs[f]
           named == {i \in DOMAIN log : NamesEntry(log[i], e)}
           same == {i \in DOMAIN log : NamesResponse(log[i], e)}
<1>1. World /\ log \in Seq(LogEntries) /\ Entries(log) \subseteq All /\ e \in All
  BY EntriesAreEntries DEF TimingInv, LogInv
<1>2. Len(log) \in Nat /\ named \in SUBSET (1..Len(log)) /\ same \in SUBSET (1..Len(log))
  BY <1>1
<1>3. TimingOf(log, e) = IF named # {} THEN LastOf(log, named) ELSE IF same # {} THEN LastOf(log, same) ELSE Null
  BY DEF TimingOf
<1>4. \A i \in named \cup same : Agrees(log[i].body, e.body)
  BY <1>1 DEF TimingInv, MeasurementsAgree, Joins, Entries
<1>5. \A i \in named \cup same : log[i].body # Null
  <2>1. ASSUME NEW i \in named \cup same PROVE log[i].body # Null
    <3>1. log[i].body.kind = "timing" /\ log[i] \in All
      BY <1>1 DEF NamesEntry, NamesResponse, Measures, Entries
    <3>2. log[i].body \in Bodies
      BY <1>1, <3>1, EntriesAreEntries
    <3>3. log[i].body \in Timings
      BY <3>1, <3>2 DEF Bodies
    <3> QED BY <3>3, PiTimingAssumption
  <2> QED BY <2>1
<1>6. (\E t \in Entries(log) : Joins(t, e)) => named # {} \/ same # {}
  BY DEF Entries, Joins
<1> HIDE DEF named, same
<1>7. named # {} => \E i \in named : LastOf(log, named) = log[i].body
  BY <1>2, LastIsOne
<1>8. same # {} => \E i \in same : LastOf(log, same) = log[i].body
  BY <1>2, LastIsOne
<1> QED BY <1>3, <1>4, <1>5, <1>6, <1>7, <1>8

\* A request is timed as it was itself, whatever retries, stopped turns, compactions
\* and switches of the extension came before or between, and one that was measured
\* to the end has its measurement: what is pending is always the last attempt, what
\* is ready the message just made, and what is written names no other.
THEOREM TimingIsOwnAlways == PiSpec => []TimingIsOwn
<1>1. TimingInv => TimingIsOwn
  <2> SUFFICES ASSUME TimingInv, NEW f \in present, NEW t \in Turns(f), EntryOf(f, t.id).body.kind = "assistant"
               PROVE  LET e == EntryOf(f, t.id)
                          a == e.body
                      IN  /\ t.ttft \in {Null, a.wait}
                          /\ IF a.own # Null THEN t.duration = Positive(a.own) ELSE t.duration \in {Null, a.span}
                          /\ e.id \in timed /\ a.made = f => t.ttft = a.wait
    BY DEF TimingIsOwn
  <2>1. f \in DOMAIN logs /\ LogInv
    BY DEF TimingInv, LogInv, World, Files
  <2>2. PICK i \in DOMAIN logs[f] : t = TurnAt(logs[f], i)
    BY <2>1, TurnsAreCalls
  <2> DEFINE e == logs[f][i]
             m == TimingOf(logs[f], e)
  <2>3. e \in Entries(logs[f]) /\ EntryOf(f, t.id) = e /\ IsMessage(e)
    <3>1. e \in Entries(logs[f]) /\ t.id = e.id
      BY <2>2, TurnOfEntry DEF Entries
    <3>2. EntryOf(f, t.id) = e
      BY <2>1, <3>1, EntryFound
    <3> QED BY <3>1, <3>2 DEF IsMessage
  <2>4. /\ t.ttft = IF m = Null THEN Null ELSE m.ttft
        /\ t.duration = IF e.body.own # Null THEN Positive(e.body.own) ELSE IF m = Null THEN Null ELSE Window(m)
    BY <2>2, <2>3 DEF TurnAt, IsMessage
  <2>5. m # Null => Agrees(m, e.body)
    BY <2>1, <2>3, TimingAgrees
  <2>6. e.id \in timed /\ e.body.made = f => m # Null
    <3>1. ASSUME e.id \in timed, e.body.made = f PROVE \E x \in Entries(logs[f]) : Joins(x, e)
      <4>1. e \in All
        BY <2>1, <2>3, EntriesAreEntries DEF LogInv
      <4> QED BY <2>3, <3>1, <4>1 DEF TimingInv, TimedAreMeasured
    <3> QED BY <2>1, <2>3, <3>1, TimingAgrees
  <2> HIDE DEF m, e
  <2>7. t.ttft \in {Null, e.body.wait}
    BY <2>4, <2>5 DEF Agrees
  <2>8. e.body.own = Null /\ m # Null => Window(m) \in {Null, e.body.span}
    BY <2>5 DEF Agrees, Window
  <2> QED BY <2>3, <2>4, <2>5, <2>6, <2>7, <2>8 DEF Agrees
<1> QED BY <1>1, TimingInvHolds, PTL

---------------------------------------------------------------------------
\* Prompts.

\* How the prompt of an entry follows from those of the entries before it.
Step(log, p, i) ==
    IF log[i].body.kind = "user" THEN log[i].id
    ELSE IF ParentsOf(log, i, DOMAIN log) = {} THEN Null
    ELSE p[CHOOSE j \in ParentsOf(log, i, DOMAIN log) : TRUE]

\* It needs those before it only.
LEMMA StepLooksBack ==
    ASSUME NEW log, NEW i \in DOMAIN log, NEW p, NEW q, DOMAIN log \subseteq Nat,
           \A j \in DOMAIN log : j < i => p[j] = q[j]
    PROVE  Step(log, p, i) = Step(log, q, i)
<1>1. CASE ParentsOf(log, i, DOMAIN log) = {}
  BY <1>1 DEF Step
<1>2. CASE ParentsOf(log, i, DOMAIN log) # {}
  <2> DEFINE j == CHOOSE j \in ParentsOf(log, i, DOMAIN log) : TRUE
  <2>1. j \in ParentsOf(log, i, DOMAIN log)
    BY <1>2
  <2>2. j \in DOMAIN log /\ j < i
    BY <2>1 DEF ParentsOf
  <2>3. p[j] = q[j]
    BY <2>2
  <2> QED BY <2>3 DEF Step
<1> QED BY <1>1, <1>2

\* So there are prompts that follow so for every entry: for the first ones, and if
\* for the first m then for one more.
LEMMA PromptsExist ==
    ASSUME NEW log, NEW n \in Nat, DOMAIN log = 1..n
    PROVE  \E p : p = [i \in DOMAIN log |-> Step(log, p, i)]
<1> DEFINE Upto(m) == \E p : p = [i \in DOMAIN log |-> p[i]] /\ \A i \in DOMAIN log : i <= m => p[i] = Step(log, p, i)
           Bad == {m \in Nat : ~Upto(m)}
<1>1. Upto(0)
  <2>1. [i \in DOMAIN log |-> Null] = [i \in DOMAIN log |-> [k \in DOMAIN log |-> Null][i]]
    OBVIOUS
  <2>2. \A i \in DOMAIN log : ~(i <= 0)
    OBVIOUS
  <2> QED BY <2>1, <2>2
<1>2. ASSUME NEW m \in Nat, Upto(m) PROVE Upto(m + 1)
  <2>1. PICK p : p = [i \in DOMAIN log |-> p[i]] /\ \A i \in DOMAIN log : i <= m => p[i] = Step(log, p, i)
    BY <1>2
  <2> DEFINE q == [i \in DOMAIN log |-> IF i = m + 1 THEN Step(log, p, i) ELSE p[i]]
  <2>2. \A j \in DOMAIN log : j # m + 1 => q[j] = p[j]
    OBVIOUS
  <2>3. q = [i \in DOMAIN log |-> q[i]]
    OBVIOUS
  <2>4. m + 1 \in DOMAIN log => q[m + 1] = Step(log, p, m + 1)
    OBVIOUS
  <2> HIDE DEF q
  <2>5. ASSUME NEW i \in DOMAIN log, i <= m + 1 PROVE q[i] = Step(log, q, i)
    <3>1. \A j \in DOMAIN log : j < i => p[j] = q[j]
      <4>1. \A j \in DOMAIN log : j < i => j # m + 1
        BY <2>5
      <4> QED BY <2>2, <4>1
    <3>2. Step(log, p, i) = Step(log, q, i)
      <4>1. DOMAIN log \subseteq Nat
        OBVIOUS
      <4> QED BY <3>1, <4>1, StepLooksBack
    <3>3. CASE i = m + 1
      BY <2>4, <3>2, <3>3
    <3>4. CASE i # m + 1
      <4>1. i <= m
        BY <2>5, <3>4
      <4> QED BY <2>1, <2>2, <3>2, <3>4, <4>1
    <3> QED BY <3>3, <3>4
  <2> QED BY <2>3, <2>5
<1>3. Bad = {}
  <2>1. SUFFICES ASSUME Bad # {} PROVE FALSE
    OBVIOUS
  <2>2. PICK m \in Bad : \A k \in Bad : m <= k
    <3>1. Bad \in SUBSET Nat
      OBVIOUS
    <3> HIDE DEF Bad
    <3> QED BY <2>1, <3>1, LeastOf
  <2> HIDE DEF Upto
  <2>3. m \in Nat /\ ~Upto(m) /\ m # 0
    BY <1>1
  <2>4. m - 1 \in Nat /\ m - 1 \notin Bad /\ (m - 1) + 1 = m
    BY <2>2, <2>3
  <2>5. Upto(m - 1)
    BY <2>4
  <2>6. Upto((m - 1) + 1)
    BY <1>2, <2>4, <2>5
  <2> QED BY <2>3, <2>4, <2>6
<1>4. Upto(n)
  <2> HIDE DEF Upto
  <2> QED BY <1>3
<1>5. PICK p : p = [i \in DOMAIN log |-> p[i]] /\ \A i \in DOMAIN log : i <= n => p[i] = Step(log, p, i)
  BY <1>4
<1>6. \A i \in DOMAIN log : p[i] = Step(log, p, i)
  <2>1. \A i \in DOMAIN log : i <= n
    OBVIOUS
  <2> QED BY <1>5, <2>1
<1>7. p = [i \in DOMAIN log |-> Step(log, p, i)]
  <2> DEFINE r == [i \in DOMAIN log |-> Step(log, p, i)]
  <2>1. r = [i \in DOMAIN log |-> p[i]]
    BY <1>6
  <2> QED BY <1>5, <2>1
<1> QED BY <1>7

\* What the engine remembers of the prompts are these.
LEMMA ContextsFollow ==
    ASSUME NEW log, NEW n \in Nat, DOMAIN log = 1..n
    PROVE  \A i \in DOMAIN log : Contexts(log)[i] = Step(log, Contexts(log), i)
<1>1. Contexts(log) = CHOOSE p : p = [i \in DOMAIN log |-> Step(log, p, i)]
  BY DEF Contexts, PromptBy, Step
<1>2. Contexts(log) = [i \in DOMAIN log |-> Step(log, Contexts(log), i)]
  <2> DEFINE P(p) == p = [i \in DOMAIN log |-> Step(log, p, i)]
  <2>1. \E p : P(p)
    BY PromptsExist
  <2>2. P(CHOOSE p : P(p))
    <3> HIDE DEF P
    <3> QED BY <2>1
  <2> QED BY <1>1, <2>2
<1> QED BY <1>2

\* How the prompt of an entry follows from its parent's, by ids.
SaidStep(f, p, id) ==
    IF id = Null THEN Null
    ELSE IF EntryOf(f, id).body.kind = "user" THEN id ELSE p[EntryOf(f, id).parent]

\* The parent of an entry is known by its position.
LEMMA ParentAt ==
    ASSUME LogInv, NEW f \in DOMAIN logs, NEW i \in DOMAIN logs[f]
    PROVE  LET parents == ParentsOf(logs[f], i, DOMAIN logs[f])
           IN  /\ parents = {} <=> logs[f][i].parent = Null
               /\ parents # {} => LET j == CHOOSE j \in parents : TRUE
                                  IN  j \in DOMAIN logs[f] /\ j < i /\ logs[f][j].id = logs[f][i].parent
<1> DEFINE parents == ParentsOf(logs[f], i, DOMAIN logs[f])
           j == CHOOSE j \in parents : TRUE
<1>1. parents # {} => j \in parents
  OBVIOUS
<1>2. parents # {} => j \in DOMAIN logs[f] /\ j < i /\ logs[f][j].id = logs[f][i].parent
  BY <1>1 DEF ParentsOf
<1>3. logs[f][i].parent # Null => parents # {}
  <2>1. ASSUME logs[f][i].parent # Null
        PROVE  \E k \in DOMAIN logs[f] : k < i /\ logs[f][k].id = logs[f][i].parent
    BY <2>1 DEF LogInv, ParentsAreBefore
  <2> QED BY <2>1 DEF ParentsOf
<1>4. logs[f][i].parent = Null => parents = {}
  <2>1. \A k \in DOMAIN logs[f] : logs[f][k].id # Null
    <3>1. \A k \in DOMAIN logs[f] : logs[f][k].id \in Int
      BY EntriesAreEntries DEF LogInv, Entries
    <3> QED BY <3>1, PiTimingAssumption
  <2> QED BY <2>1 DEF ParentsOf
<1> QED BY <1>2, <1>3, <1>4

\* The prompts by position, read by id, follow by ids.
LEMMA SaidExists ==
    ASSUME LogInv, NEW f \in DOMAIN logs
    PROVE  \E p : p = [id \in Ids(logs[f]) \cup {Null} |-> SaidStep(f, p, id)]
<1> DEFINE log == logs[f]
           c == Contexts(log)
           At(id) == CHOOSE i \in DOMAIN log : log[i].id = id
           p == [id \in Ids(log) \cup {Null} |-> IF id = Null THEN Null ELSE c[At(id)]]
<1>1. /\ DOMAIN log = 1..Len(log) /\ Len(log) \in Nat
      /\ \A i \in DOMAIN log : log[i].id \in Nat /\ log[i].id # Null /\ log[i] \in Entries(log)
  <2>1. World /\ log \in Seq(LogEntries)
    BY EntriesAreEntries DEF LogInv
  <2>2. \A i \in DOMAIN log : log[i].id \in Nat /\ log[i] \in Entries(log)
    BY <2>1, EntriesAreEntries DEF Entries
  <2> QED BY <2>1, <2>2, PiTimingAssumption
<1>2. \A i \in DOMAIN log : At(log[i].id) = i
  <2>1. ASSUME NEW i \in DOMAIN log, NEW k \in DOMAIN log, log[i].id = log[k].id PROVE i = k
    <3>1. i \in Nat /\ k \in Nat /\ (i < k \/ k < i \/ i = k)
      BY <1>1
    <3>2. i < k => log[i].id < log[k].id
      BY DEF LogInv, IdsGrow
    <3>3. k < i => log[k].id < log[i].id
      BY DEF LogInv, IdsGrow
    <3> QED BY <1>1, <2>1, <3>1, <3>2, <3>3
  <2> QED BY <2>1
<1>3. \A i \in DOMAIN log : c[i] = Step(log, c, i)
  BY <1>1, ContextsFollow
<1>4. ASSUME NEW id \in Ids(log) \cup {Null} PROVE p[id] = SaidStep(f, p, id)
  <2>1. CASE id = Null
    BY <2>1 DEF SaidStep
  <2>2. CASE id # Null
    <3>1. PICK i \in DOMAIN log : log[i].id = id
      BY <1>4, <2>2 DEF Ids, Entries
    <3>2. EntryOf(f, id) = log[i]
      BY <1>1, <3>1, EntryFound
    <3>3. p[id] = c[i]
      BY <1>2, <2>2, <3>1
    <3> HIDE DEF c, At
    <3>4. CASE log[i].body.kind = "user"
      BY <1>3, <2>2, <3>1, <3>2, <3>3, <3>4 DEF Step, SaidStep
    <3>5. CASE log[i].body.kind # "user"
      <4>1. SaidStep(f, p, id) = p[log[i].parent]
        BY <2>2, <3>2, <3>5 DEF SaidStep
      <4>2. CASE log[i].parent = Null
        <5>1. ParentsOf(log, i, DOMAIN log) = {}
          BY <4>2, ParentAt
        <5>2. c[i] = Null
          BY <1>3, <3>5, <5>1 DEF Step
        <5> QED BY <3>3, <4>1, <4>2, <5>2
      <4>3. CASE log[i].parent # Null
        <5> DEFINE j == CHOOSE j \in ParentsOf(log, i, DOMAIN log) : TRUE
        <5>1. ParentsOf(log, i, DOMAIN log) # {} /\ j \in DOMAIN log /\ log[j].id = log[i].parent
          BY <4>3, ParentAt
        <5>2. c[i] = c[j]
          BY <1>3, <3>5, <5>1 DEF Step
        <5> HIDE DEF j
        <5>3. log[i].parent \in Ids(log)
          BY <5>1 DEF Ids, Entries
        <5>4. p[log[i].parent] = c[j]
          BY <1>2, <4>3, <5>1, <5>3
        <5> QED BY <3>3, <4>1, <5>2, <5>4
      <4> QED BY <4>2, <4>3
    <3> QED BY <3>4, <3>5
  <2> QED BY <2>1, <2>2
<1>5. p = [id \in Ids(log) \cup {Null} |-> SaidStep(f, p, id)]
  <2> DEFINE q == [id \in Ids(log) \cup {Null} |-> SaidStep(f, p, id)]
  <2>1. p = [id \in Ids(log) \cup {Null} |-> p[id]]
    OBVIOUS
  <2> HIDE DEF p
  <2>2. q = [id \in Ids(log) \cup {Null} |-> p[id]]
    BY <1>4
  <2> QED BY <2>1, <2>2
<1> QED BY <1>5

LEMMA SaidFollows ==
    ASSUME LogInv, NEW f \in DOMAIN logs, NEW id \in Ids(logs[f]) \cup {Null}
    PROVE  LastSaid(f)[id] = SaidStep(f, LastSaid(f), id)
<1>1. LastSaid(f) = CHOOSE p : p = [i \in Ids(logs[f]) \cup {Null} |-> SaidStep(f, p, i)]
  BY DEF LastSaid, SaidStep
<1>2. LastSaid(f) = [i \in Ids(logs[f]) \cup {Null} |-> SaidStep(f, LastSaid(f), i)]
  <2> DEFINE P(p) == p = [i \in Ids(logs[f]) \cup {Null} |-> SaidStep(f, p, i)]
  <2>1. \E p : P(p)
    BY SaidExists
  <2>2. P(CHOOSE p : P(p))
    <3> HIDE DEF P
    <3> QED BY <2>1
  <2> QED BY <1>1, <2>2
<1> QED BY <1>2

\* Whatever lies between an entry and its parent, the prompts are the same.
LEMMA PromptsAgree ==
    ASSUME LogInv, NEW f \in DOMAIN logs
    PROVE  \A i \in DOMAIN logs[f] : Contexts(logs[f])[i] = LastSaid(f)[logs[f][i].id]
<1> DEFINE log == logs[f]
           c == Contexts(log)
           s == LastSaid(f)
           Bad == {i \in DOMAIN log : c[i] # s[log[i].id]}
<1>1. /\ DOMAIN log = 1..Len(log) /\ Len(log) \in Nat
      /\ \A i \in DOMAIN log : log[i].id # Null /\ log[i].id \in Ids(log) /\ log[i] \in Entries(log)
  <2>1. World /\ log \in Seq(LogEntries)
    BY EntriesAreEntries DEF LogInv
  <2>2. \A i \in DOMAIN log : log[i].id \in Nat /\ log[i] \in Entries(log)
    BY <2>1, EntriesAreEntries DEF Entries
  <2> QED BY <2>1, <2>2, PiTimingAssumption DEF Ids
<1>2. \A i \in DOMAIN log : c[i] = Step(log, c, i)
  BY <1>1, ContextsFollow
<1>3. \A id \in Ids(log) \cup {Null} : s[id] = SaidStep(f, s, id)
  BY SaidFollows
<1> HIDE DEF c, s
<1>4. SUFFICES ASSUME Bad # {} PROVE FALSE
  BY DEF c, s
<1>5. PICK i \in Bad : \A k \in Bad : i <= k
  <2>1. Bad \in SUBSET Nat
    BY <1>1
  <2> HIDE DEF Bad
  <2> QED BY <1>4, <2>1, LeastOf
<1>6. EntryOf(f, log[i].id) = log[i]
  BY <1>1, EntryFound
<1>7. c[i] = Step(log, c, i) /\ s[log[i].id] = SaidStep(f, s, log[i].id) /\ log[i].id # Null
  BY <1>1, <1>2, <1>3
<1>8. CASE log[i].body.kind = "user"
  BY <1>6, <1>7, <1>8 DEF Step, SaidStep
<1>9. CASE log[i].body.kind # "user" /\ log[i].parent = Null
  <2>1. c[i] = Null
    <3>1. ParentsOf(log, i, DOMAIN log) = {}
      BY <1>9, ParentAt
    <3> QED BY <1>7, <1>9, <3>1 DEF Step
  <2>2. s[log[i].id] = s[Null] /\ s[Null] = Null
    BY <1>3, <1>6, <1>7, <1>9 DEF SaidStep
  <2> QED BY <2>1, <2>2
<1>10. CASE log[i].body.kind # "user" /\ log[i].parent # Null
  <2> DEFINE j == CHOOSE j \in ParentsOf(log, i, DOMAIN log) : TRUE
  <2>1. ParentsOf(log, i, DOMAIN log) # {} /\ j \in DOMAIN log /\ j < i /\ log[j].id = log[i].parent
    BY <1>10, ParentAt
  <2>2. c[i] = c[j]
    BY <1>7, <1>10, <2>1 DEF Step
  <2> HIDE DEF j
  <2>3. s[log[i].id] = s[log[j].id]
    BY <1>6, <1>7, <1>10, <2>1 DEF SaidStep
  <2>4. c[j] = s[log[j].id]
    BY <1>1, <1>5, <2>1
  <2> QED BY <2>2, <2>3, <2>4
<1> QED BY <1>8, <1>9, <1>10

\* A call answers the last prompt on its own branch, though prompts of other branches
\* and measurements of other calls lie between them in the file: a parent is always
\* before its entry, and every entry is remembered.
THEOREM PromptIsOfBranchAlways == PiSpec => []PromptIsOfBranch
<1>1. TimingInv => PromptIsOfBranch
  <2> SUFFICES ASSUME TimingInv, NEW f \in present, NEW t \in Turns(f) PROVE t.prompt = LastSaid(f)[t.id]
    BY DEF PromptIsOfBranch
  <2>1. f \in DOMAIN logs /\ LogInv
    BY DEF TimingInv, LogInv, World, Files
  <2>2. PICK i \in DOMAIN logs[f] : t = TurnAt(logs[f], i)
    BY <2>1, TurnsAreCalls
  <2>3. t.prompt = Contexts(logs[f])[i] /\ t.id = logs[f][i].id
    BY <2>2 DEF TurnAt
  <2> QED BY <2>1, <2>3, PromptsAgree
<1> QED BY <1>1, TimingInvHolds, PTL

====
