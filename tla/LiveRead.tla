---- MODULE LiveRead ----
(***************************************************************************)
(* How the engine reads one session file (packages/engine/src/ingest.ts):   *)
(* a file written in the last two minutes is live and is read on from where *)
(* the last read stopped, with the ledger of that read; any other read is   *)
(* of the whole file, and a historical one is answered from a cache in the  *)
(* database.  Another program writes the file at any time: the engine stats *)
(* the file, stats it again for the cache key, and reads it, in that order. *)
(* Lines are sequences of symbols: the beginning of an object, the brace    *)
(* that closes it, a newline.  FullRead says what a read should return.     *)
(*                                                                         *)
(* Reading in chunks is one step: it ends with the content at its last      *)
(* readSync.  Compressed files, always read whole, are left out.            *)
(***************************************************************************)
EXTENDS Integers, Lines

CONSTANTS
    Sessions,   \* what a session_meta may say: <<id, is a subagent's>>
    MaxChanges, \* bound: what happens to the file
    MaxOthers,  \* bound: rate changes, restarts, pruning
    MaxRace     \* bound: symbols written while the file is being read

ASSUME LiveReadAssumption ==
    /\ {MaxChanges, MaxOthers, MaxRace} \subseteq Nat
    /\ \A s \in Sessions : s[2] \in BOOLEAN

VARIABLES
    content,  \* the file: a sequence of symbols
    parsed,   \* what a read has just returned, None after any other step
    swapped,  \* the file was replaced or cut short while it was being read
    ino,      \* inode of the file at the path, negative once it is gone
    stamp,    \* its modification time
    live,     \* modified in the last two minutes
    card,     \* the rates in force
    st,       \* what statSync returned to the read under way, None: no read
    how,      \* who reads: "append", "whole", "reprice"
    held,     \* liveReadStates.get(filePath), or None
    cache,    \* rows of the database: [key, snap, card]
    priced,   \* the card parsed was priced with, 0: none
    torn,     \* history: the file was cut short under its inode since held was read
    repriced, \* history: refreshPricing has run since the rates last changed
    changes,  \* history: how much has happened to the file
    others    \* history: how much has happened elsewhere

file == <<content, ino, stamp, live>>
call == <<st, how>>
answer == <<parsed, priced>>
bounds == <<changes, others>>
vars == <<file, card, call, held, cache, answer, swapped, torn, repriced, bounds>>

Exists == ino > 0
Silent == parsed' = None /\ priced' = 0
Idle == st' = None /\ how' = "whole" /\ swapped' = FALSE
ToFile == changes < MaxChanges /\ changes' = changes + 1 /\ UNCHANGED others
Elsewhere == others < MaxOthers /\ others' = others + 1 /\ UNCHANGED changes
Swap == swapped' = (st # None)
ReadsOn == st.live /\ how = "append"

Heads == {Turn, Native} \cup {<<"meta", s[1], s[2]>> : s \in Sessions}
Ids == {s[1] : s \in Sessions}
Builders == [id : Ids \cup {None}, sub : BOOLEAN, fed : Seq(Heads), card : {1, 2}]

ASSUME NoneAssumption == None \notin Builders   \* no ledger builder is null

Init ==
    /\ content = <<>> /\ ino = 1 /\ stamp = 1 /\ live = TRUE
    /\ card = 1
    /\ st = None /\ how = "whole"
    /\ held = None /\ cache = {}
    /\ parsed = None /\ priced = 0
    /\ swapped = FALSE /\ torn = FALSE /\ repriced = TRUE
    /\ changes = 0 /\ others = 0

---------------------------------------------------------------------------
\* The program that writes the file.

\* A line is begun on a fresh line only and closed at most once.
Writable(sym) ==
    LET before == IF content = <<>> THEN NL ELSE Last(content)
    IN  \/ sym \in Heads /\ before = NL
        \/ sym = End /\ before \in Heads
        \/ sym = NL

\* A file cut short under its inode is seen so before it has grown past the size
\* the engine knows: session files are append-only (ingest.ts IngestOptions).
Write(sym) ==
    /\ ToFile
    /\ Exists /\ Writable(sym)
    /\ st # None => Len(content) < st.size + MaxRace
    /\ (torn /\ held # None) => Len(content) < held.size
    /\ content' = Append(content, sym)
    /\ stamp' = stamp + 1 /\ live' = TRUE
    /\ Silent
    /\ UNCHANGED <<ino, card, call, held, cache, swapped, torn, repriced>>

Touch ==
    /\ ToFile
    /\ Exists
    /\ stamp' = stamp + 1 /\ live' = TRUE
    /\ Silent
    /\ UNCHANGED <<content, ino, card, call, held, cache, swapped, torn, repriced>>

Age ==
    /\ ToFile
    /\ live' = FALSE
    /\ Silent
    /\ UNCHANGED <<content, ino, stamp, card, call, held, cache, swapped, torn, repriced>>

\* Cut short in place: the same inode with less in it.
Truncate ==
    /\ ToFile
    /\ content # <<>>
    /\ content' = <<>> /\ stamp' = stamp + 1 /\ live' = TRUE
    /\ Swap
    /\ torn' = (held # None \/ st # None)
    /\ Silent
    /\ UNCHANGED <<ino, card, call, held, cache, repriced>>

\* Another file takes the path: a new one, or a copy of the beginning of the old.
Replace ==
    /\ ToFile
    /\ \E n \in 0..Len(content) : content' = SubSeq(content, 1, n)
    /\ ino' = IF Exists THEN ino + 1 ELSE 1 - ino
    /\ stamp' = stamp + 1 /\ live' = TRUE
    /\ Swap
    /\ Silent
    /\ UNCHANGED <<card, call, held, cache, torn, repriced>>

Unlink ==
    /\ ToFile
    /\ Exists
    /\ content' = <<>> /\ ino' = -ino
    /\ Swap
    /\ Silent
    /\ UNCHANGED <<stamp, live, card, call, held, cache, torn, repriced>>

---------------------------------------------------------------------------
\* The incremental reader (readJsonlFileDetailed).

\* consumeCompleteLines, for one more symbol of the file.
Consumed(r, sym) ==
    IF sym # NL THEN [r EXCEPT !.rest = Append(@, sym)]
    ELSE [rest   |-> <<>>,
          offset |-> r.offset + Len(r.rest) + 1,
          events |-> IF Valid(r.rest) THEN Append(r.events, r.rest[1]) ELSE r.events,
          errors |-> IF r.rest = <<>> \/ Valid(r.rest) THEN r.errors
                     ELSE Append(r.errors, r.offset)]

WithTailBroken(r) ==   \* the offset is not moved past the tail taken
    IF ~Valid(r.rest) THEN r
    ELSE [r EXCEPT !.rest = <<>>, !.events = Append(@, r.rest[1])]

\* A complete object needs no newline; anything else waits for the next write.
WithTail(r) ==
    IF ~Valid(r.rest) THEN r
    ELSE [r EXCEPT !.rest = <<>>, !.offset = @ + Len(r.rest), !.events = Append(@, r.rest[1])]

ReadFrom(offset, rest) ==
    LET start == [rest |-> rest, offset |-> offset, events |-> <<>>, errors |-> <<>>]
        bytes == SubSeq(content, offset + Len(rest) + 1, Len(content))
        upTo[n \in 0..Len(bytes)] == IF n = 0 THEN start ELSE Consumed(upTo[n - 1], bytes[n])
    IN  WithTail(upTo[Len(bytes)])

---------------------------------------------------------------------------
\* ingestFile

\* The ledger builder goes by the last session_meta it was fed.
Identity(builder) ==
    LET metas == Metas(builder.fed)
    IN  [id |-> IF metas = {} THEN builder.id ELSE builder.fed[Max(metas)][2], sub |-> builder.sub]

NewBuilder(events) ==
    [id |-> Info(events).id, sub |-> Info(events).sub, fed |-> events, card |-> card]

Snapshot(r, builder) ==
    [events |-> r.events, errors |-> r.errors,
     ledger |-> IF builder = None THEN LedgerOf(<<Native>>)
                ELSE [id |-> builder.id, sub |-> builder.sub, fed |-> builder.fed]]

CanAppendBroken ==   \* a cut file with a new time is read on from the old offset
    /\ held # None
    /\ held.ino = st.ino
    /\ st.size >= held.offset + Len(held.rest) \/ st.size > held.size

CanAppend ==
    /\ held # None
    /\ held.ino = st.ino
    /\ st.size >= held.offset + Len(held.rest)
    /\ st.size > held.size \/ st.stamp = held.stamp

KeyBroken(stat) == [ino |-> stat.ino, size |-> stat.size, stamp |-> stat.stamp, card |-> 1]   \* whatever the rates

\* cacheKey: the file's identity, and the rates in force.
Key(stat) == [ino |-> stat.ino, size |-> stat.size, stamp |-> stat.stamp, card |-> card]

Return(snap, rates) ==
    /\ parsed' = snap /\ priced' = rates
    /\ Idle
    /\ UNCHANGED <<file, card>>

\* statSync, cacheKey (which stats the file again: the two are one step here)
\* and, for a historical file, readCache.
Begin(by) ==
    /\ st = None /\ Exists
    /\ by = "reprice" => ~repriced
    /\ LET stat == [ino |-> ino, size |-> Len(content), stamp |-> stamp, live |-> live]
           rows == {row \in cache : ~live /\ row.key = Key(stat)}
       IN  \/ /\ \E row \in rows : Return(row.snap, row.card)
              /\ repriced' = (repriced \/ by = "reprice")
           \/ /\ rows = {}
              /\ st' = stat /\ how' = by /\ swapped' = FALSE
              /\ Silent
              /\ UNCHANGED <<file, card, repriced>>
    /\ UNCHANGED <<held, cache, torn, bounds>>

\* The file is gone when it is to be statted or opened: the call throws.
Fail ==
    /\ ~Exists
    /\ held' = IF st = None \/ ReadsOn THEN held ELSE None
    /\ Idle /\ Silent
    /\ UNCHANGED <<file, card, cache, torn, repriced, bounds>>

\* The ledger of the last read goes on if it is still about this session.
Builder(append, events, new) ==
    IF ~Codex(events) THEN None
    ELSE IF append /\ held.builder # None /\ Identity(held.builder) = Info(events)
    THEN [held.builder EXCEPT !.fed = @ \o new]
    ELSE NewBuilder(events)

\* A live file, read for the watcher or a refresh.
ReadOn ==
    /\ st # None /\ Exists /\ ReadsOn
    /\ LET new == IF CanAppend THEN ReadFrom(held.offset, held.rest) ELSE ReadFrom(0, <<>>)
           all == IF CanAppend THEN [new EXCEPT !.events = held.events \o @,
                                                !.errors = held.errors \o @]
                  ELSE new
           builder == Builder(CanAppend, all.events, new.events)
       IN  /\ held' = [ino |-> st.ino, size |-> st.size, stamp |-> st.stamp,
                       offset |-> all.offset, rest |-> all.rest,
                       events |-> all.events, errors |-> all.errors, builder |-> builder]
           /\ Return(Snapshot(all, builder), IF builder = None THEN card ELSE builder.card)
    /\ torn' = (torn /\ CanAppend)
    /\ UNCHANGED <<cache, repriced, bounds>>

ReadWhole ==
    /\ st # None /\ Exists /\ ~ReadsOn
    /\ LET all == ReadFrom(0, <<>>)
           snap == Snapshot(all, IF Codex(all.events) THEN NewBuilder(all.events) ELSE None)
       IN  /\ Return(snap, card)
           /\ cache' = IF st.live THEN cache
                       ELSE {row \in cache : row.key # Key(st)}
                            \cup {[key |-> Key(st), snap |-> snap, card |-> card]}
    /\ held' = None /\ torn' = FALSE
    /\ repriced' = (repriced \/ how = "reprice")
    /\ UNCHANGED bounds

---------------------------------------------------------------------------
\* clearLiveReadState, when the store drops the path, and
\* pruneInactiveLiveReadStates, when the file is gone or no longer live.
Forget ==
    /\ Elsewhere
    /\ st = None /\ held # None
    /\ held' = None /\ torn' = FALSE
    /\ Silent
    /\ UNCHANGED <<file, card, call, cache, swapped, repriced>>

\* pruneStaleCache keeps the rows of the file as it is now.
PruneCache ==
    /\ Elsewhere
    /\ st = None
    /\ cache' = {row \in cache : Exists /\ row.key = Key([ino |-> ino, size |-> Len(content), stamp |-> stamp])}
    /\ Silent
    /\ UNCHANGED <<file, card, call, held, swapped, torn, repriced>>

\* The process stops and is started again: the database is what it keeps.
Restart ==
    /\ Elsewhere
    /\ held' = None /\ torn' = FALSE
    /\ Idle /\ Silent
    /\ UNCHANGED <<file, card, cache, repriced>>

\* A price update writes the rates, or puts the old ones back.
EditRates ==
    /\ Elsewhere
    /\ st = None
    /\ card' = 3 - card /\ repriced' = FALSE
    /\ Silent
    /\ UNCHANGED <<file, call, held, cache, swapped, torn>>

Next ==
    \/ \E sym \in Heads \cup {End, NL} : Write(sym)
    \/ Touch \/ Age \/ Truncate \/ Replace \/ Unlink
    \/ \E by \in {"append", "whole", "reprice"} : Begin(by)
    \/ Fail \/ ReadOn \/ ReadWhole
    \/ Forget \/ PruneCache \/ Restart \/ EditRates

Spec == Init /\ [][Next]_vars

---------------------------------------------------------------------------
\* What the engine holds of a file is the parse of its beginning, up to where
\* the next read goes on, and the ledger is the one a whole read would build:
\* whatever writes, replacements, failures and other reads came in between
\* (ingest.ts liveReadStates).  It fails for no file but one cut short in place.
HeldFits ==
    held # None /\ held.ino = ino /\ ~torn =>
        LET size == held.offset + Len(held.rest)
            whole == Full(SubSeq(content, 1, size))
        IN  /\ size <= Len(content)
            /\ held.events = whole.events /\ held.errors = whole.errors
            /\ NL \notin Range(held.rest)
            /\ SubSeq(content, held.offset + 1, size) = held.rest
            /\ held.builder # None =>
                   LedgerOf(held.events) = [id  |-> held.builder.id, sub |-> held.builder.sub,
                                            fed |-> held.builder.fed]

\* Whatever was kept of earlier reads, in memory or in the cache, a read answers
\* as one of the whole file would (ingestFile, refreshPricing's reads).
Whole == INSTANCE FullRead WITH text <- content, answer <- parsed, excused <- swapped
Promise == Whole!Spec

\* After refreshPricing no read returns old prices: not the cache's, not those
\* of a ledger builder, which keeps the card it was made with.
PricedCurrent == repriced /\ parsed # None => priced = card

====
