---- MODULE PiTiming ----
(***************************************************************************)
(* The extension that times pi's requests (integrations/pi/request-timing.ts) *)
(* inside pi, as its handlers see pi: turns of one request, tried again where *)
(* the provider fails, and then of tools; requests for compaction besides;    *)
(* sessions that are resumed, branched and forked.  An entry of a session's    *)
(* log has an id, a parent and a body; copied to a fork it keeps them all.     *)
(***************************************************************************)
EXTENDS Integers, Sequences

CONSTANTS
    Null,
    Builds,       \* what a pi and its provider record: duration, response id, entry at turn_end
    MaxEntries, MaxTime,
    MaxDetours    \* bounds: entries, time, and what is not a turn that runs to its end

\* What is held of a request under way, of one that has ended and of a message,
\* and the data that is written: null is none of it.
Times == Int \cup {Null}
Names == Nat \cup {Null}
Pendings == [t0 : Nat, first : Times]
Readies == [t0 : Nat, first : Times, ended : Nat, response : Names, own : Times]
Messages == [id : Nat, response : Names]
Timings == [kind : {"timing"}, message : Names, response : Names, ttft : Times, own : Times, span : Times]

ASSUME PiTimingAssumption ==
    /\ Null \notin Int \cup Pendings \cup Readies \cup Messages \cup Timings
    /\ Builds \subseteq [duration : BOOLEAN, response : BOOLEAN, entry : BOOLEAN]
    /\ {MaxEntries, MaxTime, MaxDetours} \subseteq Nat

VARIABLES
    now,
    logs, forkedFrom, present,   \* the files, the file each was forked from, and those that still exist
    file, leaf, next,            \* the file in use, the entry it goes on from, the next id
    phase, began, sent, first,   \* the turn: its first attempt, its last one and the first token of that
    message,                     \* the id and the response id of the entry it made
    enabled, pending, ready,     \* the extension's variables
    build,                       \* which of them this is
    on, timed,                   \* whether that attempt is to have a measurement, the entries that must have one
    detours                      \* what MaxDetours bounds

files == <<forkedFrom, present, file, build>>
turn == <<began, sent, first, message>>
extension == <<enabled, pending, ready>>
piVars == <<now, logs, files, leaf, next, phase, turn, extension, on, timed, detours>>

PiInit ==
    /\ now = 0
    /\ logs = << <<>> >> /\ forkedFrom = <<Null>> /\ present = {1}
    /\ file = 1 /\ leaf = Null /\ next = 1
    /\ phase = "idle" /\ began = Null /\ sent = Null /\ first = Null /\ message = Null
    /\ enabled = TRUE /\ pending = Null /\ ready = Null   \* PI_REQUEST_TIMING
    /\ on = FALSE /\ timed = {}
    /\ build \in Builds
    /\ detours = 0

\* appendEntry: each entry goes on from the one before it, while there is room.
Placed(i, body) == [id |-> next + i - 1, parent |-> IF i = 1 THEN leaf ELSE next + i - 2, body |-> body]
Logged(bodies) ==
    /\ next + Len(bodies) <= MaxEntries + 1
    /\ logs' = [logs EXCEPT ![file] = @ \o [i \in 1..Len(bodies) |-> Placed(i, bodies[i])]]
    /\ next' = next + Len(bodies)
    /\ leaf' = IF bodies = <<>> THEN leaf ELSE next + Len(bodies) - 1

---------------------------------------------------------------------------
\* The extension's handlers.

\* write: what is ready, for an entry or for none.
Entry(id) == <<[kind |-> "timing", message |-> id, response |-> ready.response, ttft |-> ready.first,
                own |-> ready.own, span |-> ready.ended - ready.t0]>>
Write(id) == IF ready = Null THEN <<>> ELSE Entry(id)

BeforeProviderRequestBroken ==   \* the clock runs on through a retry
    /\ pending' = IF ~enabled THEN Null ELSE IF pending # Null THEN pending ELSE [t0 |-> now, first |-> Null]
    /\ ready' = IF enabled THEN Null ELSE ready
    /\ UNCHANGED enabled

\* A retry restarts the clock; what was ready has been written.
BeforeProviderRequest ==
    /\ pending' = IF enabled THEN [t0 |-> now, first |-> Null] ELSE Null
    /\ ready' = IF enabled THEN Null ELSE ready
    /\ UNCHANGED enabled

WrittenBefore == IF enabled THEN Write(Null) ELSE <<>>

OnTurnStart == ready' = Null /\ pending' = Null /\ UNCHANGED enabled

OnMessageUpdate ==
    /\ pending' = IF pending = Null \/ (pending # Null /\ pending.first # Null) THEN pending
                  ELSE [pending EXCEPT !.first = now - pending.t0]
    /\ UNCHANGED <<enabled, ready>>

OnMessageEnd(response, own) ==
    /\ ready' = IF pending = Null THEN ready
                ELSE [t0 |-> pending.t0, first |-> pending.first, ended |-> now, response |-> response, own |-> own]
    /\ pending' = Null
    /\ UNCHANGED enabled

OnTurnEnd == ready' = Null /\ pending' = Null /\ UNCHANGED enabled

---------------------------------------------------------------------------
\* What pi does, with the handler of the event it emits.

Detour == detours < MaxDetours /\ detours' = detours + 1

Idle == began' = Null /\ sent' = Null /\ first' = Null /\ message' = Null /\ on' = FALSE

\* Time passes while a request is under way.
Tick == phase \in {"waiting", "streaming"} /\ now < MaxTime /\ now' = now + 1
        /\ UNCHANGED <<logs, files, leaf, next, phase, turn, extension, on, timed, detours>>

\* A turn begins with what the user says, or goes on from the tools of the last.
TurnStart(said) ==
    /\ phase = "idle"
    /\ phase' = "turn"
    /\ OnTurnStart
    /\ Logged(IF said THEN <<[kind |-> "user"]>> ELSE <<>>)
    /\ UNCHANGED <<now, files, turn, on, timed, detours>>

\* The first attempt or another.
PiRequest ==
    /\ phase \in {"turn", "waiting", "streaming"}
    /\ phase' = "waiting" /\ sent' = now /\ first' = Null /\ on' = enabled
    /\ began' = IF began = Null THEN now ELSE began
    /\ BeforeProviderRequest
    /\ Logged(WrittenBefore)
    /\ UNCHANGED <<now, files, message, timed, detours>>

MessageUpdate ==
    /\ phase \in {"waiting", "streaming"}
    /\ phase' = "streaming" /\ first' = IF first = Null THEN now ELSE first
    /\ OnMessageUpdate
    /\ UNCHANGED <<now, logs, files, leaf, next, began, sent, message, on, timed, detours>>

\* A failed request may end without a token; not every provider names its
\* response, not every pi logs the duration.
MessageEnd ==
    LET own == IF build.duration THEN now - began ELSE Null
        response == IF build.response THEN next ELSE Null
    IN  /\ phase \in {"waiting", "streaming"}
        /\ phase' = "ended" /\ message' = [id |-> next, response |-> response]
        /\ began' = Null /\ sent' = Null /\ first' = Null
        /\ OnMessageEnd(response, own)
        /\ Logged(<<[kind |-> "assistant", response |-> response, own |-> own, made |-> file,
                     wait |-> IF first = Null THEN Null ELSE first - sent, span |-> now - sent]>>)
        /\ UNCHANGED <<now, files, on, timed, detours>>

\* After the tools; the event names the entry, unless pi is an old one.
TurnEnd ==
    /\ phase = "ended"
    /\ phase' = "idle" /\ Idle
    /\ timed' = IF on /\ (message.response # Null \/ build.entry) THEN timed \cup {message.id} ELSE timed
    /\ Logged(Write(IF build.entry THEN message.id ELSE Null))
    /\ OnTurnEnd
    /\ UNCHANGED <<now, files, detours>>

\* The user stops a turn: pi emits nothing more of it.
Abort ==
    /\ phase # "idle" /\ phase' = "idle" /\ Idle
    /\ IF phase = "turn" THEN detours' = detours ELSE Detour
    /\ UNCHANGED <<now, logs, files, leaf, next, extension, timed>>

\* A request that makes no message, between turns or while tools run.
Compact ==
    /\ phase \in {"idle", "ended"} /\ Detour
    /\ on' = (on /\ ~(phase = "ended" /\ message.response = Null))
    /\ BeforeProviderRequest
    /\ Logged(WrittenBefore \o <<[kind |-> "compaction", made |-> file]>>)
    /\ UNCHANGED <<now, files, phase, turn, timed>>

\* The command /request-timing
Toggle ==
    /\ Detour /\ enabled' = ~enabled
    /\ UNCHANGED <<now, logs, files, leaf, next, phase, turn, pending, ready, on, timed>>

\* pi ends, with session_shutdown or killed, and is started again on the session.
Restart(clean) ==
    /\ Detour
    /\ Logged(IF clean THEN Write(Null) ELSE <<>>)
    /\ phase' = "idle" /\ Idle
    /\ enabled' = TRUE /\ pending' = Null /\ ready' = Null
    /\ UNCHANGED <<now, files, timed>>

\* The session goes on from an earlier entry.
Branch(id) ==
    /\ phase = "idle" /\ Detour /\ id # leaf /\ leaf' = id
    /\ UNCHANGED <<now, logs, files, next, phase, turn, extension, on, timed>>

\* The session goes on in another file that begins with the first entries of this one.
Fork(n) ==
    /\ phase = "idle" /\ Detour
    /\ logs' = Append(logs, SubSeq(logs[file], 1, n))
    /\ forkedFrom' = Append(forkedFrom, file) /\ file' = Len(logs) + 1 /\ present' = present \cup {file'}
    /\ leaf' = logs[file][n].id
    /\ UNCHANGED <<now, build, next, phase, turn, extension, on, timed>>

Delete(f) ==
    /\ f # file /\ present' = present \ {f}
    /\ UNCHANGED <<now, logs, build, forkedFrom, file, leaf, next, phase, turn, extension, on, timed, detours>>

PiNext ==
    \/ Tick \/ PiRequest \/ MessageUpdate \/ MessageEnd \/ TurnEnd \/ Abort \/ Compact \/ Toggle
    \/ \E b \in BOOLEAN : TurnStart(b) \/ Restart(b)
    \/ \E n \in DOMAIN logs[file] : Branch(logs[file][n].id) \/ Fork(n)
    \/ \E f \in present : Delete(f)

PiSpec == PiInit /\ [][PiNext]_piVars

====
