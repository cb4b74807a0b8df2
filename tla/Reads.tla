---- MODULE Reads ----
(***************************************************************************)
(* The discipline the dashboard applies to each kind of read (App.tsx       *)
(* refreshOverview, refreshList, refreshSession).  A read is a record from  *)
(* its request to its settling: data is None until the engine answers, then *)
(* what it answered, which may reach the browser any time later; current    *)
(* says that its request id still equals the counter of its kind; awaited,  *)
(* that a price update waits for its outcome.                               *)
(***************************************************************************)
CONSTANT None

Superseded(rs) == {[r EXCEPT !.current = FALSE] : r \in rs}
Joinable(rs, key) == {r \in rs : r.current /\ r.key = key}
Request(key) == [key |-> key, current |-> TRUE, awaited |-> FALSE, data |-> None]

RefreshedBroken(rs, key, force, awaited) ==   \* the request counter is not advanced
    LET read == IF ~force /\ Joinable(rs, key) # {} THEN rs ELSE rs \cup {Request(key)}
    IN  {[r EXCEPT !.awaited = @ \/ (awaited /\ r.current)] : r \in read}

\* Join the read under way, or start one, which takes the currency of the others.
Refreshed(rs, key, force, awaited) ==
    LET read == IF ~force /\ Joinable(rs, key) # {} THEN rs
                ELSE Superseded(rs) \cup {Request(key)}
    IN  {[r EXCEPT !.awaited = @ \/ (awaited /\ r.current)] : r \in read}

Answered(rs, r, data) == (rs \ {r}) \cup {[r EXCEPT !.data = data]}

====
