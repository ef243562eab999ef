---------------------------- MODULE StoredExpiry -----------------------------
(***************************************************************************)
(* How exactly the stores keep an expiry (sqlx_store.rs, redis_store.rs,   *)
(* mongodb_store.rs, session.rs): the life of one record, from the request *)
(* that creates it to its removal.                                         *)
(*                                                                         *)
(* The serialized session holds its expiry to the nanosecond, here a tick  *)
(* of the clock.  Beside it a backend keeps a coarser deadline: SQL a      *)
(* column in whole seconds, MongoDB a date in milliseconds, Redis a time   *)
(* to live in milliseconds that counts from the arrival of the request.    *)
(* Applications, backends and cleanups read the same clock, but at         *)
(* different moments, and use what they read later.                        *)
(***************************************************************************)
EXTENDS Integers

CONSTANTS
    Savers,          \* handles that save this session
    TicksPerMilli, MillisPerSecond,
    None,            \* no expiry, no deadline
    Horizon          \* bound of the clock and of the expiries chosen

Second == MillisPerSecond * TicksPerMilli

ASSUME ScaleAssumption ==
    TicksPerMilli \in Nat \ {0} /\ MillisPerSecond \in Nat \ {0, 1}
ASSUME NoneAssumption == None \notin Nat
ASSUME HorizonAssumption == Horizon \in Nat

VARIABLES
    backend,  \* the kind of store, fixed from the start
    clock,
    record,   \* the stored record, with the delay of the request that wrote it
    save,     \* what each saver has sent
    cleanup,  \* the cleanup statement of a SQL store
    load      \* a load_session

vars == <<backend, clock, record, save, cleanup, load>>

Times == {None} \cup Nat

RecordStates == [life : {"unborn", "claimed", "stored", "gone"},
                 expiry : Times, deadline : Times, delay : Nat]
SaveStates == [op : {"idle", "insert", "rotate", "update", "discard"},
               expiry : Times, sent : Times, started : Nat]
CleanupStates == [at : {"idle", "bound", "chosen"}, now : Nat]
LoadStates == [at : {"idle", "asked", "found", "loaded", "missed"},
               now : Nat, expiry : Times]

TypeOK ==
    /\ backend \in {"sql", "redis", "mongo"}
    /\ clock \in Nat
    /\ record \in RecordStates
    /\ save \in [Savers -> SaveStates]
    /\ cleanup \in CleanupStates
    /\ load \in LoadStates

Idle == [op |-> "idle", expiry |-> None, sent |-> None, started |-> 0]
NoCleanup == [at |-> "idle", now |-> 0]
NoLoad == [at |-> "idle", now |-> 0, expiry |-> None]

Init ==
    /\ backend \in {"sql", "redis", "mongo"}
    /\ clock = 0
    /\ record = [life |-> "unborn", expiry |-> None, deadline |-> None, delay |-> 0]
    /\ save = [s \in Savers |-> Idle]
    /\ cleanup = NoCleanup
    /\ load = NoLoad

-----------------------------------------------------------------------------
(* Conversions.                                                            *)

CeilDiv(a, b) == (a + b - 1) \div b

\* OffsetDateTime::unix_timestamp
UnixSeconds(t) == t \div Second

\* The clock of Redis and of MongoDB's TTL monitor.
UnixMillis(t) == t \div TicksPerMilli

\* The bug of rounding a date down like a SQL column.
ExpiryMillisDown(e) == UnixMillis(e)

\* expiry_datetime: whole seconds, and the rest rounded up.
ExpiryMillis(e) ==
    UnixSeconds(e) * MillisPerSecond + CeilDiv(e % Second, TicksPerMilli)

\* The bug of rounding a column up like a date.
ExpirySecondsUp(e) == CeilDiv(e, Second)

\* expiry_unix
ExpirySeconds(e) == UnixSeconds(e)

\* The bug of a time to live that can be zero.
TtlMillisOrZero(ticks) == CeilDiv(ticks, TicksPerMilli)

\* ttl_millis: rounded up, and never zero.
TtlMillis(ticks) ==
    LET millis == CeilDiv(ticks, TicksPerMilli) IN IF millis = 0 THEN 1 ELSE millis

\* Session::is_expired
Expired(e) == e # None /\ e < clock

\* What a request carries beside the session.  The rotation script takes a
\* time to live of zero for none.
Sent(op, e) ==
    IF e = None THEN IF backend = "redis" /\ op = "rotate" THEN 0 ELSE None
    ELSE IF backend = "sql" THEN ExpirySeconds(e)
    ELSE IF backend = "mongo" THEN ExpiryMillis(e)
    ELSE TtlMillis(e - clock)

\* What the backend makes of it when the request arrives.
Deadline(op, sent) ==
    IF backend # "redis" THEN sent
    ELSE IF sent = None \/ (op = "rotate" /\ sent = 0) THEN None
    ELSE UnixMillis(clock) + sent

\* The record may be removed for its age: WHERE expires < now in SQL, a key
\* past its expiry in Redis, a date reached in MongoDB.
Purgeable ==
    /\ record.life = "stored" /\ record.deadline # None
    /\ \/ backend = "sql" /\ record.deadline < UnixSeconds(clock)
       \/ backend = "redis" /\ record.deadline < UnixMillis(clock)
       \/ backend = "mongo" /\ record.deadline <= UnixMillis(clock)

\* Redis hides a key past its expiry, the others show what is there.
Present == record.life = "stored" /\ ~(backend = "redis" /\ Purgeable)

-----------------------------------------------------------------------------
(* Saves: an ID is created at most once, by the first save of a session or *)
(* by the rotation that drew it, and then updated.                         *)

Creates(op) == op \in {"insert", "rotate"}

\* The bug of computing a time to live whatever the expiry.
DiscardsNothing(e) == FALSE

\* Redis removes an expired session instead of storing it.
Discards(e) == backend = "redis" /\ Expired(e)

\* store_session converts the expiry of its snapshot.
SendSave(s, op, e) ==
    /\ save[s].op = "idle"
    /\ op \in {"insert", "rotate", "update"}
    /\ record.life \in IF Creates(op) THEN {"unborn"} ELSE {"stored", "gone"}
    /\ record' = IF Creates(op) THEN [record EXCEPT !.life = "claimed"] ELSE record
    /\ save' = [save EXCEPT ![s] =
         IF Discards(e)
         THEN [Idle EXCEPT !.op = "discard"]
         ELSE [op |-> op, expiry |-> e, sent |-> Sent(op, e), started |-> clock]]
    /\ UNCHANGED <<backend, clock, cleanup, load>>

\* The request arrives: an insertion stores, an update needs the record.
ExecuteSave(s) ==
    /\ save[s].op \in {"insert", "rotate", "update"}
    /\ record' = IF Creates(save[s].op) \/ Present
                 THEN [life |-> "stored", expiry |-> save[s].expiry,
                       deadline |-> Deadline(save[s].op, save[s].sent),
                       delay |-> clock - save[s].started]
                 ELSE record
    /\ save' = [save EXCEPT ![s] = Idle]
    /\ UNCHANGED <<backend, clock, cleanup, load>>

NoRecord == [life |-> "gone", expiry |-> None, deadline |-> None, delay |-> 0]

\* DEL of an expired session.
ExecuteDiscard(s) ==
    /\ save[s].op = "discard"
    /\ record' = IF record.life = "stored" THEN NoRecord ELSE record
    /\ save' = [save EXCEPT ![s] = Idle]
    /\ UNCHANGED <<backend, clock, cleanup, load>>

\* The request is lost.
LoseSave(s) ==
    /\ save[s].op # "idle"
    /\ save' = [save EXCEPT ![s] = Idle]
    /\ UNCHANGED <<backend, clock, record, cleanup, load>>

\* destroy_session, clear_store, or a rotation to another ID.
Remove ==
    /\ record.life = "stored"
    /\ record' = NoRecord
    /\ UNCHANGED <<backend, clock, save, cleanup, load>>

-----------------------------------------------------------------------------
(* Expiry.                                                                 *)

\* Redis expires the key, or MongoDB's TTL monitor finds the document.
Sweep ==
    /\ backend # "sql" /\ Purgeable
    /\ record' = NoRecord
    /\ UNCHANGED <<backend, clock, save, cleanup, load>>

\* The expiry column lies before the time that the cleanup is bound to.
Stale == record.life = "stored" /\ record.deadline # None /\ record.deadline < cleanup.now

\* cleanup_batch binds the time, ...
BindCleanup ==
    /\ backend = "sql" /\ cleanup.at = "idle"
    /\ cleanup' = [at |-> "bound", now |-> UnixSeconds(clock)]
    /\ UNCHANGED <<backend, clock, record, save, load>>

\* ... its subquery chooses the rows ...
SelectStale ==
    /\ cleanup.at = "bound"
    /\ cleanup' = IF Stale THEN [cleanup EXCEPT !.at = "chosen"] ELSE NoCleanup
    /\ UNCHANGED <<backend, clock, record, save, load>>

\* The bug of deleting the rows that the subquery chose as they are now.
RemoveChosen == record' = IF record.life = "stored" THEN NoRecord ELSE record

\* The condition is repeated outside the subquery: PostgreSQL evaluates it
\* again on a row that changed after the snapshot.
RemoveStale == record' = IF Stale THEN NoRecord ELSE record

\* ... and the DELETE removes them.  SQLite and MySQL admit no change between.
DeleteStale ==
    /\ cleanup.at = "chosen"
    /\ RemoveStale
    /\ cleanup' = NoCleanup
    /\ UNCHANGED <<backend, clock, save, load>>

-----------------------------------------------------------------------------
(* Loads.                                                                  *)

\* The SQL stores bind the time of the load.
SendLoad ==
    /\ load.at \in {"idle", "loaded", "missed"}
    /\ load' = [at |-> "asked", now |-> UnixSeconds(clock), expiry |-> None]
    /\ UNCHANGED <<backend, clock, record, save, cleanup>>

\* The bug of leaving out the second in which the session expires.
ReturnedBefore(now) ==
    Present /\ (backend = "sql" => record.deadline = None \/ record.deadline > now)

\* The backend returns the record; SQL asks for expires IS NULL OR expires >= now.
Returned(now) ==
    Present /\ (backend = "sql" => record.deadline = None \/ record.deadline >= now)

ExecuteLoad ==
    /\ load.at = "asked"
    /\ load' = IF Returned(load.now)
               THEN [load EXCEPT !.at = "found", !.expiry = record.expiry]
               ELSE [NoLoad EXCEPT !.at = "missed"]
    /\ UNCHANGED <<backend, clock, record, save, cleanup>>

\* validate_loaded rejects an expired session by its exact expiry.
ValidateLoad ==
    /\ load.at = "found"
    /\ load' = [NoLoad EXCEPT !.at = IF Expired(load.expiry) THEN "missed" ELSE "loaded"]
    /\ UNCHANGED <<backend, clock, record, save, cleanup>>

Tick ==
    /\ clock < Horizon
    /\ clock' = clock + 1
    /\ UNCHANGED <<backend, record, save, cleanup, load>>

Next ==
    \/ \E s \in Savers :
         \/ \E op \in {"insert", "rotate", "update"}, e \in {None} \cup 0..Horizon :
               SendSave(s, op, e)
         \/ ExecuteSave(s) \/ ExecuteDiscard(s) \/ LoseSave(s)
    \/ Remove \/ Sweep
    \/ BindCleanup \/ SelectStale \/ DeleteStale
    \/ SendLoad \/ ExecuteLoad \/ ValidateLoad
    \/ Tick

Spec == Init /\ [][Next]_vars

-----------------------------------------------------------------------------

\* The exact expiry has passed, as is_expired sees it.  MongoDB's TTL monitor
\* alone takes the very instant of the expiry for passed.
Outlived(e) == Expired(e) \/ (backend = "mongo" /\ e = clock)

\* Rounding never shortens a session: a record becomes removable for its age
\* only when its exact expiry has passed, however the deadline was rounded and
\* however long the request took.
DeadlineNotEarly == Purgeable => Outlived(record.expiry)

\* A session without expiry is kept without deadline, and one with an expiry
\* is never kept for ever: no rounded time to live means "none".
DeadlineIffExpiry ==
    record.life = "stored" => (record.deadline = None <=> record.expiry = None)

\* Nor does rounding keep a record much longer: the backend may remove it a
\* second after its expiry, counted from the arrival of the request in Redis.
RetentionBounded ==
    /\ record.life = "stored" /\ record.expiry # None
    /\ clock >= record.expiry + record.delay + Second
    => Purgeable

\* Cleanups, TTL indexes and time to live never remove a session that was
\* renewed, at whatever point of the cleanup the renewal arrives.
RemovesOnlyExpired ==
    [][(Sweep \/ DeleteStale) /\ record' # record => Outlived(record.expiry)]_vars

\* A load finds nothing only if there is no record or its exact expiry has
\* passed, though it compares rounded times that were read earlier.
LoadsMissOnlyExpired ==
    [][load.at = "asked" /\ load'.at = "missed"
       => record.life # "stored" \/ Expired(record.expiry)]_vars
=============================================================================
