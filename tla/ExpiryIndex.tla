---------------------------- MODULE ExpiryIndex -----------------------------
(***************************************************************************)
(* MemoryStore's records, their ordered expiry index and batched cleanup   *)
(* (MemoryState and cleanup_batch in memory_store.rs).                     *)
(*                                                                         *)
(* A cleanup reads the clock, selects candidates under the read lock, and  *)
(* removes them chunk by chunk, each chunk under a write lock of its own:  *)
(* requests renew, delete and clear in between, the clock moves on, and    *)
(* several cleanups can run at once.  Every critical section is one step.  *)
(***************************************************************************)
EXTENDS Integers, FiniteSets

CONSTANTS
    Ids,               \* session IDs; the index orders them, so integers
    MaxTime,           \* bound on the clock
    Never,             \* the expiry of a permanent session
    Absent,            \* no record
    Cleaners,          \* concurrent calls of cleanup_batch
    Limits,            \* the limits they are called with (1 to 10,000)
    CleanupBatchSize   \* CLEANUP_BATCH_SIZE: 256 in the code

ASSUME IdsAssumption == Ids \subseteq Int
ASSUME TimeAssumption == MaxTime \in Nat /\ Never \notin Int /\ Absent \notin Int \cup {Never}
ASSUME LimitsAssumption == Limits \subseteq Nat \ {0}
ASSUME BatchAssumption == CleanupBatchSize \in Nat \ {0}

VARIABLES
    clock,     \* OffsetDateTime::now_utc
    records,   \* MemoryState.records: the expiry of each record
    expiries,  \* MemoryState.expiries: the ordered index
    cleaner    \* per call: the time it started and the candidates still to do

vars == <<clock, records, expiries, cleaner>>

Times == 0 .. MaxTime
Entries == Times \X Ids
Present(i) == records[i] # Absent

\* One call of cleanup_batch: running with nothing to do yet, it waits for
\* the read lock.
Calls == [running : BOOLEAN, now : Times, todo : SUBSET Entries]
Idle == [running |-> FALSE, now |-> 0, todo |-> {}]

TypeOK ==
    /\ clock \in Times
    /\ records \in [Ids -> Times \cup {Never, Absent}]
    /\ expiries \in SUBSET Entries
    /\ cleaner \in [Cleaners -> Calls]

Init ==
    /\ clock = 0
    /\ records = [i \in Ids |-> Absent]
    /\ expiries = {}
    /\ cleaner = [c \in Cleaners |-> Idle]

-----------------------------------------------------------------------------

\* MemoryState::remove takes the index entries of the removed records along.
EntriesOf(ids) == {<<records[i], i>> : i \in {j \in ids : Present(j)}}

\* The bug of inserting without removing what was there.
OldEntryStays(i) == {}

\* The index entry that an insertion takes out.
OldEntry(i) == EntriesOf({i})

\* The bug of indexing permanent sessions.
IndexedAlways(i, e) == {<<e, i>>}

\* The index entry that an insertion puts in.
NewEntry(i, e) == IF e = Never THEN {} ELSE {<<e, i>>}

\* MemoryState::insert: a replaced record's entry goes first.
Insert(i, e) ==
    /\ records' = [records EXCEPT ![i] = e]
    /\ expiries' = (expiries \ OldEntry(i)) \cup NewEntry(i, e)
    /\ UNCHANGED <<clock, cleaner>>

\* MemoryState::remove, of a session or of the source of a rotation.
Remove(i) ==
    /\ Present(i)
    /\ records' = [records EXCEPT ![i] = Absent]
    /\ expiries' = expiries \ EntriesOf({i})
    /\ UNCHANGED <<clock, cleaner>>

Clear ==
    /\ records' = [i \in Ids |-> Absent]
    /\ expiries' = {}
    /\ UNCHANGED <<clock, cleaner>>

Tick ==
    /\ clock < MaxTime
    /\ clock' = clock + 1
    /\ UNCHANGED <<records, expiries, cleaner>>

\* The bug of an index that is ordered by ID alone.
BeforeById(x, y) == x[2] < y[2]

\* The order of the BTreeSet.
Before(x, y) == x[1] < y[1] \/ (x[1] = y[1] /\ x[2] < y[2])

\* The first n entries of a set in that order.
First(n, S) == {x \in S : Cardinality({y \in S : Before(y, x)}) < n}

\* expired_candidates looks at the first limit entries and stops at the
\* first that has not expired.
ExpiredCandidates(now, limit) == {x \in First(limit, expiries) : x[1] < now}

\* cleanup_batch reads the clock, later takes the read lock and selects.
Start(c) ==
    /\ ~cleaner[c].running
    /\ cleaner' = [cleaner EXCEPT ![c] = [running |-> TRUE, now |-> clock, todo |-> {}]]
    /\ UNCHANGED <<clock, records, expiries>>

Select(c, limit) ==
    LET candidates == ExpiredCandidates(cleaner[c].now, limit) IN
    /\ cleaner[c].running /\ cleaner[c].todo = {}
    /\ cleaner' = [cleaner EXCEPT ![c] =
         IF candidates = {} THEN Idle ELSE [@ EXCEPT !.todo = candidates]]
    /\ UNCHANGED <<clock, records, expiries>>

\* The bug of trusting the selection.
StillThere(i, now) == Present(i)

\* The candidate still has to go: its record may have been renewed since.
StillExpired(i, now) == records[i] \in Times /\ records[i] < now

\* remove_expired_candidates: one chunk under one write lock.
RemoveChunk(c) ==
    LET chunk == First(CleanupBatchSize, cleaner[c].todo)
        expired == {i \in Ids : /\ \E x \in chunk : x[2] = i
                                /\ StillExpired(i, cleaner[c].now)}
        rest == cleaner[c].todo \ chunk
    IN
    /\ cleaner[c].todo # {}
    /\ records' = [i \in Ids |-> IF i \in expired THEN Absent ELSE records[i]]
    /\ expiries' = expiries \ EntriesOf(expired)
    /\ cleaner' = [cleaner EXCEPT ![c] = IF rest = {} THEN Idle
                                         ELSE [@ EXCEPT !.todo = rest]]
    /\ UNCHANGED clock

\* The future of a cleanup is dropped while it waits for a lock.
Cancel(c) ==
    /\ cleaner[c].running
    /\ cleaner' = [cleaner EXCEPT ![c] = Idle]
    /\ UNCHANGED <<clock, records, expiries>>

Next ==
    \/ \E i \in Ids, e \in Times \cup {Never} : Insert(i, e)
    \/ \E i \in Ids : Remove(i)
    \/ Clear
    \/ Tick
    \/ \E c \in Cleaners : \/ Start(c) \/ RemoveChunk(c) \/ Cancel(c)
                           \/ \E limit \in Limits : Select(c, limit)

Spec == Init /\ [][Next]_vars

\* The application calls cleanup_batch again and again, and does not drop
\* the future of every call before it gets its locks.
Fairness ==
    \A c \in Cleaners :
        /\ WF_vars(Start(c))
        /\ SF_vars(\E limit \in Limits : Select(c, limit))
        /\ SF_vars(RemoveChunk(c))

FairSpec == Spec /\ Fairness

-----------------------------------------------------------------------------

\* The index holds exactly one entry for each record that can expire, with
\* its current expiry: none is missing, which would never be cleaned up, and
\* none is stale, which would leak and hold up every later cleanup.
IndexExact == expiries = {x \in Entries : records[x[2]] = x[1]}

\* Cleanup never removes a session that is permanent or has not expired by
\* now, however long ago it was selected and whatever happened since.
CleanupRemovesOnlyExpired ==
    [][\A c \in Cleaners : RemoveChunk(c) =>
         \A i \in Ids : Present(i) /\ ~Present(i)' =>
             records[i] \in Times /\ records[i] < clock]_vars

\* A session is stored whose expiry has already passed.
InsertExpired == \E i \in Ids, e \in Times : e < clock /\ Insert(i, e)

\* Repeated bounded batches reach every expired record: none stays for ever
\* behind the limit, unless sessions that had expired before they were stored
\* keep arriving in front of it.
CleanupReachesAll ==
    <>[][~InsertExpired]_vars =>
        \A i \in Ids : StillExpired(i, clock) ~> ~StillExpired(i, clock)
=============================================================================
