------------------------------ MODULE SqlClear -------------------------------
(***************************************************************************)
(* clear_store of SqlxPostgresStore (sqlx_store.rs): DELETE FROM table as  *)
(* PostgreSQL executes it at its default isolation, READ COMMITTED.  The   *)
(* statement works on the rows of its snapshot.  It locks them one by one, *)
(* waits for a transaction that holds one and skips the row if that        *)
(* transaction removes it; nothing of it is visible before it ends.        *)
(* Statements on a row it has locked wait for it.  When its caller gives   *)
(* up, the server may yet finish it ("lost").                              *)
(***************************************************************************)
EXTENDS SqlStore

VARIABLE clear  \* the clear_store that is running

clearVars == <<vars, clear>>

ClearStates == [at : {"idle", "delete", "lost", "done"},
                start : SUBSET Ids,   \* the rows of its snapshot
                rows : SUBSET Ids,    \* ... that it has still to visit
                locked : SUBSET Ids]  \* ... that it has deleted

NoClear == [at |-> "idle", start |-> {}, rows |-> {}, locked |-> {}]

ClearInit == Init /\ clear = NoClear

\* The server executes the statement.
ClearRuns == clear.at \in {"delete", "lost"}

\* DELETE FROM takes its snapshot: the committed rows.
StartClear ==
    /\ ~ClearRuns
    /\ clear' = [at |-> "delete", start |-> records, rows |-> records, locked |-> {}]
    /\ UNCHANGED vars

\* The bug of skipping the rows that a transaction holds.
Skips(i) == TRUE

\* A row that a transaction holds is waited for.
Visits(i) == Unlocked(i)

\* It deletes the next row, unless the row is gone.
DeleteRow(i) ==
    /\ ClearRuns /\ i \in clear.rows /\ Visits(i)
    /\ clear' = [clear EXCEPT !.rows = @ \ {i},
                              !.locked = @ \cup (({i} \cap records) \ LockedRows)]
    /\ UNCHANGED vars

\* Its implicit transaction commits and clear_store returns Ok.
EndClear ==
    /\ clear.at = "delete" /\ clear.rows = {}
    /\ ClearStore(clear.locked)
    /\ clear' = [NoClear EXCEPT !.at = "done", !.start = clear.start]

\* It fails and rolls back; or its future is dropped, and the server goes on
\* until it finishes the statement or notices that the client is gone.
AbandonClear ==
    /\ ClearRuns
    /\ clear' \in {NoClear, [clear EXCEPT !.at = "lost"]}
    /\ UNCHANGED vars

\* A statement without a caller commits.
EndLostClear ==
    /\ clear.at = "lost" /\ clear.rows = {}
    /\ ClearStore(clear.locked)
    /\ clear' = NoClear

\* The bug of statements that do not see the locks of a clear_store.
IgnoresClear(i) == TRUE

\* The row has not been deleted by a clear_store that runs.
Free(i) == i \notin clear.locked

\* Statements of the other calls.  Those that only touch new rows, or end a
\* transaction, meet no lock.
Statement(h) ==
    \/ ApplicationStep(h)
    \/ \E f \in Families, i \in Ids : Load(h, f, i)
    \/ Free(Replaced(h)) /\ (Execute(h) \/ DeleteSource(h) \/ Reject(h))
    \/ Commit(h) \/ Abandon(h)
    \/ CompleteSave(h)
    \/ Unlocked(handle[h].id) /\ Free(handle[h].id) /\ Compensate(h)
    \/ Unlocked(handle[h].target) /\ Free(handle[h].target) /\ CompleteDelete(h)
    \/ AbandonDelete(h)

ClearNext ==
    \/ /\ \/ \E h \in Handles : Statement(h)
          \/ \E i \in Ids : Unlocked(i) /\ Free(i) /\ Expire(i)
          \/ \E r \in flying : {r.id, r.source} \cap clear.locked = {} /\ LandUnlocked(r)
       /\ UNCHANGED clear
    \/ StartClear \/ (\E i \in Ids : DeleteRow(i)) \/ EndClear
    \/ AbandonClear \/ EndLostClear

ClearSpec == ClearInit /\ [][ClearNext]_clearVars

-----------------------------------------------------------------------------

\* When clear_store has returned Ok, no ID of its snapshot is stored, nor
\* ever again, though rotations were under way and rolled back or committed.
ClearIsThorough == clear.at = "done" => clear.start \cap records = {}

\* What session_store.rs says of clear_store: it destroys all sessions.
ClearDestroysAll ==
    [][EndClear => \A i \in records', j \in clear.start : lineage[i] # lineage[j]]_clearVars
=============================================================================
