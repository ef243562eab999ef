------------------------------ MODULE SqlStore ------------------------------
(***************************************************************************)
(* The SQL stores (sqlx_store.rs): insertion and update are one statement, *)
(* a rotation is a transaction of two.  After its DELETE has found the     *)
(* source (stage "insert"), the transaction holds that row; statements on  *)
(* the row wait until it commits or rolls back, and readers see the old    *)
(* state.  Once a statement can run it sees the committed state.           *)
(***************************************************************************)
EXTENDS ServerStore

\* The bug of running the DELETE outside the transaction's locks.
NoRows == {}

\* Rows that an open transaction has deleted.
LockedRows == {handle[h].origin : h \in {g \in Handles : handle[g].at = "insert"}}

Rotates(h) == handle[h].origin \notin {NoId, handle[h].id}

\* A statement of h on row i runs when no transaction holds the row.
Unlocked(i) == i \notin LockedRows

\* INSERT, or UPDATE ... WHERE id, on its own.
Execute(h) == ~Rotates(h) /\ Unlocked(handle[h].id) /\ Put(h)

\* The bug of not looking at rows_affected of the DELETE.
SourceNotCounted(h) == TRUE

\* rows_affected of the DELETE in the transaction is 1.
SourceFound(h) == handle[h].origin \in records

\* BEGIN and the DELETE of the source.
DeleteSource(h) ==
    /\ handle[h].at = "write" /\ Rotates(h)
    /\ Unlocked(handle[h].origin) /\ SourceFound(h)
    /\ Move(h, "insert")
    /\ UNCHANGED <<family, maker, records, flying, history>>

\* INSERT of the replacement and COMMIT.  IDs are never drawn twice, so the
\* INSERT meets no duplicate key.
Commit(h) ==
    /\ handle[h].at = "insert"
    /\ Replace(handle[h].origin, handle[h].id)
    /\ Move(h, "wrote")
    /\ UNCHANGED <<family, maker, flying, lineage, deleted, revoked>>

\* rows_affected is not 1, or an INSERT meets a duplicate key.
Reject(h) ==
    /\ Unlocked(Replaced(h))
    /\ ~(Rotates(h) /\ SourceFound(h))
    /\ RejectPut(h)

\* The future is dropped: the open transaction rolls back, unless its COMMIT
\* is already on the way.  A single INSERT or the compensating DELETE may be.
Abandon(h) ==
    \/ ~(handle[h].at = "write" /\ Rotates(h)) /\ AbandonSave(h)
    \/ Rotates(h) /\ AbandonWrite(h, "write", {})
    \/ AbandonWrite(h, "insert", {SaveRequest(h)})

\* A late request waits for locked rows too.
LandUnlocked(r) ==
    /\ {r.id, r.source} \cap LockedRows = {}
    /\ LandLate(r)

SqlNext ==
    \/ \E h \in Handles :
         \/ ApplicationStep(h)
         \/ \E f \in Families, i \in Ids : Load(h, f, i)
         \/ Execute(h) \/ DeleteSource(h) \/ Commit(h) \/ Reject(h) \/ Abandon(h)
         \/ CompleteSave(h)
         \/ Unlocked(handle[h].id) /\ Compensate(h)
         \/ Unlocked(handle[h].target) /\ CompleteDelete(h)
         \/ AbandonDelete(h)
    \/ LockedRows = {} /\ ClearStore(Ids)
    \/ \E i \in Ids : Unlocked(i) /\ Expire(i)
    \/ \E r \in flying : LandUnlocked(r)

-----------------------------------------------------------------------------

\* The transaction is one indivisible step of the contract: until COMMIT the
\* save is still waiting for its answer.
ContractHandle ==
    [h \in Handles |->
        IF handle[h].at = "insert" THEN [handle[h] EXCEPT !.at = "write"] ELSE handle[h]]
Contract == INSTANCE ServerStore WITH handle <- ContractHandle

\* The SQL stores implement the store contract.
ImplementsContract == Contract!Spec
=============================================================================
