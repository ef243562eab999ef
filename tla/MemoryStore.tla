---------------------------- MODULE MemoryStore -----------------------------
(***************************************************************************)
(* MemoryStore (memory_store.rs): all records behind one asynchronous      *)
(* RwLock, taken after the lifecycle lock.  The critical sections contain  *)
(* no await, so a future is never dropped inside one and no request        *)
(* outlives its future; but other threads run meanwhile, and can destroy   *)
(* the session between the insertion and the check that follows it.        *)
(* Expiry order and cleanup batches are the subject of ExpiryIndex.        *)
(***************************************************************************)
EXTENDS ServerStore

VARIABLE writer   \* the handle inside store_session's critical section

MemoryInit == Init /\ writer = NoHandle

\* The identity is read again under the store lock.
CurrentOrigin(h) ==
    IF handle[h].origin = NoId THEN NoId ELSE FamilyOf(h).persisted_id

\* The bug of not looking for the source's record.
RefusedUnlessCollision(h) ==
    \/ handle[h].origin # NoId /\ OriginConflict(h)
    \/ FamilyOf(h).destroy
    \/ handle[h].origin # handle[h].id /\ handle[h].id \in records

\* SessionConflict under the store lock.
Refused(h) ==
    \/ handle[h].origin # NoId /\ OriginConflict(h)
    \/ FamilyOf(h).destroy
    \/ ~Accepts(CurrentOrigin(h), handle[h].id)

\* state.remove(old_id) and state.insert(id), with the store locked.
InsertLocked(h) ==
    /\ handle[h].at = "write" /\ writer = NoHandle /\ ~Refused(h)
    /\ Replace(CurrentOrigin(h), handle[h].id)
    /\ Move(h, "wrote")
    /\ writer' = h
    /\ UNCHANGED <<family, maker, flying, lineage, deleted, revoked>>

RefuseLocked(h) ==
    /\ handle[h].at = "write" /\ writer = NoHandle /\ Refused(h)
    /\ ReleaseWrite(h, FALSE)
    /\ Discard(h)
    /\ UNCHANGED <<maker, records, flying, history, writer>>

\* write.finish and what follows it, up to the release of both locks.
FinishLocked(h) ==
    /\ writer = h
    /\ CompleteSave(h) \/ Compensate(h)
    /\ writer' = NoHandle

\* Steps that wait for the store lock and hold it for one step.
WithStoreLock(h) ==
    \/ \E f \in Families, i \in Ids : Load(h, f, i)
    \/ CompleteDelete(h)

MemoryNext ==
    \/ \E h \in Handles :
         \/ /\ \/ ApplicationStep(h)
               \/ AbandonWrite(h, "write", {}) \/ AbandonDelete(h)
            /\ UNCHANGED writer
         \/ InsertLocked(h) \/ RefuseLocked(h) \/ FinishLocked(h)
         \/ writer = NoHandle /\ WithStoreLock(h) /\ UNCHANGED writer
    \/ writer = NoHandle /\ ClearStore(Ids) /\ UNCHANGED writer
    \/ \E i \in Ids : writer = NoHandle /\ Expire(i) /\ UNCHANGED writer
=============================================================================
