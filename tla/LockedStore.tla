----------------------------- MODULE LockedStore -----------------------------
(***************************************************************************)
(* A store outside this crate with one lock of its own, which it takes     *)
(* for every operation and never yields while it holds it.  It uses the    *)
(* older helpers of session.rs and session_save.rs that know nothing of    *)
(* the lifecycle lock: prepare_save, validate_current and complete inside  *)
(* the lock for a save, prepare_delete inside it for a deletion.  When     *)
(* complete returns no cookie the store removes what it has written.       *)
(*                                                                         *)
(* In stages "write" and "wrote" a save holds the lock; a deletion holds   *)
(* it in "dlock", before and after it has its target, and "delete".        *)
(***************************************************************************)
EXTENDS ServerStore

VARIABLE owner  \* who has the store's lock

Free == owner = NoHandle
Unlock == owner' = NoHandle

\* The bug of looking for rotations only.
NotSuperseded(h) == ~Superseded(h)

\* validate_current
ValidCurrent(h) == ~FamilyOf(h).destroy /\ ~Superseded(h)

\* The lock, and validate_current.
LockForSave(h) ==
    /\ handle[h].at = "lock" /\ Free /\ ValidCurrent(h)
    /\ Move(h, "write") /\ owner' = h
    /\ UNCHANGED <<family, maker, records, flying, history>>

\* validate_current fails, the store drops the save and unlocks.
RefuseCurrent(h) ==
    /\ handle[h].at = "lock" /\ Free /\ ~ValidCurrent(h)
    /\ Discard(h)
    /\ UNCHANGED <<family, maker, records, flying, history, owner>>

\* The bug of a complete that does not look at is_destroyed.
ConfirmsAny(h) == TRUE

\* complete acknowledges the save and returns the cookie.
Confirms(h) == ~FamilyOf(h).destroy

Complete(h) ==
    /\ handle[h].at = "wrote" /\ Confirms(h)
    /\ family' = [family EXCEPT ![handle[h].family].persisted_id = MarkPersisted(h)]
    /\ Discard(h) /\ Unlock
    /\ UNCHANGED <<maker, records, flying, history>>

\* complete returns None: destruction was requested in the meantime.
Undo(h) ==
    /\ handle[h].at = "wrote" /\ ~Confirms(h)
    /\ EndRecords({handle[h].id})
    /\ Discard(h) /\ Unlock
    /\ UNCHANGED <<family, maker, flying, lineage, deleted, revoked>>

LockForDelete(h) ==
    /\ handle[h].at = "live" /\ Free
    /\ Move(h, "dlock") /\ owner' = h
    /\ UNCHANGED <<family, maker, records, flying, history>>

\* prepare_delete selects the ID and marks destruction.
PrepareDelete(h) ==
    /\ handle[h].at = "dlock" /\ handle[h].target = NoId
    /\ handle' = [handle EXCEPT ![h].target = DeleteTarget(h)]
    /\ family' = [family EXCEPT ![handle[h].family].destroy = TRUE]
    /\ UNCHANGED <<maker, records, flying, history, owner>>

\* It sends the ID it has, and nothing looks at the session again.
SendDelete(h) ==
    /\ handle[h].at = "dlock" /\ handle[h].target # NoId
    /\ Move(h, "delete")
    /\ UNCHANGED <<family, maker, records, flying, history, owner>>

\* What goes on while anybody has the lock.
UnlockedStep(h) ==
    \/ \E f \in Families, i \in Ids : New(h, f, i)
    \/ \E g \in Handles : Clone(h, g)
    \/ \E i \in Ids : Regenerate(h, i)
    \/ Destroy(h) \/ BeginSave(h) \/ RefuseSave(h)
    \/ owner # h /\ DropHandle(h)

LockedNext ==
    \/ \E h \in Handles :
         \/ UnlockedStep(h) /\ UNCHANGED owner
         \/ Free /\ UNCHANGED owner /\ \E f \in Families, i \in Ids : Load(h, f, i)
         \/ LockForSave(h) \/ RefuseCurrent(h)
         \/ Put(h) /\ UNCHANGED owner
         \/ RejectPut(h) /\ Unlock
         \/ Complete(h) \/ Undo(h)
         \/ LockForDelete(h) \/ PrepareDelete(h) \/ SendDelete(h)
         \/ CompleteDelete(h) /\ Unlock
    \/ /\ Free /\ UNCHANGED owner
       /\ ClearStore(Ids) \/ \E i \in Ids : Expire(i)

-----------------------------------------------------------------------------

\* The store's lock stands for the lifecycle lock of the family it works on;
\* a deletion is under way once destruction was marked.
ContractHandle ==
    [h \in Handles |->
        IF handle[h].at # "dlock" THEN handle[h]
        ELSE [handle[h] EXCEPT !.at = IF handle[h].target = NoId THEN "live" ELSE "dlock",
                               !.target = NoId]]
ContractFamily ==
    [f \in Families |->
        IF \E h \in Handles : /\ owner = h /\ handle[h].family = f
                              /\ handle[h].at \in {"write", "wrote", "delete"}
        THEN [family[f] EXCEPT !.holder = owner] ELSE family[f]]
Contract == INSTANCE ServerStore WITH handle <- ContractHandle, family <- ContractFamily
=============================================================================
