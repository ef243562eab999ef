----------------------------- MODULE MongoStore -----------------------------
(***************************************************************************)
(* MongoDbStore (mongodb_store.rs): without multi-document transactions a  *)
(* rotation deletes its source and then inserts the replacement (stage     *)
(* "insert"), so it is not the indivisible step of the store contract.     *)
(* The TTL index is Expire.                                                *)
(***************************************************************************)
EXTENDS ServerStore

Rotates(h) == handle[h].origin \notin {NoId, handle[h].id}

\* insert_one for a fresh session, replace_one for a stored one.
Write(h) == ~Rotates(h) /\ Put(h)

\* The bug of not looking at deleted_count.
DeletionNotCounted(h) == TRUE

\* deleted_count of the source's delete_one is not 0.
SourceDeleted(h) == handle[h].origin \in records

\* delete_one of the source found it.  The session is now in nobody's hands
\* but this future's.
DeleteSource(h) ==
    /\ handle[h].at = "write" /\ Rotates(h) /\ SourceDeleted(h)
    /\ records' = records \ {handle[h].origin}
    /\ gone' = gone \cup {handle[h].origin}
    /\ Move(h, "insert")
    /\ UNCHANGED <<family, maker, flying, lineage, ended, deleted, revoked>>

InsertReplacement(h) ==
    /\ handle[h].at = "insert"
    /\ records' = records \cup {handle[h].id}
    /\ Move(h, "wrote")
    /\ UNCHANGED <<family, maker, flying, history>>

\* deleted_count or matched_count says that the record is missing.
Reject(h) ==
    /\ Rotates(h) => ~SourceDeleted(h)
    /\ RejectPut(h)

InsertRequest(h) == [op |-> "insert", source |-> NoId, id |-> handle[h].id]

\* The future is dropped or fails at one of its awaits.
Abandon(h) ==
    \/ AbandonWrite(h, "write",
         IF Rotates(h) THEN {DeleteRequest(handle[h].origin)}
         ELSE IF CanCreate(h) THEN {InsertRequest(h)} ELSE {})
    \/ AbandonWrite(h, "insert", {InsertRequest(h)})
    \/ AbandonWrite(h, "wrote",
         IF FamilyOf(h).destroy THEN {DeleteRequest(handle[h].id)} ELSE {})

MongoNext ==
    \/ \E h \in Handles :
         \/ ApplicationStep(h)
         \/ \E f \in Families, i \in Ids : Load(h, f, i)
         \/ Write(h) \/ DeleteSource(h) \/ InsertReplacement(h)
         \/ Reject(h) \/ Abandon(h)
         \/ CompleteSave(h) \/ Compensate(h)
         \/ CompleteDelete(h) \/ AbandonDelete(h)
    \/ \E ids \in SUBSET records : ClearStore(ids)
    \/ \E i \in Ids : Expire(i)
    \/ \E r \in flying : LandLate(r)

-----------------------------------------------------------------------------

\* The price of two writes is bounded: a session whose old ID is revoked has
\* a stored descendant, was ended, is between the two writes of a running
\* rotation, or was last held by a family that is marked uncertain.
LossIsFenced ==
    \A j \in gone :
        \/ lineage[j] \in ended
        \/ \E i \in records : lineage[i] = lineage[j]
        \/ \E h \in Handles : handle[h].at = "insert" /\ lineage[handle[h].id] = lineage[j]
        \/ \E i \in gone, f \in Families :
             lineage[i] = lineage[j] /\ family[f].uncertain /\ family[f].persisted_id = i
=============================================================================
