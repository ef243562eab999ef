---------------------------- MODULE ServerStore -----------------------------
(***************************************************************************)
(* The contract of a server-side store, as SessionSave::origin and the     *)
(* SessionStore trait state it: a fresh session inserts without            *)
(* overwriting, a loaded one updates only while its record exists, and a   *)
(* rotation replaces its source by the new ID in one indivisible step.     *)
(***************************************************************************)
EXTENDS Session

\* The request that a save in stage "write" sends.
SaveRequest(h) ==
    [op |-> IF handle[h].origin = NoId THEN "insert" ELSE "rotate",
     source |-> handle[h].origin, id |-> handle[h].id]

\* The bug of an upsert: an update creates a record that is gone.
AcceptsUpsert(source, id) ==
    /\ source \notin {NoId, id} => source \in records
    /\ source # id => id \notin records

\* The bug of a rotation that does not require its source.
AcceptsAnySource(source, id) ==
    /\ source = id => source \in records
    /\ source # id => id \notin records

\* The backend's condition for storing id in the place of source.
Accepts(source, id) ==
    /\ source # NoId => source \in records
    /\ source # id => id \notin records

\* The bug of a rotation that removes the source and stores nothing.
ReplaceByNothing(source, id) ==
    /\ records' = (records \ {source}) \cup (IF source \in {NoId, id} THEN {id} ELSE {})
    /\ gone' = gone \cup ({source} \ {id, NoId})
    /\ UNCHANGED ended

\* The record source, if any, becomes the record id.
Replace(source, id) ==
    /\ records' = (records \ {source}) \cup {id}
    /\ gone' = gone \cup ({source} \ {id, NoId})
    /\ UNCHANGED ended

Put(h) ==
    /\ handle[h].at = "write"
    /\ Accepts(handle[h].origin, handle[h].id)
    /\ Replace(handle[h].origin, handle[h].id)
    /\ Move(h, "wrote")
    /\ UNCHANGED <<family, maker, flying, lineage, deleted, revoked>>

\* The backend answers that the condition does not hold: SessionConflict.
RejectPut(h) ==
    /\ handle[h].at = "write"
    /\ ~Accepts(handle[h].origin, handle[h].id)
    /\ ReleaseWrite(h, FALSE)
    /\ Discard(h)
    /\ UNCHANGED <<maker, records, flying, history>>

\* A request of a dropped future reaches the backend after all.
LandLate(r) ==
    /\ r \in flying
    /\ flying' = flying \ {r}
    /\ IF r.op = "delete" THEN EndRecords({r.id})
       ELSE IF Accepts(r.source, r.id) THEN Replace(r.source, r.id)
       ELSE UNCHANGED <<records, gone, ended>>
    /\ UNCHANGED <<family, handle, maker, lineage, deleted, revoked>>

\* A late update changes no record's existence, so only creations fly; after
\* a write that destruction overtook, the compensating delete can.  A store
\* whose requests end with their futures does not yield after its write.
AbandonSave(h) ==
    \/ AbandonWrite(h, "write", IF CanCreate(h) THEN {SaveRequest(h)} ELSE {})
    \/ /\ CanOutliveFuture
       /\ AbandonWrite(h, "wrote",
            IF FamilyOf(h).destroy THEN {DeleteRequest(handle[h].id)} ELSE {})

\* The record that a save finds in its place.
Replaced(h) == IF handle[h].origin = NoId THEN handle[h].id ELSE handle[h].origin

\* Redis: an already expired session is removed instead of stored.
DiscardExpired(h) ==
    /\ handle[h].at = "write"
    /\ EndRecords({Replaced(h)})
    /\ ReleaseWrite(h, TRUE)
    /\ Discard(h)
    /\ UNCHANGED <<maker, flying, lineage, deleted, revoked>>

AbandonDiscard(h) == AbandonWrite(h, "write", {DeleteRequest(Replaced(h))})

Next ==
    \/ \E h \in Handles :
         \/ ApplicationStep(h)
         \/ \E f \in Families, i \in Ids : Load(h, f, i)
         \/ Put(h) \/ RejectPut(h) \/ AbandonSave(h)
         \/ DiscardExpired(h) \/ AbandonDiscard(h)
         \/ CompleteSave(h) \/ Compensate(h)
         \/ CompleteDelete(h) \/ AbandonDelete(h)
    \/ \E ids \in SUBSET records : ClearStore(ids)
    \/ \E i \in Ids : Expire(i)
    \/ \E r \in flying : LandLate(r)

Spec == Init /\ [][Next]_vars

-----------------------------------------------------------------------------

\* An ID whose record was removed - by deletion, rotation, expiry or
\* clear_store - is never stored again, not even by a request that outlived
\* its future.
NoResurrection == gone \cap records = {}

\* A session never splits: of all the IDs that descend from one Session::new
\* through clones, loads and rotations, the backend holds at most one.
NoFork == \A i, j \in records : lineage[i] = lineage[j] => i = j

\* Once the record of a session was removed without a successor, no
\* descendant of that session is ever stored.
EndedStaysEnded == \A i \in records : lineage[i] \notin ended

\* Rotation does not lose the session: a replaced ID has a stored descendant
\* until the session is ended.
RotationKeepsSession ==
    \A j \in gone : lineage[j] \in ended \/ \E i \in records : lineage[i] = lineage[j]

\* The uncertainty fence is complete: a family that is idle and not marked
\* uncertain knows every record it has made.
KnownUnlessUncertain ==
    \A i \in records : LET f == family[maker[i]] IN
        f.uncertain \/ f.holder # NoHandle \/ f.persisted_id = i

\* A successful destroy_session through a handle that was not superseded
\* leaves no record that its family made, and none appears later.
RevokedFamilyHasNoRecord == \A i \in records : maker[i] \notin revoked

\* After any successful destroy_session, no save of the same family, running,
\* waiting or abandoned, creates a record.
DeletedFamilyCreatesNothing ==
    [][\A i \in records' \ records : maker[i] \notin deleted]_vars

\* No call hangs: every store_session and destroy_session returns, whatever
\* the other handles of the family do with the lifecycle lock.
EveryCallReturns ==
    \A h \in Handles :
        handle[h].at \notin {"absent", "live"} ~> handle[h].at = "absent"
=============================================================================
