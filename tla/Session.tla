------------------------------ MODULE Session -------------------------------
(***************************************************************************)
(* Identity and lifecycle of server-side sessions (session.rs,             *)
(* session_lifecycle.rs): which handle may write or delete which record.   *)
(*                                                                         *)
(* A family is what the clones of one Session share: persisted_id,         *)
(* creation_claimed, destroy and the lifecycle lock with its uncertain     *)
(* flag.  A handle is one Session value together with the store call it    *)
(* was moved into: "live" in the application's hands, "lock"/"write"/      *)
(* "wrote" inside store_session (waiting for the lifecycle lock, before    *)
(* and after the backend's answer), "dlock"/"delete" inside                *)
(* destroy_session.  A handle that was consumed or dropped is "absent".    *)
(*                                                                         *)
(* The store modules extend this one with the backend steps of one store.  *)
(* Session contents are the subject of SaveTracking; here a record is the  *)
(* fact that the backend holds an ID.  A future can be dropped at every    *)
(* await: what it has sent may still reach the backend, once, later.       *)
(***************************************************************************)
EXTENDS Naturals, FiniteSets

CONSTANTS
    Handles,   \* Session values (slots, reused)
    Families,  \* calls of Session::new and of a successful load_session
    Ids,       \* random session IDs: no ID is drawn twice
    NoId, NoHandle, NoFamily,
    CanOutliveFuture  \* can a request take effect after its future was dropped?

ASSUME NoneAssumption ==
    NoId \notin Ids /\ NoHandle \notin Handles /\ NoFamily \notin Families
ASSUME CanOutliveAssumption == CanOutliveFuture \in BOOLEAN

VARIABLES
    family,    \* shared state of each family of clones
    handle,    \* state of each handle
    maker,     \* history: the family that drew each ID, NoFamily if undrawn
    records,   \* the IDs the backend holds
    flying,    \* requests of dropped futures that can still take effect
    lineage,   \* history: the ID of the Session::new each ID descends from
    gone,      \* history: IDs whose record was removed
    ended,     \* history: lineages whose record was removed without successor
    deleted,   \* history: families in which destroy_session succeeded
    revoked    \* history: ... for a handle that was not superseded

history == <<lineage, gone, ended, deleted, revoked>>
vars == <<family, handle, maker, records, flying, history>>

Stages == {"absent", "live", "lock", "write", "insert", "wrote", "dlock", "delete"}

FamilyStates == [used : BOOLEAN, fresh : BOOLEAN,
                 persisted_id : Ids \cup {NoId}, creation_claimed : BOOLEAN,
                 destroy : BOOLEAN, uncertain : BOOLEAN,
                 holder : Handles \cup {NoHandle}]

HandleStates == [at : Stages, family : Families \cup {NoFamily},
                 id : Ids \cup {NoId}, rotation_from : Ids \cup {NoId},
                 origin : Ids \cup {NoId}, target : Ids \cup {NoId},
                 uncertain_on_drop : BOOLEAN]

Requests == [op : {"insert", "rotate", "delete"}, source : Ids \cup {NoId}, id : Ids]

TypeOK ==
    /\ family \in [Families -> FamilyStates]
    /\ handle \in [Handles -> HandleStates]
    /\ maker \in [Ids -> Families \cup {NoFamily}]
    /\ records \in SUBSET Ids
    /\ flying \in SUBSET Requests
    /\ lineage \in [Ids -> Ids \cup {NoId}]
    /\ gone \in SUBSET Ids
    /\ ended \in SUBSET Ids
    /\ deleted \in SUBSET Families
    /\ revoked \in SUBSET Families

NoSession == [at |-> "absent", family |-> NoFamily, id |-> NoId,
              rotation_from |-> NoId, origin |-> NoId, target |-> NoId,
              uncertain_on_drop |-> FALSE]

NewFamily == [used |-> FALSE, fresh |-> FALSE, persisted_id |-> NoId,
              creation_claimed |-> FALSE, destroy |-> FALSE,
              uncertain |-> FALSE, holder |-> NoHandle]

\* An empty store, and no session yet.
Init ==
    /\ family = [f \in Families |-> NewFamily]
    /\ handle = [h \in Handles |-> NoSession]
    /\ maker = [i \in Ids |-> NoFamily]
    /\ records = {}
    /\ flying = {}
    /\ lineage = [i \in Ids |-> NoId]
    /\ gone = {}
    /\ ended = {}
    /\ deleted = {}
    /\ revoked = {}

-----------------------------------------------------------------------------
(* What a handle knows and may do.                                         *)

FamilyOf(h) == family[handle[h].family]

\* Session::persistence_origin returns SessionConflict: an identity that was
\* never stored and may not be created, or one that a clone has replaced.
OriginConflict(h) ==
    LET p == FamilyOf(h).persisted_id IN
    \/ p = NoId /\ (~FamilyOf(h).fresh \/ FamilyOf(h).creation_claimed)
    \/ p # NoId /\ p # handle[h].id /\ handle[h].rotation_from # p

\* The bug of having no target for a session that was never stored.
DeleteTargetOrNone(h) ==
    IF ~OriginConflict(h) THEN FamilyOf(h).persisted_id ELSE handle[h].id

\* The ID that begin_delete selects.
DeleteTarget(h) ==
    IF ~OriginConflict(h) /\ FamilyOf(h).persisted_id # NoId
    THEN FamilyOf(h).persisted_id ELSE handle[h].id

\* The bug of recording only the first identity.
MarkFirst(h) ==
    IF FamilyOf(h).persisted_id = NoId THEN handle[h].id ELSE FamilyOf(h).persisted_id

\* Session::mark_persisted: a late update never rolls back a rotated identity.
MarkPersisted(h) ==
    LET p == FamilyOf(h).persisted_id IN
    IF p = NoId \/ handle[h].rotation_from = p THEN handle[h].id ELSE p

\* The bug of forgetting that a rotation creates a record, too.
CreatesFresh(h) == handle[h].origin = NoId

\* A save creates a record unless it updates the record it came from.
CanCreate(h) == handle[h].origin # handle[h].id

Move(h, stage) == handle' = [handle EXCEPT ![h].at = stage]
Discard(h) == handle' = [handle EXCEPT ![h] = NoSession]

\* The bug of taking an interrupted write for one without effect.
ReleaseAsSettled(h, settled) ==
    family' = [family EXCEPT ![handle[h].family].holder = NoHandle]

\* The bug of a guard that stays locked when the write was not confirmed.
ReleaseIfSettled(h, settled) ==
    family' = [family EXCEPT
        ![handle[h].family].holder = IF settled THEN NoHandle ELSE h,
        ![handle[h].family].uncertain =
            @ \/ (~settled /\ handle[h].uncertain_on_drop)]

\* Drop of the write guard of h: settled only after a confirmed outcome.
ReleaseWrite(h, settled) ==
    family' = [family EXCEPT
        ![handle[h].family].holder = NoHandle,
        ![handle[h].family].uncertain =
            @ \/ (~settled /\ handle[h].uncertain_on_drop)]

\* Records ids leave the backend and nothing replaces them.
EndRecords(ids) ==
    /\ records' = records \ ids
    /\ gone' = gone \cup (ids \cap records)
    /\ ended' = ended \cup {lineage[i] : i \in ids \cap records}

-----------------------------------------------------------------------------
(* The application's operations on its handles.                            *)

\* Session::new
New(h, f, i) ==
    /\ handle[h].at = "absent" /\ ~family[f].used /\ maker[i] = NoFamily
    /\ family' = [family EXCEPT ![f].used = TRUE, ![f].fresh = TRUE]
    /\ handle' = [handle EXCEPT ![h].at = "live", ![h].family = f, ![h].id = i]
    /\ maker' = [maker EXCEPT ![i] = f]
    /\ lineage' = [lineage EXCEPT ![i] = i]
    /\ UNCHANGED <<records, flying, gone, ended, deleted, revoked>>

\* Clone for Session
Clone(h, g) ==
    /\ handle[h].at = "live" /\ handle[g].at = "absent"
    /\ handle' = [handle EXCEPT ![g] = handle[h]]
    /\ UNCHANGED <<family, maker, records, flying, history>>

\* Session::regenerate: only a handle that is current, or already rotates
\* from the persisted identity, becomes a rotation of that identity.
Regenerate(h, i) ==
    LET p == FamilyOf(h).persisted_id IN
    /\ handle[h].at = "live" /\ maker[i] = NoFamily
    /\ handle' = [handle EXCEPT
         ![h].rotation_from = IF p = handle[h].id \/ @ = p THEN p ELSE @,
         ![h].id = i]
    /\ maker' = [maker EXCEPT ![i] = handle[h].family]
    /\ lineage' = [lineage EXCEPT ![i] = lineage[handle[h].id]]
    /\ UNCHANGED <<family, records, flying, gone, ended, deleted, revoked>>

\* Session::destroy
Destroy(h) ==
    /\ handle[h].at = "live" /\ ~FamilyOf(h).destroy
    /\ family' = [family EXCEPT ![handle[h].family].destroy = TRUE]
    /\ UNCHANGED <<handle, maker, records, flying, history>>

\* A handle goes out of scope, or its future is dropped while it waits for
\* the lifecycle lock.
DropHandle(h) ==
    /\ handle[h].at \in {"live", "lock", "dlock"}
    /\ Discard(h)
    /\ UNCHANGED <<family, maker, records, flying, history>>

\* load_session finds a record; validate_loaded starts an isolated family.
Load(h, f, i) ==
    /\ handle[h].at = "absent" /\ ~family[f].used /\ i \in records
    /\ family' = [family EXCEPT ![f].used = TRUE, ![f].persisted_id = i]
    /\ handle' = [handle EXCEPT ![h].at = "live", ![h].family = f, ![h].id = i]
    /\ UNCHANGED <<maker, records, flying, history>>

-----------------------------------------------------------------------------
(* store_session up to the backend request.                                *)

\* The bug of a claim that is only made when the first save has succeeded.
ClaimsNothing(p) == FALSE

\* An attempt with no persisted identity takes the right to create one.
ClaimsCreation(p) == p = NoId

\* persistence_attempt succeeds and the data is captured.  An attempt to
\* create a record consumes the family's authority to do so.
BeginSave(h) ==
    LET p == FamilyOf(h).persisted_id IN
    /\ handle[h].at = "live" /\ ~FamilyOf(h).destroy /\ ~OriginConflict(h)
    /\ family' = [family EXCEPT ![handle[h].family].creation_claimed =
                          @ \/ ClaimsCreation(p)]
    /\ handle' = [handle EXCEPT ![h].at = "lock", ![h].origin = p]
    /\ UNCHANGED <<maker, records, flying, history>>

\* persistence_attempt fails; store_session owns the session and drops it.
RefuseSave(h) ==
    /\ handle[h].at = "live"
    /\ FamilyOf(h).destroy \/ OriginConflict(h)
    /\ Discard(h)
    /\ UNCHANGED <<family, maker, records, flying, history>>

\* The identity a waiting save started from is no longer the persisted one.
Superseded(h) ==
    /\ handle[h].origin # NoId
    /\ OriginConflict(h) \/ FamilyOf(h).persisted_id # handle[h].origin

\* The bug of not looking at destroy again once the lock is held.
AdmitsUnlessUncertain(h) == ~FamilyOf(h).uncertain

\* Lifecycle::write makes a guard.
AdmitsWrite(h) == ~FamilyOf(h).uncertain /\ ~FamilyOf(h).destroy

\* begin_backend_write takes the lifecycle lock and every check passes.
BeginBackendWrite(h) ==
    /\ handle[h].at = "lock" /\ FamilyOf(h).holder = NoHandle
    /\ AdmitsWrite(h) /\ ~Superseded(h)
    /\ family' = [family EXCEPT ![handle[h].family].holder = h]
    /\ handle' = [handle EXCEPT
         ![h].at = "write",
         ![h].uncertain_on_drop = CanCreate(h) /\ CanOutliveFuture]
    /\ UNCHANGED <<maker, records, flying, history>>

\* begin_backend_write fails: no guard was made, or the guard of a superseded
\* save is dropped, which counts as an unconfirmed creation.
RefuseBackendWrite(h) ==
    /\ handle[h].at = "lock" /\ FamilyOf(h).holder = NoHandle
    /\ \/ ~AdmitsWrite(h) /\ UNCHANGED family
       \/ /\ AdmitsWrite(h) /\ Superseded(h)
          /\ family' = [family EXCEPT ![handle[h].family].uncertain =
                            @ \/ (CanCreate(h) /\ CanOutliveFuture)]
    /\ Discard(h)
    /\ UNCHANGED <<maker, records, flying, history>>

-----------------------------------------------------------------------------
(* store_session after the backend's answer.                               *)

\* finish, mark_persisted and the release of the guard.
CompleteSave(h) ==
    /\ handle[h].at = "wrote" /\ ~FamilyOf(h).destroy
    /\ family' = [family EXCEPT
         ![handle[h].family].persisted_id = MarkPersisted(h),
         ![handle[h].family].holder = NoHandle]
    /\ Discard(h)
    /\ UNCHANGED <<maker, records, flying, history>>

\* The bug of reporting the conflict and leaving the record.
KeepsWritten(h) == {}

\* What the compensating delete removes.
CleansUp(h) == {handle[h].id}

\* Destruction won during the write: the record is removed again before the
\* guard is released (require_cleanup, the delete, confirm_removed).
Compensate(h) ==
    /\ handle[h].at = "wrote" /\ FamilyOf(h).destroy
    /\ EndRecords(CleansUp(h))
    /\ ReleaseWrite(h, TRUE)
    /\ Discard(h)
    /\ UNCHANGED <<maker, flying, lineage, deleted, revoked>>

\* The requests that a dropped future may have sent: they reach the backend
\* later or never.
MayFly(requests) == IF CanOutliveFuture THEN SUBSET requests ELSE {{}}

\* The future of a save in stage s is dropped, or fails with an error that
\* leaves open whether the backend will still execute its requests.
AbandonWrite(h, s, requests) ==
    /\ handle[h].at = s
    /\ \E sent \in MayFly(requests) : flying' = flying \cup sent
    /\ ReleaseWrite(h, FALSE)
    /\ Discard(h)
    /\ UNCHANGED <<maker, records, history>>

DeleteRequest(i) == [op |-> "delete", source |-> NoId, id |-> i]

-----------------------------------------------------------------------------
(* destroy_session.                                                        *)

\* begin_delete marks destruction before it waits for the lifecycle lock.
BeginDelete(h) ==
    /\ handle[h].at = "live"
    /\ family' = [family EXCEPT ![handle[h].family].destroy = TRUE]
    /\ Move(h, "dlock")
    /\ UNCHANGED <<maker, records, flying, history>>

\* The bug of deleting in spite of an unconfirmed write.
AdmitsAnyDelete(h) == TRUE

\* Lifecycle::delete makes a guard.
AdmitsDelete(h) == ~FamilyOf(h).uncertain

\* Lifecycle::delete takes the lock; the target is selected under it.
EnterDelete(h) ==
    /\ handle[h].at = "dlock" /\ FamilyOf(h).holder = NoHandle
    /\ AdmitsDelete(h)
    /\ family' = [family EXCEPT ![handle[h].family].holder = h]
    /\ handle' = [handle EXCEPT ![h].at = "delete", ![h].target = DeleteTarget(h)]
    /\ UNCHANGED <<maker, records, flying, history>>

\* Lifecycle::delete refuses: an earlier creation or rotation is unconfirmed.
RefuseDelete(h) ==
    /\ handle[h].at = "dlock" /\ FamilyOf(h).holder = NoHandle
    /\ ~AdmitsDelete(h)
    /\ Discard(h)
    /\ UNCHANGED <<family, maker, records, flying, history>>

\* The backend deletes the target and destroy_session returns Ok.
CompleteDelete(h) ==
    LET f == handle[h].family IN
    /\ handle[h].at = "delete"
    /\ EndRecords({handle[h].target})
    /\ family' = [family EXCEPT ![f].holder = NoHandle]
    /\ Discard(h)
    /\ deleted' = deleted \cup {f}
    /\ revoked' = IF family[f].persisted_id \in {NoId, handle[h].target}
                  THEN revoked \cup {f} ELSE revoked
    /\ UNCHANGED <<maker, flying, lineage>>

\* The deletion fails or its future is dropped; the request may be under way.
AbandonDelete(h) ==
    /\ handle[h].at = "delete"
    /\ \E sent \in MayFly({DeleteRequest(handle[h].target)}) : flying' = flying \cup sent
    /\ family' = [family EXCEPT ![handle[h].family].holder = NoHandle]
    /\ Discard(h)
    /\ UNCHANGED <<maker, records, history>>

-----------------------------------------------------------------------------
(* The backend on its own.                                                 *)

\* clear_store, or the part of it that the backend carries out in one step.
ClearStore(ids) ==
    /\ EndRecords(ids)
    /\ UNCHANGED <<family, handle, maker, flying, lineage, deleted, revoked>>

\* A record's expiry passes and cleanup, a TTL or a TTL index removes it.
Expire(i) ==
    /\ i \in records
    /\ EndRecords({i})
    /\ UNCHANGED <<family, handle, maker, flying, lineage, deleted, revoked>>

\* What happens to handles and families, whatever the store.
ApplicationStep(h) ==
    \/ \E f \in Families, i \in Ids : New(h, f, i)
    \/ \E g \in Handles : Clone(h, g)
    \/ \E i \in Ids : Regenerate(h, i)
    \/ Destroy(h)
    \/ DropHandle(h)
    \/ BeginSave(h)
    \/ RefuseSave(h)
    \/ BeginBackendWrite(h)
    \/ RefuseBackendWrite(h)
    \/ BeginDelete(h)
    \/ EnterDelete(h)
    \/ RefuseDelete(h)
=============================================================================
