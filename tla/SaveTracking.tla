---------------------------- MODULE SaveTracking ----------------------------
(***************************************************************************)
(* Change tracking of one family of request-local Session clones           *)
(* (SessionData, SaveRevision, insert_raw, remove, data_changed and        *)
(* reset_data_changed in session.rs).                                      *)
(*                                                                         *)
(* All clones share one SessionData behind one RwLock, so every operation  *)
(* under that lock is one action.  A save has three separate steps: it     *)
(* captures the data and a revision, its write takes effect in the         *)
(* backend, and its result is acknowledged - or the future is dropped,     *)
(* before or after the write.  Saves of several clones interleave freely.  *)
(*                                                                         *)
(* A record of the backend is abstracted to the values it holds.  The      *)
(* write of a save takes effect before the save ends: a backend that       *)
(* applies a write after its future was dropped is outside this module.    *)
(***************************************************************************)
EXTENDS Integers, FiniteSets

CONSTANTS
    Keys,             \* keys of the session's map
    Vals,             \* the serialized values a key can have
    NoVal,            \* the key is not in the map
    NoRecord,         \* this family has nothing in the backend
    Saves,            \* slots for SaveRevision tokens (a slot is reused)
    RevisionModulus   \* the revision counter wraps here: 2^64 in the code

ASSUME SavesAssumption == IsFiniteSet(Saves)
ASSUME ModulusAssumption == RevisionModulus \in Nat /\ RevisionModulus >= 2
ASSUME NoValAssumption == NoVal \notin Vals

VARIABLES
    values,             \* SessionData.values
    revision,           \* SessionData.revision
    persisted_revision, \* SessionData.persisted_revision
    active_saves,       \* SessionData.active_saves
    overlapping_saves,  \* SessionData.overlapping_saves
    uncertain_save,     \* SessionData.uncertain_save
    save,               \* the SaveRevision tokens and their captured snapshots
    backend,            \* values of the record last written for this family
    lag,                \* history: edits since the acknowledged data was captured
    synced              \* history: the acknowledged data was loaded or confirmed
                        \*   by a save, not declared by reset_data_changed

tracking == <<revision, persisted_revision, active_saves, overlapping_saves,
              uncertain_save>>
vars == <<values, tracking, save, backend, lag, synced>>

Maps == [Keys -> Vals \cup {NoVal}]
Revisions == 0 .. RevisionModulus - 1

\* phase: "idle" (no token), "captured" (token live, nothing written yet) or
\* "written" (token live, the backend took the snapshot).
\* lag: history, the edits made since the snapshot was captured.
SaveTokens == [phase : {"idle", "captured", "written"}, revision : Revisions,
               snapshot : Maps, lag : Revisions]

EmptyMap == [k \in Keys |-> NoVal]
Idle == [phase |-> "idle", revision |-> 0, snapshot |-> EmptyMap, lag |-> 0]

Active == {s \in Saves : save[s].phase # "idle"}

\* Types, and the range of every counter.
TypeOK ==
    /\ values \in Maps
    /\ revision \in Revisions
    /\ persisted_revision \in Revisions
    /\ active_saves \in Nat
    /\ overlapping_saves \in BOOLEAN
    /\ uncertain_save \in BOOLEAN
    /\ save \in [Saves -> SaveTokens]
    /\ backend \in Maps \cup {NoRecord}
    /\ lag \in Revisions
    /\ synced \in BOOLEAN

-----------------------------------------------------------------------------

\* A session made by Session::new, or one a store has just loaded.
Init ==
    /\ values \in Maps
    /\ \/ values = EmptyMap /\ backend = NoRecord /\ synced = FALSE
       \/ backend = values /\ synced = TRUE
    /\ revision = 0
    /\ persisted_revision = 0
    /\ active_saves = 0
    /\ overlapping_saves = FALSE
    /\ uncertain_save = FALSE
    /\ save = [s \in Saves |-> Idle]
    /\ lag = 0

\* The bug of a counter without a wrap.
PlainIncrement(r) == r + 1

\* u64::wrapping_add(1).
WrappingIncrement(r) == IF r = RevisionModulus - 1 THEN 0 ELSE r + 1

\* Bound: fewer than RevisionModulus edits happen between a capture and the
\* comparison of its revision.  With 2^64 revisions no process can break it.
NoLap == /\ lag < RevisionModulus - 1
         /\ \A s \in Active : save[s].lag < RevisionModulus - 1

\* The effect of a change of the map under the data lock.
Edit(newValues) ==
    /\ NoLap
    /\ values' = newValues
    /\ revision' = WrappingIncrement(revision)
    /\ lag' = lag + 1
    /\ save' = [s \in Saves |->
                  IF s \in Active THEN [save[s] EXCEPT !.lag = @ + 1] ELSE save[s]]
    /\ UNCHANGED <<persisted_revision, active_saves, overlapping_saves,
                   uncertain_save, backend, synced>>

InsertRaw(k, v) ==
    /\ values[k] # v
    /\ Edit([values EXCEPT ![k] = v])

Remove(k) ==
    /\ values[k] # NoVal
    /\ Edit([values EXCEPT ![k] = NoVal])

\* The bug of not seeing that another save is active.
OverlapNotMarked ==
    /\ overlapping_saves' = (active_saves # 0 /\ overlapping_saves)
    /\ UNCHANGED uncertain_save

\* SaveRevision::capture: a save that starts while another is active makes
\* the whole cohort overlapping and uncertain.
Overlap ==
    IF active_saves = 0
    THEN overlapping_saves' = FALSE /\ UNCHANGED uncertain_save
    ELSE overlapping_saves' = TRUE /\ uncertain_save' = TRUE

\* persistence_snapshot, immutable_snapshot or serialize_bounded.
Capture(s) ==
    /\ save[s].phase = "idle"
    /\ Overlap
    /\ active_saves' = active_saves + 1
    /\ save' = [save EXCEPT ![s] = [phase |-> "captured", revision |-> revision,
                                    snapshot |-> values, lag |-> 0]]
    /\ UNCHANGED <<values, revision, persisted_revision, backend, lag, synced>>

\* The backend executes the write of save s, in any order among the active ones.
BackendWrite(s) ==
    /\ save[s].phase = "captured"
    /\ backend' = save[s].snapshot
    /\ save' = [save EXCEPT ![s].phase = "written"]
    /\ UNCHANGED <<values, tracking, lag, synced>>

\* The effect of a confirmed save that counts.
Confirm(s) ==
    /\ persisted_revision' = save[s].revision
    /\ uncertain_save' = FALSE
    /\ lag' = save[s].lag
    /\ synced' = TRUE

\* The bug of letting the last callback of a cohort count.
ConfirmLastOfCohort(s) ==
    IF overlapping_saves /\ active_saves > 1
    THEN uncertain_save' = TRUE /\ UNCHANGED <<persisted_revision, lag, synced>>
    ELSE Confirm(s)

\* SaveRevision::acknowledge: after an overlap it does not count.
ConfirmStandalone(s) ==
    IF overlapping_saves
    THEN uncertain_save' = TRUE /\ UNCHANGED <<persisted_revision, lag, synced>>
    ELSE Confirm(s)

\* Session::acknowledge_revision, after a confirmed write.
Acknowledge(s) ==
    /\ save[s].phase = "written"
    /\ ConfirmStandalone(s)
    /\ active_saves' = active_saves - 1
    /\ save' = [save EXCEPT ![s] = Idle]
    /\ UNCHANGED <<values, revision, overlapping_saves, backend>>

\* The bug of forgetting the count when a save is cancelled.
Stranded == active_saves

\* The count after a save ended without an acknowledgement.
WithoutDropped == active_saves - 1

\* Drop for SaveRevision: a failed or cancelled save, written or not.
DropSave(s) ==
    /\ s \in Active
    /\ uncertain_save' = TRUE
    /\ active_saves' = WithoutDropped
    /\ save' = [save EXCEPT ![s] = Idle]
    /\ UNCHANGED <<values, revision, persisted_revision, overlapping_saves,
                   backend, lag, synced>>

\* Session::reset_data_changed: the application declares the data clean.
ResetDataChanged ==
    /\ persisted_revision' = revision
    /\ uncertain_save' = FALSE
    /\ lag' = 0
    /\ synced' = FALSE
    /\ UNCHANGED <<values, revision, active_saves, overlapping_saves, save, backend>>

Next ==
    \/ \E k \in Keys, v \in Vals : InsertRaw(k, v)
    \/ \E k \in Keys : Remove(k)
    \/ \E s \in Saves : Capture(s) \/ BackendWrite(s) \/ Acknowledge(s) \/ DropSave(s)
    \/ ResetDataChanged

Spec == Init /\ [][Next]_vars

-----------------------------------------------------------------------------

\* The data part of Session::data_changed.
DataDirty == uncertain_save \/ revision # persisted_revision

\* A session that reports no change and was never declared clean by
\* reset_data_changed since it was last loaded or confirmed is stored: the
\* backend holds exactly its values, whatever saves ran, overlapped, failed or
\* were cancelled in between (SaveRevision, session.rs).
CleanIsStored == ~DataDirty /\ synced => backend = values

\* Every token is counted once until it is acknowledged or dropped: the
\* count neither strands, which would make every later save overlapping, nor
\* underflows (active_saves in SaveRevision).
ActiveSavesExact == active_saves = Cardinality(Active)

\* Only a save that ran alone from its capture on, or reset_data_changed,
\* turns dirty data into clean data; the end of a save of an overlapping
\* cohort never does (SaveRevision::acknowledge and its Drop).
OnlyStandaloneSaveCleans ==
    [][DataDirty /\ ~DataDirty' =>
         \/ ResetDataChanged
         \/ \E s \in Saves : /\ Active = {s}
                             /\ save[s].phase = "written"
                             /\ backend = values]_vars

-----------------------------------------------------------------------------
(***************************************************************************)
(* The inductive invariant behind the three properties.                    *)
(***************************************************************************)

\* Counting distance edits up from revision r, modulo RevisionModulus,
\* reaches the current revision.
Behind(r, distance) ==
    \/ revision = r + distance
    \/ revision = r + distance - RevisionModulus

\* A save that is not part of an overlapping cohort is the only one.
AloneUnlessOverlapping ==
    ~overlapping_saves => \A s, t \in Active : s = t

\* Revisions measure edits, and a snapshot without later edits is current.
RevisionsCountEdits ==
    /\ Behind(persisted_revision, lag)
    /\ \A s \in Active : /\ Behind(save[s].revision, save[s].lag)
                         /\ save[s].lag = 0 => save[s].snapshot = values

\* While the acknowledged data is confirmed, no active save is older than it.
ActiveSavesAreNewer == synced => \A s \in Active : save[s].lag <= lag

\* What a standalone save wrote is still there when it is acknowledged.
StandaloneWriteIsLast ==
    ~overlapping_saves =>
        \A s \in Active : save[s].phase = "written" => backend = save[s].snapshot

IInv ==
    /\ TypeOK
    /\ ActiveSavesExact
    /\ AloneUnlessOverlapping
    /\ RevisionsCountEdits
    /\ ActiveSavesAreNewer
    /\ StandaloneWriteIsLast
    /\ CleanIsStored
=============================================================================
