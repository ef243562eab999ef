------------------------- MODULE SaveTrackingProofs -------------------------
(***************************************************************************)
(* Proofs about SaveTracking, for every set of keys, values and save       *)
(* slots and every size of the revision counter.                           *)
(***************************************************************************)
EXTENDS SaveTracking, TLAPS, FiniteSetTheorems

\* The active tokens are finitely many, so that they can be counted.
LEMMA ActiveFinite == /\ Active \subseteq Saves
                      /\ IsFiniteSet(Active)
                      /\ Cardinality(Active) \in Nat
                      /\ Cardinality(Active) = 0 <=> Active = {}
<1>1. Active \subseteq Saves
  BY DEF Active
<1>2. IsFiniteSet(Active)
  BY <1>1, SavesAssumption, FS_Subset
<1> QED
  BY <1>1, <1>2, FS_CardinalityType, FS_EmptySet

\* The token of an idle slot is a token.
LEMMA IdleType == Idle \in SaveTokens
  BY ModulusAssumption DEF Idle, SaveTokens, Revisions, EmptyMap, Maps

\* The initial states satisfy the invariant: there is no token to speak of.
LEMMA InitIInv == Init => IInv
<1> SUFFICES ASSUME Init PROVE IInv
  OBVIOUS
<1>1. TypeOK
  <2>1. save \in [Saves -> SaveTokens]
    BY IdleType DEF Init
  <2>2. 0 \in Revisions
    BY ModulusAssumption DEF Revisions
  <2> QED
    BY <2>1, <2>2 DEF Init, TypeOK
<1>2. Active = {}
  BY DEF Init, Active, Idle
<1>3. ActiveSavesExact
  BY <1>2, FS_EmptySet DEF Init, ActiveSavesExact
<1>4. RevisionsCountEdits
  BY <1>2 DEF Init, RevisionsCountEdits, Behind
<1> QED
  BY <1>1, <1>2, <1>3, <1>4
  DEF Init, IInv, AloneUnlessOverlapping, ActiveSavesAreNewer,
      StandaloneWriteIsLast, CleanIsStored, DataDirty

\* Any change of the map leaves the data dirty and ages every active save.
LEMMA EditIInv ==
  ASSUME IInv, NEW m \in Maps, Edit(m)
  PROVE  IInv'
<1>1. Active' = Active
  BY DEF IInv, TypeOK, Edit, Active, SaveTokens
<1>2. ASSUME NEW s \in Active
      PROVE  /\ save[s] \in SaveTokens
             /\ save'[s] = [save[s] EXCEPT !.lag = @ + 1]
             /\ save'[s] \in SaveTokens
             /\ save[s].lag \in Nat /\ save[s].lag < RevisionModulus - 1
  BY ModulusAssumption
  DEF IInv, TypeOK, Edit, NoLap, Active, SaveTokens, Revisions
<1>3. TypeOK'
  <2>1. save' \in [Saves -> SaveTokens]
    BY <1>2 DEF IInv, TypeOK, Edit
  <2>2. revision' \in Revisions /\ lag' \in Revisions
    BY ModulusAssumption
    DEF IInv, TypeOK, Edit, NoLap, WrappingIncrement, Revisions
  <2> QED
    BY <2>1, <2>2 DEF IInv, TypeOK, Edit
<1>4. RevisionsCountEdits'
  <2>1. ASSUME NEW r \in Revisions, NEW d \in Revisions, Behind(r, d)
        PROVE  \/ revision' = r + (d + 1)
               \/ revision' = r + (d + 1) - RevisionModulus
    <3>1. /\ RevisionModulus \in Int /\ r \in Int /\ d \in Int
          /\ 0 <= revision /\ revision < RevisionModulus /\ revision \in Int
          /\ r < RevisionModulus /\ d < RevisionModulus
      BY ModulusAssumption DEF IInv, TypeOK, Revisions
    <3>2. revision' = WrappingIncrement(revision)
      BY DEF Edit
    <3>3. revision = r + d \/ revision = r + d - RevisionModulus
      BY <2>1 DEF Behind
    <3> QED
      BY <3>1, <3>2, <3>3 DEF WrappingIncrement
  <2>2. Behind(persisted_revision, lag)'
    <3>1. /\ Behind(persisted_revision, lag)
          /\ persisted_revision \in Revisions /\ lag \in Revisions
      BY DEF IInv, TypeOK, RevisionsCountEdits
    <3>2. persisted_revision' = persisted_revision /\ lag' = lag + 1
      BY DEF Edit
    <3> QED
      BY <2>1, <3>1, <3>2 DEF Behind
  <2>3. ASSUME NEW s \in Active
        PROVE  /\ Behind(save[s].revision, save[s].lag)'
               /\ save'[s].lag # 0
    <3>1. Behind(save[s].revision, save[s].lag)
      BY DEF IInv, RevisionsCountEdits
    <3>2. /\ save'[s].revision = save[s].revision
          /\ save'[s].lag = save[s].lag + 1
          /\ save[s].revision \in Revisions
      BY <1>2 DEF SaveTokens
    <3>3. save[s].lag \in Revisions
      BY <1>2 DEF SaveTokens
    <3>4. \/ revision' = save[s].revision + (save[s].lag + 1)
          \/ revision' = save[s].revision + (save[s].lag + 1) - RevisionModulus
      BY <2>1, <3>1, <3>2, <3>3
    <3> QED
      BY <3>2, <3>3, <3>4, ModulusAssumption DEF Behind, Revisions
  <2> QED
    BY <1>1, <2>2, <2>3 DEF RevisionsCountEdits
<1>5. ActiveSavesAreNewer'
  <2>1. ASSUME NEW s \in Active, synced PROVE save'[s].lag <= lag'
    <3>1. save[s].lag <= lag
      BY <2>1 DEF IInv, ActiveSavesAreNewer
    <3>2. save'[s].lag = save[s].lag + 1 /\ save[s].lag \in Nat
      BY <1>2 DEF SaveTokens
    <3>3. lag' = lag + 1
      BY DEF Edit
    <3>4. lag \in Nat
      BY ModulusAssumption DEF IInv, TypeOK, Revisions
    <3> QED
      BY <3>1, <3>2, <3>3, <3>4
  <2> QED
    BY <1>1, <2>1 DEF ActiveSavesAreNewer, Edit
<1>6. StandaloneWriteIsLast'
  <2>1. ASSUME NEW s \in Active
        PROVE  save'[s].phase = save[s].phase /\ save'[s].snapshot = save[s].snapshot
    BY <1>2 DEF SaveTokens
  <2> QED
    BY <1>1, <2>1 DEF IInv, StandaloneWriteIsLast, Edit
<1>7. DataDirty'
  BY <1>3, <1>4, ModulusAssumption
  DEF IInv, TypeOK, Edit, NoLap, RevisionsCountEdits, Behind, DataDirty, Revisions
<1> QED
  BY <1>1, <1>3, <1>4, <1>5, <1>6, <1>7
  DEF IInv, Edit, ActiveSavesExact, AloneUnlessOverlapping, CleanIsStored

\* A new token counts once, and marks an overlap unless it is alone.
LEMMA CaptureIInv ==
  ASSUME IInv, NEW s \in Saves, Capture(s)
  PROVE  IInv'
<1>1. s \notin Active /\ Active' = Active \cup {s}
  BY DEF IInv, TypeOK, Capture, Active
<1>2. /\ save'[s] = [phase |-> "captured", revision |-> revision,
                     snapshot |-> values, lag |-> 0]
      /\ \A t \in Active : save'[t] = save[t]
  BY <1>1 DEF IInv, TypeOK, Capture, Active
<1>3. TypeOK'
  <2>1. save'[s] \in SaveTokens
    BY <1>2, ModulusAssumption DEF IInv, TypeOK, SaveTokens, Revisions
  <2>2. save' \in [Saves -> SaveTokens]
    BY <2>1 DEF IInv, TypeOK, Capture
  <2>3. overlapping_saves' \in BOOLEAN /\ uncertain_save' \in BOOLEAN
    BY Zenon DEF IInv, TypeOK, Capture, Overlap
  <2> QED
    BY <2>2, <2>3 DEF IInv, TypeOK, Capture
<1>4. ActiveSavesExact'
  BY <1>1, ActiveFinite, FS_AddElement DEF IInv, ActiveSavesExact, Capture
<1>5. CASE active_saves = 0
  <2>1. Active' = {s}
    BY <1>1, <1>5, ActiveFinite DEF IInv, ActiveSavesExact
  <2> QED
    BY <1>2, <1>3, <1>4, <1>5, <2>1, ModulusAssumption
    DEF IInv, TypeOK, Capture, Overlap, AloneUnlessOverlapping, RevisionsCountEdits,
        Behind, ActiveSavesAreNewer, StandaloneWriteIsLast, CleanIsStored,
        DataDirty, Revisions
<1>6. CASE active_saves # 0
  BY <1>1, <1>2, <1>3, <1>4, <1>6, ModulusAssumption
  DEF IInv, TypeOK, Capture, Overlap, AloneUnlessOverlapping, RevisionsCountEdits,
      Behind, ActiveSavesAreNewer, StandaloneWriteIsLast, CleanIsStored,
      DataDirty, Revisions
<1> QED
  BY <1>5, <1>6

\* A write that takes effect under confirmed, unchanged data stores that data.
LEMMA BackendWriteIInv ==
  ASSUME IInv, NEW s \in Saves, BackendWrite(s)
  PROVE  IInv'
<1>1. s \in Active /\ Active' = Active
  BY DEF IInv, TypeOK, BackendWrite, Active, SaveTokens
<1>2. /\ save' = [save EXCEPT ![s].phase = "written"]
      /\ save[s] \in SaveTokens
      /\ \A t \in Active : /\ save'[t].revision = save[t].revision
                           /\ save'[t].snapshot = save[t].snapshot
                           /\ save'[t].lag = save[t].lag
  BY <1>1 DEF IInv, TypeOK, BackendWrite, Active, SaveTokens
<1>3. TypeOK'
  BY <1>2 DEF IInv, TypeOK, BackendWrite, SaveTokens, tracking
<1>4. RevisionsCountEdits' /\ ActiveSavesAreNewer'
  BY <1>1, <1>2 DEF IInv, RevisionsCountEdits, ActiveSavesAreNewer, Behind,
                    BackendWrite, tracking
<1>5. StandaloneWriteIsLast'
  <2>1. ~overlapping_saves => Active = {s}
    BY <1>1 DEF IInv, AloneUnlessOverlapping
  <2> QED
    BY <1>1, <1>2, <2>1 DEF BackendWrite, StandaloneWriteIsLast, tracking
<1>6. CleanIsStored'
  <2> SUFFICES ASSUME ~DataDirty, synced PROVE save[s].snapshot = values
    BY DEF BackendWrite, CleanIsStored, DataDirty, tracking
  <2>1. lag = 0
    BY ModulusAssumption DEF IInv, TypeOK, RevisionsCountEdits, Behind, DataDirty, Revisions
  <2>2. save[s].lag = 0
    BY <1>1, <1>2, <2>1 DEF IInv, ActiveSavesAreNewer, SaveTokens, Revisions
  <2> QED
    BY <1>1, <2>2 DEF IInv, RevisionsCountEdits
<1> QED
  BY <1>1, <1>3, <1>4, <1>5, <1>6
  DEF IInv, BackendWrite, ActiveSavesExact, AloneUnlessOverlapping, tracking

\* Ending a token, either way, removes exactly it.
LEMMA EndOfToken ==
  ASSUME IInv, NEW s \in Active,
         save' = [save EXCEPT ![s] = Idle], active_saves' = active_saves - 1
  PROVE  /\ Active' = Active \ {s}
         /\ \A t \in Active' : save'[t] = save[t]
         /\ save' \in [Saves -> SaveTokens]
         /\ active_saves' \in Nat
         /\ ActiveSavesExact'
<1>1. Active' = Active \ {s} /\ \A t \in Active' : save'[t] = save[t]
  BY DEF IInv, TypeOK, Active, Idle
<1>2. save' \in [Saves -> SaveTokens]
  BY IdleType DEF IInv, TypeOK
<1>3. active_saves' = Cardinality(Active')
  BY <1>1, ActiveFinite, FS_RemoveElement DEF IInv, ActiveSavesExact
<1>4. IsFiniteSet(Active')
  BY <1>1, ActiveFinite, FS_RemoveElement
<1> QED
  BY <1>1, <1>2, <1>3, <1>4, FS_CardinalityType DEF ActiveSavesExact

\* A confirmed save makes clean exactly the data it stored.
LEMMA AcknowledgeIInv ==
  ASSUME IInv, NEW s \in Saves, Acknowledge(s)
  PROVE  IInv'
<1>1. s \in Active
  BY DEF Acknowledge, Active
<1>2. /\ Active' = Active \ {s}
      /\ \A t \in Active' : save'[t] = save[t]
      /\ save' \in [Saves -> SaveTokens]
      /\ active_saves' \in Nat
      /\ ActiveSavesExact'
  BY <1>1, EndOfToken DEF Acknowledge
<1>3. save[s] \in SaveTokens
  BY DEF IInv, TypeOK
<1>4. TypeOK'
  BY <1>2, <1>3 DEF IInv, TypeOK, Acknowledge, ConfirmStandalone, Confirm, SaveTokens
<1>5. CASE overlapping_saves
  BY <1>2, <1>4, <1>5
  DEF IInv, Acknowledge, ConfirmStandalone, Confirm, AloneUnlessOverlapping, RevisionsCountEdits,
      Behind, ActiveSavesAreNewer, StandaloneWriteIsLast, CleanIsStored, DataDirty
<1>6. CASE ~overlapping_saves
  <2>1. Active' = {}
    BY <1>1, <1>2, <1>6 DEF IInv, AloneUnlessOverlapping
  <2>2. RevisionsCountEdits'
    BY <1>1, <1>6, <2>1 DEF IInv, RevisionsCountEdits, Behind, Acknowledge, ConfirmStandalone, Confirm
  <2>3. CleanIsStored'
    <3> SUFFICES ASSUME revision = save[s].revision PROVE backend = values
      BY <1>6 DEF Acknowledge, ConfirmStandalone, Confirm, CleanIsStored, DataDirty
    <3>1. save[s].lag = 0
      BY <1>1, <1>3, ModulusAssumption
      DEF IInv, TypeOK, RevisionsCountEdits, Behind, SaveTokens, Revisions
    <3> QED
      BY <1>1, <1>6, <3>1
      DEF IInv, Acknowledge, RevisionsCountEdits, StandaloneWriteIsLast
  <2> QED
    BY <1>2, <1>4, <2>1, <2>2, <2>3
    DEF IInv, AloneUnlessOverlapping, ActiveSavesAreNewer, StandaloneWriteIsLast
<1> QED
  BY <1>5, <1>6

\* A dropped token only adds uncertainty.
LEMMA DropSaveIInv ==
  ASSUME IInv, NEW s \in Saves, DropSave(s)
  PROVE  IInv'
<1>1. /\ Active' = Active \ {s}
      /\ \A t \in Active' : save'[t] = save[t]
      /\ save' \in [Saves -> SaveTokens]
      /\ active_saves' \in Nat
      /\ ActiveSavesExact'
  BY EndOfToken DEF DropSave, WithoutDropped
<1>2. TypeOK'
  BY <1>1 DEF IInv, TypeOK, DropSave, WithoutDropped
<1> QED
  BY <1>1, <1>2
  DEF IInv, DropSave, WithoutDropped, AloneUnlessOverlapping, RevisionsCountEdits, Behind,
      ActiveSavesAreNewer, StandaloneWriteIsLast, CleanIsStored, DataDirty

\* The application's own declaration says nothing about the backend.
LEMMA ResetIInv ==
  ASSUME IInv, ResetDataChanged
  PROVE  IInv'
<1>1. Active' = Active
  BY DEF ResetDataChanged, Active
<1>2. TypeOK'
  <2>1. 0 \in Revisions
    BY ModulusAssumption DEF Revisions
  <2> QED
    BY <2>1 DEF IInv, TypeOK, ResetDataChanged
<1>3. RevisionsCountEdits'
  BY <1>1 DEF IInv, TypeOK, ResetDataChanged, RevisionsCountEdits, Behind, Revisions
<1> QED
  BY <1>1, <1>2, <1>3
  DEF IInv, ResetDataChanged, ActiveSavesExact, AloneUnlessOverlapping,
      ActiveSavesAreNewer, StandaloneWriteIsLast, CleanIsStored

\* Every step keeps the invariant.
LEMMA NextIInv == IInv /\ [Next]_vars => IInv'
<1> SUFFICES ASSUME IInv, [Next]_vars PROVE IInv'
  OBVIOUS
<1>1. ASSUME NEW k \in Keys, NEW v \in Vals, InsertRaw(k, v) PROVE IInv'
  <2>1. [values EXCEPT ![k] = v] \in Maps
    BY DEF IInv, TypeOK, Maps
  <2> QED
    BY <1>1, <2>1, EditIInv DEF InsertRaw
<1>2. ASSUME NEW k \in Keys, Remove(k) PROVE IInv'
  <2>1. [values EXCEPT ![k] = NoVal] \in Maps
    BY DEF IInv, TypeOK, Maps
  <2> QED
    BY <1>2, <2>1, EditIInv DEF Remove
<1>3. ASSUME NEW s \in Saves,
             Capture(s) \/ BackendWrite(s) \/ Acknowledge(s) \/ DropSave(s)
      PROVE  IInv'
  BY <1>3, CaptureIInv, BackendWriteIInv, AcknowledgeIInv, DropSaveIInv
<1>4. CASE ResetDataChanged
  BY <1>4, ResetIInv
<1>5. CASE UNCHANGED vars
  BY <1>5
  DEF vars, tracking, IInv, TypeOK, Active, ActiveSavesExact, AloneUnlessOverlapping,
      RevisionsCountEdits, Behind, ActiveSavesAreNewer, StandaloneWriteIsLast,
      CleanIsStored, DataDirty
<1> QED
  BY <1>1, <1>2, <1>3, <1>4, <1>5 DEF Next

\* Types hold for ever: SessionData's counters stay in range, and the count
\* of active saves never goes below zero (SaveRevision, session.rs).
THEOREM TypeCorrect == Spec => []TypeOK
<1>1. IInv => TypeOK
  BY DEF IInv
<1> QED
  BY <1>1, InitIInv, NextIInv, PTL DEF Spec

\* Data that change tracking reports as clean, and that was last loaded or
\* confirmed by a save, is what the backend holds (data_changed and
\* SaveRevision, session.rs).
THEOREM CleanDataIsStored == Spec => []CleanIsStored
<1>1. IInv => CleanIsStored
  BY DEF IInv
<1> QED
  BY <1>1, InitIInv, NextIInv, PTL DEF Spec

\* The count of active saves is exact: no ended save strands it and no
\* running save is missing from it (SaveRevision::capture and its ends).
THEOREM ActiveSavesCounted == Spec => []ActiveSavesExact
<1>1. IInv => ActiveSavesExact
  BY DEF IInv
<1> QED
  BY <1>1, InitIInv, NextIInv, PTL DEF Spec

\* Dirty data becomes clean only through reset_data_changed or the end of a
\* save that was the only one and whose snapshot the backend still holds
\* (SaveRevision::acknowledge and its Drop).
THEOREM OnlyConfirmedDataTurnsClean == Spec => OnlyStandaloneSaveCleans
<1> DEFINE Cleans == \/ ResetDataChanged
                     \/ \E s \in Saves : /\ Active = {s}
                                         /\ save[s].phase = "written"
                                         /\ backend = values
<1>1. ASSUME IInv, IInv', [Next]_vars
      PROVE  [DataDirty /\ ~DataDirty' => Cleans]_vars
  <2> SUFFICES ASSUME Next, DataDirty, ~DataDirty' PROVE Cleans
    BY <1>1
  <2>1. ASSUME NEW m \in Maps, Edit(m) PROVE FALSE
    <3>1. lag' \in Nat /\ lag' # 0 /\ lag' < RevisionModulus
      BY <1>1, <2>1, ModulusAssumption DEF IInv, TypeOK, Edit, NoLap, Revisions
    <3>2. Behind(persisted_revision, lag)' /\ persisted_revision' \in Int
      BY <1>1 DEF IInv, TypeOK, RevisionsCountEdits, Revisions
    <3>3. revision' # persisted_revision'
      BY <3>1, <3>2, ModulusAssumption DEF Behind
    <3> QED
      BY <3>3 DEF DataDirty
  <2>2. ASSUME NEW k \in Keys, NEW v \in Vals, InsertRaw(k, v) PROVE FALSE
    <3>1. [values EXCEPT ![k] = v] \in Maps
      BY <1>1 DEF IInv, TypeOK, Maps
    <3> QED
      BY <2>1, <2>2, <3>1 DEF InsertRaw
  <2>3. ASSUME NEW k \in Keys, Remove(k) PROVE FALSE
    <3>1. [values EXCEPT ![k] = NoVal] \in Maps
      BY <1>1 DEF IInv, TypeOK, Maps
    <3> QED
      BY <2>1, <2>3, <3>1 DEF Remove
  <2>4. ASSUME NEW s \in Saves, Capture(s) \/ BackendWrite(s) \/ DropSave(s)
        PROVE  FALSE
    BY <2>4 DEF Capture, Overlap, BackendWrite, DropSave, DataDirty, tracking
  <2>5. ASSUME NEW s \in Saves, Acknowledge(s) PROVE Cleans
    <3>1. s \in Active /\ save[s].phase = "written"
      BY <2>5 DEF Acknowledge, Active
    <3>2. ~overlapping_saves /\ synced'
      BY <2>5 DEF Acknowledge, ConfirmStandalone, Confirm, DataDirty
    <3>3. Active = {s}
      BY <1>1, <3>1, <3>2 DEF IInv, AloneUnlessOverlapping
    <3>4. backend = values
      BY <1>1, <2>5, <3>2 DEF IInv, CleanIsStored, Acknowledge
    <3> QED
      BY <3>1, <3>3, <3>4
  <2> QED
    BY <2>2, <2>3, <2>4, <2>5 DEF Next
<1> QED
  BY <1>1, InitIInv, NextIInv, PTL DEF Spec, OnlyStandaloneSaveCleans
=============================================================================
