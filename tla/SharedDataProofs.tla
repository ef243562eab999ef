--------------------------- MODULE SharedDataProofs ---------------------------
(***************************************************************************)
(* The properties of SharedData, for any number of Session values and      *)
(* allocations.                                                            *)
(***************************************************************************)
EXTENDS SharedData, FiniteSetTheorems, TLAPS

\* A value that somebody has refers to data that was not freed.
DataIsAlive ==
    \A h \in Held : handle[h].data \in Cells /\ cell[handle[h].data] \in CellStates

\* Nobody can begin to share data whose only owner is about to reset it.
ResetIsAlone == \A h \in Held : handle[h].at = "reset" => Sharing(handle[h].data) = {h}

IInv == TypeOK /\ DataIsAlive /\ ResetIsAlone /\ SavesAreCounted /\ MetadataIsTracked

-----------------------------------------------------------------------------
(* Who refers to which data after a step.                                  *)

LEMMA SavingIsFinite ==
    ASSUME NEW c PROVE IsFiniteSet(SavingOn(c))
<1>1. SavingOn(c) \in SUBSET Handles
  BY DEF SavingOn, Sharing, Held
<1> QED  BY <1>1, FS_Subset, HandlesAssumption

\* No reference comes or goes.
LEMMA SameReferences ==
    ASSUME \A h \in Handles : /\ handle'[h].data = handle[h].data
                              /\ handle'[h].at = "absent" <=> handle[h].at = "absent"
    PROVE  /\ Held' = Held
           /\ \A c : (Sharing(c))' = Sharing(c)
           /\ FreeCells' = FreeCells
<1>1. Held' = Held
  BY DEF Held
<1>2. \A c : (Sharing(c))' = Sharing(c)
  BY <1>1 DEF Sharing, Held
<1> QED  BY <1>1, <1>2 DEF FreeCells

\* One value goes away.
LEMMA OneReferenceLess ==
    ASSUME TypeOK, NEW h \in Held, handle' = [handle EXCEPT ![h] = Absent]
    PROVE  /\ handle' \in [Handles -> HandleStates]
           /\ Held' = Held \ {h} /\ \A g \in Held' : handle'[g] = handle[g]
           /\ \A c : (Sharing(c))' = Sharing(c) \ {h} /\ (SavingOn(c))' = SavingOn(c) \ {h}
<1>1. Absent \in HandleStates /\ Absent.at = "absent"
  BY DEF Absent, HandleStates
<1>2. /\ handle' \in [Handles -> HandleStates]
      /\ handle'[h].at = "absent" /\ \A g \in Handles \ {h} : handle'[g] = handle[g]
  BY <1>1 DEF TypeOK, Held
<1>3. Held' = Held \ {h} /\ \A g \in Held' : handle'[g] = handle[g]
  BY <1>2 DEF Held
<1>4. \A c : (Sharing(c))' = Sharing(c) \ {h}
  BY <1>3 DEF Sharing
<1>5. \A c : (SavingOn(c))' = SavingOn(c) \ {h}
  BY <1>3, <1>4 DEF SavingOn, Sharing
<1> QED  BY <1>2, <1>3, <1>4, <1>5

\* One value is new, or refers to other data than before.
LEMMA OneReferenceMore ==
    ASSUME TypeOK, NEW h \in Handles, NEW r \in HandleStates, r.at = "live",
           handle' = [handle EXCEPT ![h] = r],
           h \in Held => handle[h].at # "saving"
    PROVE  /\ handle' \in [Handles -> HandleStates]
           /\ Held' = Held \cup {h} /\ handle'[h] = r
           /\ \A g \in Held \ {h} : handle'[g] = handle[g]
           /\ \A c : /\ (Sharing(c))' = IF c = r.data THEN Sharing(c) \cup {h}
                                        ELSE Sharing(c) \ {h}
                     /\ (SavingOn(c))' = SavingOn(c)
<1>1. /\ handle' \in [Handles -> HandleStates] /\ handle'[h] = r
      /\ \A g \in Handles \ {h} : handle'[g] = handle[g]
  BY DEF TypeOK
<1>2. Held' = Held \cup {h} /\ Held \subseteq Handles
  BY <1>1 DEF Held
<1>3. \A c : (Sharing(c))' = IF c = r.data THEN Sharing(c) \cup {h} ELSE Sharing(c) \ {h}
  BY <1>1, <1>2 DEF Sharing
<1>4. \A c : (SavingOn(c))' = SavingOn(c)
  BY <1>1, <1>2, <1>3 DEF SavingOn, Sharing
<1> QED  BY <1>1, <1>2, <1>3, <1>4

-----------------------------------------------------------------------------
(* The steps.                                                              *)

LEMMA InitHolds == Init => IInv
<1> SUFFICES ASSUME Init PROVE IInv
  OBVIOUS
<1>1. Held = {} /\ TypeOK
  BY DEF Init, Held, Absent, TypeOK, HandleStates
<1> QED  BY <1>1 DEF IInv, DataIsAlive, ResetIsAlone, SavesAreCounted, MetadataIsTracked,
                     FreeCells, Sharing

\* A step on the data of h that changes no references and no saves.
LEMMA InPlace ==
    ASSUME IInv, NEW h \in Held, NEW d, handle[h].data = d, NEW k \in CellStates,
           handle' \in [Handles -> HandleStates],
           \A g \in Handles : /\ handle'[g].data = handle[g].data
                              /\ handle'[g].at = "absent" <=> handle[g].at = "absent"
                              /\ handle'[g].at = "reset" =>
                                    handle[g].at = "reset" \/ ~Shared(g)
                              /\ g \in Held /\ handle'[g].moved => handle'[g].metadata_changed,
           cell' = [cell EXCEPT ![d] = k],
           k.active_saves = Cardinality((SavingOn(d))'),
           \A c : c # d => (SavingOn(c))' = SavingOn(c)
    PROVE  IInv'
<1>1. /\ Held' = Held /\ FreeCells' = FreeCells
      /\ \A c : (Sharing(c))' = Sharing(c)
  BY SameReferences
<1>2. d \in Cells /\ cell' \in [Cells -> CellStates \cup {NoData}] /\ cell'[d] = k
      /\ \A c \in Cells \ {d} : cell'[c] = cell[c]
  BY DEF IInv, TypeOK, DataIsAlive
<1>3. TypeOK' /\ DataIsAlive'
  BY <1>1, <1>2 DEF IInv, TypeOK, DataIsAlive, Held
<1>4. ResetIsAlone'
  BY <1>1 DEF IInv, ResetIsAlone, Shared, Held
<1>5. SavesAreCounted'
  <2> SUFFICES ASSUME NEW c \in Cells \ FreeCells
               PROVE  cell'[c].active_saves = Cardinality((SavingOn(c))')
    BY <1>1 DEF SavesAreCounted
  <2>1. cell[c].active_saves = Cardinality(SavingOn(c))
    BY DEF IInv, SavesAreCounted
  <2> QED  BY <1>2, <2>1
<1>6. MetadataIsTracked'
  BY <1>1 DEF MetadataIsTracked, Held
<1> QED  BY <1>3, <1>4, <1>5, <1>6 DEF IInv

\* A value goes away and leaves k for those that share its data.
LEMMA LetGo ==
    ASSUME IInv, NEW h \in Held, NEW k \in CellStates,
           handle' = [handle EXCEPT ![h] = Absent],
           cell' = Released(h, [cell EXCEPT ![handle[h].data] = k]),
           k.active_saves = Cardinality(SavingOn(handle[h].data) \ {h})
    PROVE  IInv'
<1> DEFINE d == handle[h].data
<1>1. /\ handle' \in [Handles -> HandleStates]
      /\ Held' = Held \ {h} /\ \A g \in Held' : handle'[g] = handle[g]
      /\ \A c : (Sharing(c))' = Sharing(c) \ {h} /\ (SavingOn(c))' = SavingOn(c) \ {h}
  BY OneReferenceLess DEF IInv
<1>2. d \in Cells /\ h \in Sharing(d) /\ \A c : c # d => h \notin Sharing(c)
  BY DEF IInv, DataIsAlive, Sharing
<1>3. /\ cell' \in [Cells -> CellStates \cup {NoData}]
      /\ Sharing(d) # {h} => cell'[d] = k
      /\ \A c \in Cells \ {d} : cell'[c] = cell[c]
  BY <1>2 DEF IInv, TypeOK, Released
<1>4. TypeOK' /\ MetadataIsTracked'
  BY <1>1, <1>3 DEF IInv, TypeOK, MetadataIsTracked
<1>5. DataIsAlive'
  <2> SUFFICES ASSUME NEW g \in Held'
               PROVE  handle[g].data \in Cells /\ cell'[handle[g].data] \in CellStates
    BY <1>1 DEF DataIsAlive
  <2>1. g \in Held /\ g # h /\ g \in Sharing(handle[g].data)
        /\ handle[g].data \in Cells /\ cell[handle[g].data] \in CellStates
    BY <1>1 DEF IInv, DataIsAlive, Sharing
  <2> QED  BY <1>3, <2>1
<1>6. ResetIsAlone'
  <2> SUFFICES ASSUME NEW g \in Held', handle[g].at = "reset"
               PROVE  Sharing(handle[g].data) \ {h} = {g}
    BY <1>1 DEF ResetIsAlone
  <2>1. g \in Held /\ g # h /\ Sharing(handle[g].data) = {g}
    BY <1>1 DEF IInv, ResetIsAlone
  <2> QED  BY <2>1
<1>7. SavesAreCounted'
  <2> SUFFICES ASSUME NEW c \in Cells, Sharing(c) \ {h} # {}
               PROVE  cell'[c].active_saves = Cardinality(SavingOn(c) \ {h})
    BY <1>1 DEF SavesAreCounted, FreeCells
  <2>1. CASE c = d
    BY <1>2, <1>3, <2>1
  <2>2. CASE c # d
    <3>1. SavingOn(c) \ {h} = SavingOn(c)
      BY <1>2, <2>2 DEF SavingOn
    <3>2. cell[c].active_saves = Cardinality(SavingOn(c))
      BY DEF IInv, SavesAreCounted, FreeCells
    <3> QED  BY <1>3, <2>2, <3>1, <3>2
  <2> QED  BY <2>1, <2>2
<1> QED  BY <1>4, <1>5, <1>6, <1>7 DEF IInv

LEMMA HeldFacts ==
    ASSUME IInv, NEW h \in Held
    PROVE  /\ handle[h] \in HandleStates /\ h \in Sharing(handle[h].data)
           /\ handle[h].data \in Cells /\ cell[handle[h].data] \in CellStates
           /\ cell = [cell EXCEPT ![handle[h].data] = cell[handle[h].data]]
           /\ cell[handle[h].data].active_saves = Cardinality(SavingOn(handle[h].data))
           /\ handle[h].moved => handle[h].metadata_changed
<1>1. /\ h \in Handles /\ handle[h].data \in Cells /\ cell[handle[h].data] \in CellStates
      /\ handle[h] \in HandleStates /\ h \in Sharing(handle[h].data)
  BY DEF IInv, TypeOK, DataIsAlive, Held, Sharing
<1>2. cell = [cell EXCEPT ![handle[h].data] = cell[handle[h].data]]
  BY <1>1 DEF IInv, TypeOK
<1>3. cell[handle[h].data].active_saves = Cardinality(SavingOn(handle[h].data))
  BY <1>1 DEF IInv, SavesAreCounted, FreeCells
<1>4. handle[h].moved => handle[h].metadata_changed
  BY DEF IInv, MetadataIsTracked
<1> QED  BY <1>1, <1>2, <1>3, <1>4

\* A step in which nobody begins or ends a save, or reads the reference count.
LEMMA InPlaceWithoutSave ==
    ASSUME IInv, NEW h \in Held, NEW k \in CellStates,
           handle' \in [Handles -> HandleStates],
           \A g \in Handles : /\ handle'[g].data = handle[g].data
                              /\ handle'[g].at = handle[g].at \/
                                    (handle[g].at = "live" /\ handle'[g].at = "copy") \/
                                    (handle[g].at = "live" /\ handle'[g].at = "reset" /\ ~Shared(g))
                                    \/ (handle[g].at = "reset" /\ handle'[g].at = "live")
                              /\ g \in Held /\ handle'[g].moved => handle'[g].metadata_changed,
           cell' = [cell EXCEPT ![handle[h].data] = k],
           k.active_saves = cell[handle[h].data].active_saves
    PROVE  IInv'
<1>1. PICK d : d = handle[h].data
  OBVIOUS
<1>2. \A g \in Handles : /\ handle'[g].at = "absent" <=> handle[g].at = "absent"
                         /\ handle'[g].at = "saving" <=> handle[g].at = "saving"
                         /\ handle'[g].at = "reset" => handle[g].at = "reset" \/ ~Shared(g)
  OBVIOUS
<1>3. Held' = Held /\ \A c : (Sharing(c))' = Sharing(c)
  BY <1>2, SameReferences
<1>4. \A c : (SavingOn(c))' = SavingOn(c)
  BY <1>2, <1>3 DEF SavingOn, Sharing, Held
<1>5. k.active_saves = Cardinality((SavingOn(d))')
  BY <1>1, <1>4, HeldFacts
<1> QED  BY <1>1, <1>2, <1>4, <1>5, InPlace

LEMMA EditHolds ==
    ASSUME IInv, NEW h \in Handles, NEW v \in Values, Edit(h, v)
    PROVE  IInv'
<1> DEFINE d == handle[h].data
           k == [cell[d] EXCEPT !.values = v, !.unsaved = TRUE]
<1>1. h \in Held /\ d \in Cells /\ cell[d] \in CellStates
  BY HeldFacts DEF Edit, Held
<1>2. k \in CellStates /\ k.active_saves = cell[d].active_saves
  BY <1>1 DEF CellStates
<1>3. cell' = [cell EXCEPT ![d] = k]
  BY <1>1 DEF Edit, IInv, TypeOK, CellStates
<1>4. /\ handle' \in [Handles -> HandleStates]
      /\ \A g \in Handles : /\ handle'[g].data = handle[g].data
                            /\ handle'[g].at = handle[g].at
                            /\ handle'[g].moved = handle[g].moved
                            /\ handle'[g].metadata_changed = handle[g].metadata_changed
  BY DEF Edit, IInv, TypeOK, HandleStates
<1>5. \A g \in Held : handle'[g].moved => handle'[g].metadata_changed
  BY <1>4 DEF IInv, MetadataIsTracked, Held
<1> HIDE DEF k
<1> QED
  BY <1>1, <1>2, <1>3, <1>4, <1>5, InPlaceWithoutSave

LEMMA MetadataHolds ==
    ASSUME IInv, NEW h \in Handles, SetMetadata(h) \/ ResetDataChanged(h)
    PROVE  IInv'
<1> DEFINE d == handle[h].data
           k == IF SetMetadata(h) THEN cell[d]
                ELSE [cell[d] EXCEPT !.unsaved = FALSE, !.uncertain_save = FALSE]
<1>1. /\ h \in Held /\ d \in Cells /\ cell[d] \in CellStates
      /\ cell = [cell EXCEPT ![d] = cell[d]]
  BY HeldFacts DEF SetMetadata, ResetDataChanged, Held
<1>2. k \in CellStates /\ k.active_saves = cell[d].active_saves
  BY <1>1 DEF CellStates
<1>3. cell' = [cell EXCEPT ![d] = k]
  <2>1. CASE SetMetadata(h)
    BY <1>1, <2>1 DEF SetMetadata
  <2>2. CASE ~SetMetadata(h)
    BY <1>1, <2>2 DEF ResetDataChanged, IInv, TypeOK, CellStates
  <2> QED  BY <2>1, <2>2
<1>4. /\ handle' \in [Handles -> HandleStates]
      /\ \A g \in Handles : handle'[g].data = handle[g].data /\ handle'[g].at = handle[g].at
      /\ handle'[h].moved => handle'[h].metadata_changed
      /\ \A g \in Handles \ {h} : handle'[g] = handle[g]
  <2> DEFINE R(m, n) == [handle[h] EXCEPT !.moved = m, !.metadata_changed = n]
             Goal == /\ handle' \in [Handles -> HandleStates]
                     /\ \A g \in Handles : handle'[g].data = handle[g].data
                                          /\ handle'[g].at = handle[g].at
                     /\ handle'[h].moved => handle'[h].metadata_changed
                     /\ \A g \in Handles \ {h} : handle'[g] = handle[g]
  <2> SUFFICES Goal
    OBVIOUS
  <2>1. ASSUME NEW r \in HandleStates, handle' = [handle EXCEPT ![h] = r],
               r.data = handle[h].data, r.at = handle[h].at, r.moved => r.metadata_changed
        PROVE  Goal
    BY <2>1 DEF IInv, TypeOK
  <2>2. /\ R(TRUE, TRUE) \in HandleStates /\ R(TRUE, TRUE).metadata_changed
        /\ R(TRUE, TRUE).data = handle[h].data /\ R(TRUE, TRUE).at = handle[h].at
    BY DEF IInv, TypeOK, HandleStates
  <2>3. /\ R(FALSE, TRUE) \in HandleStates /\ R(FALSE, TRUE).metadata_changed
        /\ R(FALSE, TRUE).data = handle[h].data /\ R(FALSE, TRUE).at = handle[h].at
    BY DEF IInv, TypeOK, HandleStates
  <2>4. /\ R(FALSE, FALSE) \in HandleStates /\ ~R(FALSE, FALSE).moved
        /\ R(FALSE, FALSE).data = handle[h].data /\ R(FALSE, FALSE).at = handle[h].at
    BY DEF IInv, TypeOK, HandleStates
  <2>5. CASE ResetDataChanged(h)
    <3>1. handle' = [handle EXCEPT ![h] = R(FALSE, FALSE)]
      BY <2>5 DEF ResetDataChanged, IInv, TypeOK, HandleStates
    <3>2. PICK r : r = R(FALSE, FALSE)
      OBVIOUS
    <3> HIDE DEF R, Goal
    <3> QED  BY <3>1, <3>2, <2>1, <2>4
  <2>6. CASE SetMetadata(h)
    <3>1. PICK m \in BOOLEAN :
            handle' = [handle EXCEPT ![h].moved = m, ![h].metadata_changed = TRUE]
      BY <2>6 DEF SetMetadata
    <3>2. \/ handle' = [handle EXCEPT ![h].moved = TRUE, ![h].metadata_changed = TRUE]
          \/ handle' = [handle EXCEPT ![h].moved = FALSE, ![h].metadata_changed = TRUE]
      BY <3>1, Zenon
    <3>3. PICK r : /\ r = R(TRUE, TRUE) \/ r = R(FALSE, TRUE)
                   /\ handle' = [handle EXCEPT ![h] = r]
      BY <3>2 DEF IInv, TypeOK, HandleStates
    <3> HIDE DEF R, Goal
    <3> QED  BY <3>3, <2>1, <2>2, <2>3
  <2> QED  BY <2>5, <2>6
<1>5. \A g \in Held : handle'[g].moved => handle'[g].metadata_changed
  BY <1>4 DEF IInv, MetadataIsTracked, Held
<1> HIDE DEF k
<1> QED
  BY <1>1, <1>2, <1>3, <1>4, <1>5, InPlaceWithoutSave

LEMMA CheckSharedHolds ==
    ASSUME IInv, NEW h \in Handles, CheckShared(h)
    PROVE  IInv'
<1> DEFINE d == handle[h].data
<1>1. /\ h \in Held /\ cell[d] \in CellStates /\ cell = [cell EXCEPT ![d] = cell[d]]
  BY HeldFacts DEF CheckShared, Held
<1>2. cell' = [cell EXCEPT ![d] = cell[d]]
  BY <1>1 DEF CheckShared
<1>3. /\ handle' \in [Handles -> HandleStates]
      /\ \A g \in Handles : /\ handle'[g].data = handle[g].data
                            /\ handle'[g].moved = handle[g].moved
                            /\ handle'[g].metadata_changed = handle[g].metadata_changed
      /\ \A g \in Handles \ {h} : handle'[g].at = handle[g].at
      /\ handle[h].at = "live"
      /\ handle'[h].at = "copy" \/ (handle'[h].at = "reset" /\ ~Shared(h))
  BY DEF CheckShared, IInv, TypeOK, HandleStates
<1>4. \A g \in Held : handle'[g].moved => handle'[g].metadata_changed
  BY <1>3 DEF IInv, MetadataIsTracked, Held
<1>5. \A g \in Handles : \/ handle'[g].at = handle[g].at
                         \/ handle[g].at = "live" /\ handle'[g].at = "copy"
                         \/ handle[g].at = "live" /\ handle'[g].at = "reset" /\ ~Shared(g)
  BY <1>3
<1> QED
  BY <1>1, <1>2, <1>3, <1>4, <1>5, InPlaceWithoutSave

LEMMA ResetOwnedHolds ==
    ASSUME IInv, NEW h \in Handles, ResetOwned(h)
    PROVE  IInv'
<1> DEFINE d == handle[h].data
           k == [cell[d] EXCEPT !.unsaved = FALSE, !.uncertain_save = FALSE,
                                !.overlapping_saves = FALSE]
<1>1. h \in Held /\ d \in Cells /\ cell[d] \in CellStates
  BY HeldFacts DEF ResetOwned, Held
<1>2. k \in CellStates /\ k.active_saves = cell[d].active_saves
  BY <1>1 DEF CellStates
<1>3. cell' = [cell EXCEPT ![d] = k]
  BY <1>1 DEF ResetOwned, IInv, TypeOK, CellStates
<1>4. Fresh(d) \in HandleStates
  BY <1>1 DEF Fresh, HandleStates
<1>5. /\ handle' \in [Handles -> HandleStates]
      /\ handle'[h].data = d /\ ~handle'[h].moved
      /\ handle[h].at = "reset" /\ handle'[h].at = "live"
      /\ \A g \in Handles \ {h} : handle'[g] = handle[g]
  BY <1>4 DEF ResetOwned, Loaded, Fresh, IInv, TypeOK
<1>6. \A g \in Held : handle'[g].moved => handle'[g].metadata_changed
  BY <1>5 DEF IInv, MetadataIsTracked, Held
<1> HIDE DEF k
<1> QED
  BY <1>1, <1>2, <1>3, <1>5, <1>6, InPlaceWithoutSave

LEMMA CaptureHolds ==
    ASSUME IInv, NEW h \in Handles, Capture(h)
    PROVE  IInv'
<1>1. PICK d : d = handle[h].data
  OBVIOUS
<1>2. /\ h \in Held /\ d \in Cells /\ cell[d] \in CellStates /\ h \in Sharing(d)
      /\ cell[d].active_saves = Cardinality(SavingOn(d))
  BY <1>1, HeldFacts DEF Capture, Held
<1>3. PICK k \in CellStates : /\ k.active_saves = cell[d].active_saves + 1
                              /\ cell' = [cell EXCEPT ![d] = k]
  <2> DEFINE K(o, u) == [cell[d] EXCEPT !.active_saves = @ + 1, !.overlapping_saves = o,
                                        !.uncertain_save = u]
  <2>1. cell[d].active_saves + 1 \in Nat /\ cell[d].uncertain_save \in BOOLEAN
    BY <1>2 DEF CellStates
  <2>2. CASE cell[d].active_saves # 0
    <3>1. cell' = [cell EXCEPT ![d] = K(TRUE, TRUE)]
      BY <1>1, <1>2, <2>2 DEF Capture, IInv, TypeOK, CellStates
    <3>2. /\ K(TRUE, TRUE) \in CellStates
          /\ K(TRUE, TRUE).active_saves = cell[d].active_saves + 1
      BY <1>2, <2>1 DEF CellStates
    <3> QED  BY <3>1, <3>2
  <2>3. CASE cell[d].active_saves = 0 /\ cell[d].uncertain_save
    <3>1. cell' = [cell EXCEPT ![d] = K(FALSE, TRUE)]
      BY <1>1, <1>2, <2>3 DEF Capture, IInv, TypeOK, CellStates
    <3>2. /\ K(FALSE, TRUE) \in CellStates
          /\ K(FALSE, TRUE).active_saves = cell[d].active_saves + 1
      BY <1>2, <2>1 DEF CellStates
    <3> QED  BY <3>1, <3>2
  <2>4. CASE cell[d].active_saves = 0 /\ ~cell[d].uncertain_save
    <3>1. cell' = [cell EXCEPT ![d] = K(FALSE, FALSE)]
      BY <1>1, <1>2, <2>4 DEF Capture, IInv, TypeOK, CellStates
    <3>2. /\ K(FALSE, FALSE) \in CellStates
          /\ K(FALSE, FALSE).active_saves = cell[d].active_saves + 1
      BY <1>2, <2>1 DEF CellStates
    <3> QED  BY <3>1, <3>2
  <2> QED  BY <2>2, <2>3, <2>4
<1>5. /\ handle' \in [Handles -> HandleStates]
      /\ handle'[h].data = d /\ handle'[h].at = "saving" /\ handle[h].at = "live"
      /\ handle'[h].moved = handle[h].moved
      /\ handle'[h].metadata_changed = handle[h].metadata_changed
      /\ \A g \in Handles \ {h} : handle'[g] = handle[g]
  BY <1>1 DEF Capture, IInv, TypeOK, HandleStates
<1>6. /\ Held' = Held
      /\ \A c : (Sharing(c))' = Sharing(c)
  BY <1>1, <1>5, SameReferences
<1>7. /\ (SavingOn(d))' = SavingOn(d) \cup {h} /\ h \notin SavingOn(d)
      /\ \A c : c # d => (SavingOn(c))' = SavingOn(c)
  BY <1>1, <1>2, <1>5, <1>6 DEF SavingOn, Sharing, Held
<1>8. k.active_saves = Cardinality((SavingOn(d))')
  BY <1>2, <1>3, <1>7, SavingIsFinite, FS_AddElement
<1>9. \A g \in Held : handle'[g].moved => handle'[g].metadata_changed
  BY <1>5 DEF IInv, MetadataIsTracked, Held
<1> QED
  BY <1>1, <1>2, <1>3, <1>5, <1>7, <1>8, <1>9, InPlace

LEMMA EndOfSaveHolds ==
    ASSUME IInv, NEW h \in Handles, Acknowledge(h) \/ DropSave(h)
    PROVE  IInv'
<1> DEFINE d == handle[h].data
           k == IF Acknowledge(h)
                THEN [cell[d] EXCEPT
                        !.active_saves = @ - 1,
                        !.unsaved = IF cell[d].overlapping_saves THEN @ ELSE handle[h].edited,
                        !.uncertain_save = cell[d].overlapping_saves]
                ELSE [cell[d] EXCEPT !.active_saves = @ - 1, !.uncertain_save = TRUE]
<1>1. /\ h \in Held /\ handle[h].at = "saving"
      /\ handle' = [handle EXCEPT ![h] = Absent]
  BY DEF Acknowledge, DropSave, Held
<1>2. /\ d \in Cells /\ cell[d] \in CellStates /\ handle[h] \in HandleStates
      /\ h \in SavingOn(d) /\ cell[d].active_saves = Cardinality(SavingOn(d))
  BY <1>1, HeldFacts DEF SavingOn
<1>3. /\ Cardinality(SavingOn(d) \ {h}) = cell[d].active_saves - 1
      /\ Cardinality(SavingOn(d) \ {h}) \in Nat
  BY <1>2, SavingIsFinite, FS_RemoveElement, FS_CardinalityType
<1>4. k \in CellStates /\ k.active_saves = cell[d].active_saves - 1
  BY <1>2, <1>3 DEF CellStates, HandleStates
<1>5. cell' = Released(h, [cell EXCEPT ![d] = k])
  <2>1. CASE Acknowledge(h)
    <3>1. [cell EXCEPT ![d].active_saves = OneFewer(@),
                       ![d].unsaved = IF cell[d].overlapping_saves THEN @ ELSE handle[h].edited,
                       ![d].uncertain_save = cell[d].overlapping_saves]
          = [cell EXCEPT ![d] = k]
      BY <1>2, <2>1 DEF OneFewer, IInv, TypeOK, CellStates
    <3> HIDE DEF k
    <3> QED  BY <2>1, <3>1 DEF Acknowledge
  <2>2. CASE ~Acknowledge(h)
    <3>1. [cell EXCEPT ![d].active_saves = OneFewer(@), ![d].uncertain_save = TRUE]
          = [cell EXCEPT ![d] = k]
      BY <1>2, <2>2 DEF OneFewer, IInv, TypeOK, CellStates
    <3> HIDE DEF k
    <3> QED  BY <2>2, <3>1 DEF DropSave
  <2> QED  BY <2>1, <2>2
<1> HIDE DEF k
<1> QED  BY <1>1, <1>3, <1>4, <1>5, LetGo

LEMMA DropHandleHolds ==
    ASSUME IInv, NEW h \in Handles, DropHandle(h)
    PROVE  IInv'
<1> DEFINE d == handle[h].data
<1>1. h \in Held /\ handle[h].at # "saving" /\ handle' = [handle EXCEPT ![h] = Absent]
  BY DEF DropHandle, Held
<1>2. /\ cell[d] \in CellStates /\ cell = [cell EXCEPT ![d] = cell[d]]
      /\ cell[d].active_saves = Cardinality(SavingOn(d))
  BY <1>1, HeldFacts
<1>3. SavingOn(d) \ {h} = SavingOn(d)
  BY <1>1 DEF SavingOn
<1>4. cell' = Released(h, [cell EXCEPT ![d] = cell[d]])
  BY <1>2 DEF DropHandle
<1> QED  BY <1>1, <1>2, <1>3, <1>4, LetGo

\* A new value on data that nobody had before.
LEMMA NewData ==
    ASSUME IInv, NEW h \in Handles, NEW c \in FreeCells, NEW v \in Values,
           h \in Held => handle[h].at = "copy",
           handle' = [handle EXCEPT ![h] = Fresh(c)],
           cell' \in [Cells -> CellStates \cup {NoData}], cell'[c] = Untouched(v),
           \A d \in Cells \ {c} : Sharing(d) # {} /\ Sharing(d) # {h} => cell'[d] = cell[d]
    PROVE  IInv'
<1>1. c \in Cells /\ Sharing(c) = {}
  BY DEF FreeCells
<1>2. Fresh(c) \in HandleStates /\ Fresh(c).at = "live" /\ Fresh(c).data = c
      /\ ~Fresh(c).moved
  BY <1>1 DEF Fresh, HandleStates
<1>3. Untouched(v) \in CellStates /\ Untouched(v).active_saves = 0
  BY DEF Untouched, CellStates
<1>4. PICK r : r = Fresh(c)
  OBVIOUS
<1>5. /\ handle' \in [Handles -> HandleStates]
      /\ Held' = Held \cup {h} /\ handle'[h] = r
      /\ \A g \in Held \ {h} : handle'[g] = handle[g]
      /\ \A d : /\ (Sharing(d))' = IF d = c THEN Sharing(d) \cup {h} ELSE Sharing(d) \ {h}
                /\ (SavingOn(d))' = SavingOn(d)
  <2>1. /\ r \in HandleStates /\ r.at = "live" /\ r.data = c
        /\ handle' = [handle EXCEPT ![h] = r] /\ TypeOK
        /\ h \in Held => handle[h].at # "saving"
    BY <1>2, <1>4 DEF IInv
  <2>2. /\ handle' \in [Handles -> HandleStates]
        /\ Held' = Held \cup {h} /\ handle'[h] = r
        /\ \A g \in Held \ {h} : handle'[g] = handle[g]
        /\ \A d : /\ (Sharing(d))' = IF d = r.data THEN Sharing(d) \cup {h}
                                      ELSE Sharing(d) \ {h}
                  /\ (SavingOn(d))' = SavingOn(d)
    BY <2>1, OneReferenceMore
  <2> QED  BY <2>1, <2>2
<1>6. TypeOK' /\ MetadataIsTracked'
  BY <1>2, <1>4, <1>5 DEF IInv, TypeOK, MetadataIsTracked
<1>7. DataIsAlive'
  <2> SUFFICES ASSUME NEW g \in Held'
               PROVE  handle'[g].data \in Cells /\ cell'[handle'[g].data] \in CellStates
    BY DEF DataIsAlive
  <2>1. CASE g = h
    BY <1>1, <1>2, <1>3, <1>4, <1>5, <2>1
  <2>2. CASE g # h
    <3>1. g \in Held /\ handle'[g] = handle[g] /\ g \in Sharing(handle[g].data)
      BY <1>5, <2>2 DEF Sharing
    <3>2. /\ handle[g].data \in Cells \ {c}
          /\ Sharing(handle[g].data) # {} /\ Sharing(handle[g].data) # {h}
      BY <1>1, <2>2, <3>1, HeldFacts
    <3>3. cell'[handle[g].data] = cell[handle[g].data]
      BY <3>2
    <3> QED  BY <3>1, <3>2, <3>3, HeldFacts
  <2> QED  BY <2>1, <2>2
<1>8. ResetIsAlone'
  <2> SUFFICES ASSUME NEW g \in Held', handle'[g].at = "reset", NEW d, d = handle'[g].data
               PROVE  (Sharing(d))' = {g}
    BY DEF ResetIsAlone, Sharing
  <2>1. g # h /\ g \in Held /\ handle'[g] = handle[g]
    BY <1>2, <1>4, <1>5
  <2>2. Sharing(handle[g].data) = {g}
    BY <2>1 DEF IInv, ResetIsAlone
  <2> QED  BY <1>1, <1>5, <2>1, <2>2
<1>9. SavesAreCounted'
  <2> SUFFICES ASSUME NEW d \in Cells, (Sharing(d))' # {}
               PROVE  cell'[d].active_saves = Cardinality(SavingOn(d))
    BY <1>5 DEF SavesAreCounted, FreeCells
  <2>1. CASE d = c
    <3>1. SavingOn(d) = {}
      BY <1>1, <2>1 DEF SavingOn
    <3> QED  BY <1>3, <2>1, <3>1, FS_EmptySet
  <2>2. CASE d # c
    <3>1. Sharing(d) # {} /\ Sharing(d) # {h}
      BY <1>5, <2>2
    <3>2. cell[d].active_saves = Cardinality(SavingOn(d))
      BY <3>1 DEF IInv, SavesAreCounted, FreeCells
    <3> QED  BY <2>2, <3>1, <3>2
  <2> QED  BY <2>1, <2>2
<1> QED  BY <1>6, <1>7, <1>8, <1>9 DEF IInv

LEMMA CreateHolds ==
    ASSUME IInv, NEW h \in Handles, NEW c \in Cells, NEW v \in Values, Create(h, c, v)
    PROVE  IInv'
<1>1. c \in FreeCells /\ h \notin Held /\ handle' = [handle EXCEPT ![h] = Fresh(c)]
  BY DEF Create, Held
<1>2. Untouched(v) \in CellStates
  BY DEF Untouched, CellStates
<1>3. /\ cell' \in [Cells -> CellStates \cup {NoData}] /\ cell'[c] = Untouched(v)
      /\ \A d \in Cells \ {c} : cell'[d] = cell[d]
  BY <1>2 DEF Create, IInv, TypeOK
<1> QED  BY <1>1, <1>3, NewData

LEMMA CopySharedHolds ==
    ASSUME IInv, NEW h \in Handles, NEW c \in Cells, CopyShared(h, c)
    PROVE  IInv'
<1> DEFINE d == handle[h].data
           v == cell[d].values
<1>1. /\ c \in FreeCells /\ h \in Held /\ handle[h].at = "copy"
      /\ handle' = [handle EXCEPT ![h] = Fresh(c)]
  BY DEF CopyShared, Loaded, Held
<1>2. v \in Values /\ h \in Sharing(d)
  BY <1>1, HeldFacts DEF CellStates
<1>3. Untouched(v) \in CellStates
  BY <1>2 DEF Untouched, CellStates
<1>4. /\ Released(h, cell) \in [Cells -> CellStates \cup {NoData}]
      /\ \A e \in Cells : Sharing(e) # {h} => Released(h, cell)[e] = cell[e]
  BY <1>2 DEF Released, IInv, TypeOK
<1>5. /\ cell' \in [Cells -> CellStates \cup {NoData}] /\ cell'[c] = Untouched(v)
      /\ \A e \in Cells \ {c} : cell'[e] = Released(h, cell)[e]
  BY <1>3, <1>4 DEF CopyShared
<1>6. \A e \in Cells \ {c} : Sharing(e) # {} /\ Sharing(e) # {h} => cell'[e] = cell[e]
  BY <1>4, <1>5
<1>7. h \in Held => handle[h].at = "copy"
  BY <1>1
<1> HIDE DEF v
<1> QED  BY <1>1, <1>2, <1>5, <1>6, <1>7, NewData

LEMMA CloneHolds ==
    ASSUME IInv, NEW h \in Handles, NEW g \in Handles, Clone(h, g)
    PROVE  IInv'
<1> DEFINE d == handle[h].data
<1>1. /\ h \in Held /\ g \notin Held /\ handle[h].at = "live"
      /\ handle' = [handle EXCEPT ![g] = handle[h]] /\ cell' = cell
  BY DEF Clone, CopyOf, Held
<1>2. PICK r \in HandleStates : r = handle[h]
  BY DEF IInv, TypeOK
<1>3. /\ r.data \in Cells /\ cell[r.data] \in CellStates /\ h \in Sharing(r.data)
      /\ r.moved => r.metadata_changed
  BY <1>1, <1>2, HeldFacts
<1>4. /\ handle' \in [Handles -> HandleStates]
      /\ Held' = Held \cup {g} /\ handle'[g] = r
      /\ \A e \in Held \ {g} : handle'[e] = handle[e]
      /\ \A c : /\ (Sharing(c))' = IF c = r.data THEN Sharing(c) \cup {g} ELSE Sharing(c) \ {g}
                /\ (SavingOn(c))' = SavingOn(c)
  <2>1. r.at = "live" /\ handle' = [handle EXCEPT ![g] = r]
    BY <1>1, <1>2
  <2> QED  BY <1>1, <2>1, OneReferenceMore DEF IInv
<1>5. TypeOK' /\ DataIsAlive' /\ MetadataIsTracked'
  BY <1>1, <1>3, <1>4 DEF IInv, TypeOK, DataIsAlive, MetadataIsTracked
<1>6. ResetIsAlone'
  <2> SUFFICES ASSUME NEW e \in Held', handle'[e].at = "reset", NEW c, c = handle'[e].data
               PROVE  (Sharing(c))' = {e}
    BY DEF ResetIsAlone, Sharing
  <2>1. e # g /\ e \in Held /\ handle'[e] = handle[e]
    BY <1>1, <1>2, <1>4
  <2>2. Sharing(handle[e].data) = {e}
    BY <2>1 DEF IInv, ResetIsAlone
  <2>3. handle[e].data # r.data
    BY <1>1, <1>2, <1>3, <2>1, <2>2, <1>4
  <2> QED  BY <1>4, <2>1, <2>2, <2>3
<1>7. SavesAreCounted'
  <2> SUFFICES ASSUME NEW c \in Cells, (Sharing(c))' # {}
               PROVE  cell[c].active_saves = Cardinality(SavingOn(c))
    BY <1>1, <1>4 DEF SavesAreCounted, FreeCells
  <2>1. Sharing(c) # {}
    BY <1>3, <1>4
  <2> QED  BY <2>1 DEF IInv, SavesAreCounted, FreeCells
<1> QED  BY <1>5, <1>6, <1>7 DEF IInv

LEMMA StutterHolds == ASSUME IInv, UNCHANGED vars PROVE IInv'
  BY DEF vars, IInv, TypeOK, DataIsAlive, ResetIsAlone, SavesAreCounted, MetadataIsTracked,
         Held, Sharing, SavingOn, FreeCells

LEMMA NextHolds == IInv /\ [Next]_vars => IInv'
<1> SUFFICES ASSUME IInv, [Next]_vars PROVE IInv'
  OBVIOUS
<1>1. CASE UNCHANGED vars
  BY <1>1, StutterHolds
<1>2. CASE Next
  <2>1. PICK h \in Handles :
          \/ \E c \in Cells, v \in Values : Create(h, c, v)
          \/ CheckShared(h) \/ ResetOwned(h) \/ \E c \in Cells : CopyShared(h, c)
          \/ \E g \in Handles : Clone(h, g)
          \/ \E v \in Values : Edit(h, v)
          \/ SetMetadata(h) \/ DropHandle(h) \/ ResetDataChanged(h)
          \/ Capture(h) \/ Acknowledge(h) \/ DropSave(h)
    BY <1>2 DEF Next
  <2> QED
    BY <2>1, CreateHolds, CheckSharedHolds, ResetOwnedHolds, CopySharedHolds, CloneHolds,
       EditHolds, MetadataHolds, DropHandleHolds, CaptureHolds, EndOfSaveHolds
<1> QED  BY <1>1, <1>2

LEMMA Invariance == Spec => []IInv
  BY InitHolds, NextHolds, PTL DEF Spec

\* Every Session value and every SessionData keeps its type.
THEOREM SharedDataTypes == Spec => []TypeOK
  BY Invariance, PTL DEF IInv

\* SessionData.active_saves counts the SaveRevisions under way (capture,
\* acknowledge, drop), whoever took the data over in validate_loaded.
THEOREM SavesStayCounted == Spec => []SavesAreCounted
  BY Invariance, PTL DEF IInv

\* metadata_changed is set in every Session value that differs from what was
\* loaded, created or reset, clones included (Clone for Session).
THEOREM MetadataStaysTracked == Spec => []MetadataIsTracked
  BY Invariance, PTL DEF IInv

-----------------------------------------------------------------------------
(* The end of a load.                                                      *)

\* What a load that ends on data c' leaves to all others.
OthersKeepTheirs(h, d) ==
    \A g \in Held \ {h} : /\ handle[g].data # d
                          /\ handle'[g] = handle[g]
                          /\ cell'[handle[g].data] = cell[handle[g].data]

LEMMA ResetIsIsolated ==
    ASSUME IInv, NEW h \in Handles, ResetOwned(h)
    PROVE  LET c == handle[h].data IN
           /\ handle'[h] = Fresh(c) /\ cell'[c].values = cell[c].values
           /\ cell'[c].active_saves = 0 /\ OthersKeepTheirs(h, c)
           /\ ~cell'[c].unsaved /\ ~cell'[c].uncertain_save
<1> DEFINE c == handle[h].data
<1>1. /\ h \in Held /\ c \in Cells /\ cell[c] \in CellStates
      /\ cell[c].active_saves = Cardinality(SavingOn(c))
  BY HeldFacts DEF ResetOwned, Held
<1>2. Sharing(c) = {h} /\ SavingOn(c) = {}
  BY <1>1 DEF ResetOwned, IInv, ResetIsAlone, SavingOn
<1>3. cell[c].active_saves = 0
  BY <1>1, <1>2, FS_EmptySet
<1>4. /\ cell'[c].values = cell[c].values /\ cell'[c].active_saves = 0
      /\ ~cell'[c].unsaved /\ ~cell'[c].uncertain_save
      /\ \A d \in Cells \ {c} : cell'[d] = cell[d]
  BY <1>1, <1>3 DEF ResetOwned, IInv, TypeOK, CellStates
<1>5. handle'[h] = Fresh(c) /\ \A g \in Handles \ {h} : handle'[g] = handle[g]
  BY DEF ResetOwned, Loaded, IInv, TypeOK
<1>6. \A g \in Held \ {h} : g \in Handles /\ handle[g].data \in Cells \ {c}
  BY <1>2, HeldFacts DEF Sharing, Held
<1> QED  BY <1>4, <1>5, <1>6 DEF OthersKeepTheirs

LEMMA CopyIsIsolated ==
    ASSUME IInv, NEW h \in Handles, NEW c \in Cells, CopyShared(h, c)
    PROVE  /\ handle'[h] = Fresh(c) /\ cell'[c].values = cell[handle[h].data].values
           /\ cell'[c].active_saves = 0 /\ OthersKeepTheirs(h, c)
           /\ ~cell'[c].unsaved /\ ~cell'[c].uncertain_save
<1> DEFINE d == handle[h].data
           v == cell[d].values
<1>1. h \in Held /\ h \in Sharing(d) /\ Sharing(c) = {} /\ d \in Cells
  BY HeldFacts DEF CopyShared, Held, FreeCells
<1>2. /\ Released(h, cell) \in [Cells -> CellStates \cup {NoData}]
      /\ \A e \in Cells : Sharing(e) # {h} => Released(h, cell)[e] = cell[e]
  BY <1>1 DEF Released, IInv, TypeOK
<1>3. cell'[c] = Untouched(v) /\ \A e \in Cells \ {c} : cell'[e] = Released(h, cell)[e]
  BY <1>2 DEF CopyShared
<1>4. /\ Untouched(v).values = v /\ Untouched(v).active_saves = 0
      /\ ~Untouched(v).unsaved /\ ~Untouched(v).uncertain_save
  BY DEF Untouched
<1>5. handle'[h] = Fresh(c) /\ \A g \in Handles \ {h} : handle'[g] = handle[g]
  BY DEF CopyShared, Loaded, IInv, TypeOK
<1>6. OthersKeepTheirs(h, c)
  <2> SUFFICES ASSUME NEW g \in Held, g # h
               PROVE  /\ handle[g].data # c /\ handle'[g] = handle[g]
                      /\ cell'[handle[g].data] = cell[handle[g].data]
    BY DEF OthersKeepTheirs
  <2>1. g \in Handles /\ handle[g].data \in Cells /\ g \in Sharing(handle[g].data)
    BY HeldFacts DEF Held
  <2>2. handle[g].data # c /\ Sharing(handle[g].data) # {h}
    BY <1>1, <2>1
  <2> QED  BY <1>2, <1>3, <1>5, <2>1, <2>2
<1> HIDE DEF v
<1>7. cell'[c].values = v /\ cell'[c].active_saves = 0
      /\ ~cell'[c].unsaved /\ ~cell'[c].uncertain_save
  BY <1>3, <1>4
<1> QED  BY <1>5, <1>6, <1>7 DEF v

\* Only validate_loaded's second step ends a load.
LEMMA OnlyTheyFinish ==
    ASSUME IInv, Next, NEW h \in Handles, FinishesLoad(h)
    PROVE  ResetOwned(h) \/ \E c \in Cells : CopyShared(h, c)
<1>1. PICK g \in Handles :
        \/ \E c \in Cells, v \in Values : Create(g, c, v)
        \/ CheckShared(g) \/ ResetOwned(g) \/ \E c \in Cells : CopyShared(g, c)
        \/ \E f \in Handles : Clone(g, f)
        \/ \E v \in Values : Edit(g, v)
        \/ SetMetadata(g) \/ DropHandle(g) \/ ResetDataChanged(g)
        \/ Capture(g) \/ Acknowledge(g) \/ DropSave(g)
  BY DEF Next
<1>2. handle \in [Handles -> HandleStates] /\ handle[h].at \in {"copy", "reset"}
      /\ handle'[h].at = "live"
  BY DEF FinishesLoad, IInv, TypeOK
<1>3. CASE \E c \in Cells, v \in Values : Create(g, c, v)
  BY <1>2, <1>3 DEF Create
<1>4. CASE CheckShared(g)
  BY <1>2, <1>4 DEF CheckShared, HandleStates
<1>5. CASE \E f \in Handles : Clone(g, f)
  BY <1>2, <1>5 DEF Clone
<1>6. CASE \E v \in Values : Edit(g, v)
  BY <1>2, <1>6 DEF Edit, HandleStates
<1>7. CASE SetMetadata(g)
  <2>1. handle[g].at = "live" /\ \A f \in Handles \ {g} : handle'[f] = handle[f]
    BY <1>2, <1>7 DEF SetMetadata
  <2> QED  BY <1>2, <2>1
<1>8. CASE DropHandle(g) \/ Acknowledge(g) \/ DropSave(g)
  BY <1>2, <1>8 DEF DropHandle, Acknowledge, DropSave, Absent
<1>9. CASE ResetDataChanged(g)
  BY <1>2, <1>9 DEF ResetDataChanged
<1>10. CASE Capture(g)
  BY <1>2, <1>10 DEF Capture
<1>11. CASE ResetOwned(g) \/ \E c \in Cells : CopyShared(g, c)
  <2>1. \A f \in Handles \ {g} : handle'[f] = handle[f]
    BY <1>2, <1>11 DEF ResetOwned, CopyShared, Loaded
  <2>2. g = h
    BY <1>2, <2>1
  <2> QED  BY <1>11, <2>2
<1> QED  BY <1>1, <1>3, <1>4, <1>5, <1>6, <1>7, <1>8, <1>9, <1>10, <1>11

LEMMA IsolatedStep ==
    ASSUME IInv, [Next]_vars, NEW h \in Handles, FinishesLoad(h)
    PROVE  LET c == handle[h].data
               d == handle'[h].data
           IN  /\ ~DataChanged(h)'
               /\ cell'[d].values = cell[c].values /\ cell'[d].active_saves = 0
               /\ OthersKeepTheirs(h, d)
<1>1. Next
  BY DEF FinishesLoad, vars
<1>2. PICK d \in Cells : /\ handle'[h] = Fresh(d)
                         /\ cell'[d].values = cell[handle[h].data].values
                         /\ cell'[d].active_saves = 0 /\ OthersKeepTheirs(h, d)
                         /\ ~cell'[d].unsaved /\ ~cell'[d].uncertain_save
  <2>1. CASE ResetOwned(h)
    BY <2>1, ResetIsIsolated, HeldFacts DEF ResetOwned, Held
  <2>2. CASE \E c \in Cells : CopyShared(h, c)
    BY <2>2, CopyIsIsolated
  <2> QED  BY <1>1, <2>1, <2>2, OnlyTheyFinish
<1>3. handle'[h].data = d /\ ~handle'[h].metadata_changed
  BY <1>2 DEF Fresh
<1>4. ~DataChanged(h)'
  BY <1>2, <1>3 DEF DataChanged
<1> QED  BY <1>2, <1>3, <1>4

\* Session::validate_loaded gives each request clean data of its own with the
\* values of the record, and disturbs no other Session value.
THEOREM LoadsStayIsolated == Spec => LoadsAreIsolated
<1>1. IInv /\ [Next]_vars =>
        [\A h \in Handles : FinishesLoad(h) =>
           LET c == handle[h].data
               d == handle'[h].data
           IN  /\ ~DataChanged(h)'
               /\ cell'[d].values = cell[c].values /\ cell'[d].active_saves = 0
               /\ \A g \in Held \ {h} :
                    /\ handle[g].data # d
                    /\ handle'[g] = handle[g]
                    /\ cell'[handle[g].data] = cell[handle[g].data]]_vars
  BY IsolatedStep DEF OthersKeepTheirs
<1> QED  BY <1>1, Invariance, PTL DEF Spec, LoadsAreIsolated
=============================================================================
