---------------------------- MODULE StoresProofs -----------------------------
(***************************************************************************)
(* Proofs about Stores and RedisStore, for every number of handles,        *)
(* families and IDs: the stores that take several steps where the contract *)
(* has one keep its promises.  What ServerStoreProofs shows of the         *)
(* contract is instantiated once per store, with the state that the        *)
(* store's refinement mapping shows to the contract; for the SQL stores    *)
(* SqlStoreProofs does so.                                                 *)
(***************************************************************************)
EXTENDS Stores, RedisStore, TLAPS

-----------------------------------------------------------------------------
(* MongoStore: the contract sees a rotation when its source is deleted, and *)
(* counts a replacement that is still to be inserted as stored.             *)

\* A rotation has deleted its source; its replacement is not stored yet.
MongoHandle ==
    [h \in Handles |->
        IF handle[h].at = "insert" THEN [handle[h] EXCEPT !.at = "wrote"] ELSE handle[h]]

Inserting == {handle[h].id : h \in {g \in Handles : handle[g].at = "insert"}}

\* A request that inserts the replacement in a rotation whose future is gone.
Overdue(r) == r.op = "insert" /\ \E j \in gone : lineage[j] = lineage[r.id]

Pending == Inserting \cup {r.id : r \in {q \in flying : Overdue(q)}}

MongoRecords == records \cup Pending
MongoFlying == {r \in flying : ~Overdue(r)}
MongoEnded ==
    {lineage[j] : j \in {k \in gone : \A i \in MongoRecords : lineage[i] # lineage[k]}}

MongoContract == INSTANCE ServerStoreProofs WITH
    CanOutliveFuture <- TRUE, handle <- MongoHandle, records <- MongoRecords,
    flying <- MongoFlying, ended <- MongoEnded

\* What the backend holds or held: unlike what the contract sees, without
\* the replacements that are still to be inserted.
Real == records \cup gone

\* No save of the family is under way, now or ever.
Dead(f) ==
    /\ family[f].destroy /\ ~family[f].uncertain
    /\ \A h \in Handles : handle[h].at \in {"write", "insert", "wrote"} => handle[h].family # f

\* Deletions are aimed at what is real or will never be.
Harmless(i) == i \in Real \/ (maker[i] \in Families /\ Dead(maker[i]))

MongoTypes ==
    /\ handle \in [Handles -> Mongo!HandleStates]
    /\ records \in SUBSET Ids /\ ended \in SUBSET Ids
    /\ flying \in SUBSET Mongo!Requests
    /\ \A r \in flying : \/ r.op = "delete"
                         \/ r.op = "insert" /\ r.source = NoId

\* What a handle refers to is real, or an ID that its own family drew.
HandleIsPrivate(h) ==
    /\ handle[h].rotation_from # NoId => handle[h].rotation_from \in Real
    /\ handle[h].at = "wrote" => handle[h].id \in Real
    /\ handle[h].at = "insert" => Mongo!Rotates(h)
    /\ handle[h].at # "absent" =>
         handle[h].id \in Real \/ maker[handle[h].id] = handle[h].family
    /\ handle[h].at = "delete" => Harmless(handle[h].target)

\* A pending ID is known to its rotation alone.
PendingIsPrivate ==
    /\ Pending \cap Real = {}
    /\ \A f \in Families : family[f].persisted_id # NoId =>
         family[f].used /\ family[f].persisted_id \in Real
    /\ \A h \in Handles : HandleIsPrivate(h)
    /\ \A r \in flying : r.op = "delete" => Harmless(r.id)

\* A family is uncertain once a creation of its IDs is in flight.
PendingIsFenced == \A r \in flying : r.op = "insert" => family[maker[r.id]].uncertain

MongoInv ==
    /\ MongoContract!FullInv /\ MongoTypes
    /\ PendingIsPrivate /\ PendingIsFenced
    /\ ended \subseteq MongoEnded /\ Mongo!LossIsFenced

\* A handle outside a rotation is what the contract sees.
LEMMA MongoFields ==
  ASSUME NEW g \in Handles
  PROVE  /\ MongoHandle[g].family = handle[g].family /\ MongoHandle[g].id = handle[g].id
         /\ MongoHandle[g].rotation_from = handle[g].rotation_from
         /\ MongoHandle[g].origin = handle[g].origin /\ MongoHandle[g].target = handle[g].target
         /\ MongoHandle[g].uncertain_on_drop = handle[g].uncertain_on_drop
         /\ handle[g].at # "insert" => MongoHandle[g] = handle[g]
         /\ handle[g].at = "insert" => MongoHandle[g].at = "wrote"
  BY DEF MongoHandle

LEMMA MongoUpdate ==
  ASSUME handle \in [Handles -> Mongo!HandleStates], NEW h \in Handles,
         NEW x, handle' = [handle EXCEPT ![h] = x], x.at # "insert"
  PROVE  MongoHandle' = [MongoHandle EXCEPT ![h] = x]
  BY DEF MongoHandle

LEMMA MongoDiscard ==
  ASSUME handle \in [Handles -> Mongo!HandleStates], NEW h \in Handles, Mongo!Discard(h)
  PROVE  MongoContract!Discard(h)
<1>1. Mongo!NoSession.at # "insert" /\ Mongo!NoSession = MongoContract!NoSession
  BY DEF Mongo!NoSession, MongoContract!NoSession
<1> QED
  BY <1>1, MongoUpdate DEF Mongo!Discard, MongoContract!Discard

LEMMA MongoMove ==
  ASSUME handle \in [Handles -> Mongo!HandleStates], NEW h \in Handles, NEW s, s # "insert",
         handle[h].at # "insert", Mongo!Move(h, s)
  PROVE  MongoContract!Move(h, s)
<1> DEFINE x == [handle[h] EXCEPT !.at = s]
<1>1. handle' = [handle EXCEPT ![h] = x] /\ x.at = s
  BY DEF Mongo!Move, Mongo!HandleStates
<1>2. MongoHandle[h] = handle[h]
  BY MongoFields
<1>3. MongoHandle' = [MongoHandle EXCEPT ![h] = x]
  <2> HIDE DEF x
  <2> QED
    BY <1>1, MongoUpdate
<1> QED
  BY <1>2, <1>3 DEF MongoContract!Move

LEMMA MongoSame == handle' = handle => MongoHandle' = MongoHandle
  BY DEF MongoHandle

LEMMA MongoLoad ==
  ASSUME handle \in [Handles -> Mongo!HandleStates], NEW h \in Handles, NEW f \in Families,
         NEW i \in Ids, Mongo!Load(h, f, i),
         MongoRecords' = MongoRecords, MongoFlying' = MongoFlying, MongoEnded' = MongoEnded
  PROVE  MongoContract!Load(h, f, i)
<1> DEFINE x == [handle[h] EXCEPT !.at = "live", !.family = f, !.id = i]
           ch == MongoHandle
<1>1. handle' = [handle EXCEPT ![h] = x] /\ x.at = "live" /\ handle[h].at = "absent"
  BY DEF Mongo!Load, Mongo!HandleStates
<1> HIDE DEF x
<1>2. ch' = [ch EXCEPT ![h] = x]
  BY <1>1, MongoUpdate
<1>3. ch[h] = handle[h] /\ ch = [g \in Handles |-> ch[g]]
  BY <1>1, MongoFields DEF MongoHandle
<1> HIDE DEF ch
<1>4. ch' = [ch EXCEPT ![h].at = "live", ![h].family = f, ![h].id = i]
  BY <1>2, <1>3 DEF x
<1>5. i \in MongoRecords
  BY DEF MongoRecords, Mongo!Load
<1> QED
  BY <1>1, <1>3, <1>4, <1>5
  DEF Mongo!Load, MongoContract!Load, Mongo!history, MongoContract!history, ch

\* The conditions of the code read nothing else of a handle.
LEMMA MongoConditions ==
  ASSUME NEW h \in Handles
  PROVE  /\ MongoContract!FamilyOf(h) = Mongo!FamilyOf(h)
         /\ MongoContract!OriginConflict(h) <=> Mongo!OriginConflict(h)
         /\ MongoContract!Superseded(h) <=> Mongo!Superseded(h)
         /\ MongoContract!AdmitsWrite(h) <=> Mongo!AdmitsWrite(h)
         /\ MongoContract!AdmitsDelete(h) <=> Mongo!AdmitsDelete(h)
         /\ MongoContract!CanCreate(h) <=> Mongo!CanCreate(h)
         /\ MongoContract!DeleteTarget(h) = Mongo!DeleteTarget(h)
<1>1. MongoContract!FamilyOf(h) = Mongo!FamilyOf(h)
  BY MongoFields DEF Mongo!FamilyOf, MongoContract!FamilyOf
<1>2. MongoContract!OriginConflict(h) <=> Mongo!OriginConflict(h)
  BY <1>1, MongoFields DEF Mongo!OriginConflict, MongoContract!OriginConflict
<1> QED
  BY <1>1, <1>2, MongoFields DEF Mongo!Superseded, MongoContract!Superseded, Mongo!AdmitsWrite, MongoContract!AdmitsWrite,
     Mongo!AdmitsDelete, MongoContract!AdmitsDelete, Mongo!CanCreate, MongoContract!CanCreate, Mongo!DeleteTarget,
     MongoContract!DeleteTarget

LEMMA MongoApplication ==
  ASSUME handle \in [Handles -> Mongo!HandleStates], NEW h \in Handles, Mongo!ApplicationStep(h),
         MongoRecords' = MongoRecords, MongoFlying' = MongoFlying, MongoEnded' = MongoEnded
  PROVE  MongoContract!ApplicationStep(h)
<1> DEFINE ch == MongoHandle
<1>0. /\ \A g \in Handles : handle[g].at # "insert" => ch[g] = handle[g]
      /\ \A g \in Handles : handle[g] \in Mongo!HandleStates
      /\ \A g \in Handles : /\ ch[g].family = handle[g].family /\ ch[g].id = handle[g].id
                            /\ ch[g].rotation_from = handle[g].rotation_from
  BY MongoFields
<1> HIDE DEF ch
<1>1. ASSUME NEW g \in Handles, NEW x, handle' = [handle EXCEPT ![g] = x], x.at # "insert"
      PROVE  ch' = [ch EXCEPT ![g] = x]
  BY <1>1, MongoUpdate DEF ch
<1>2. handle' = handle => ch' = ch
  BY DEF ch, MongoHandle
<1>3. ASSUME NEW f \in Families, NEW i \in Ids, Mongo!New(h, f, i) PROVE MongoContract!New(h, f, i)
  <2> DEFINE x == [handle[h] EXCEPT !.at = "live", !.family = f, !.id = i]
  <2>1. handle' = [handle EXCEPT ![h] = x] /\ x.at = "live" /\ handle[h].at = "absent"
    BY <1>0, <1>3 DEF Mongo!New, Mongo!HandleStates
  <2>2. ch' = [ch EXCEPT ![h] = x] /\ ch[h] = handle[h]
    BY <1>0, <1>1, <2>1
  <2>3. ch = [g \in Handles |-> ch[g]]
    BY DEF ch, MongoHandle
  <2>4. ch' = [ch EXCEPT ![h].at = "live", ![h].family = f, ![h].id = i]
    BY <2>2, <2>3
  <2> QED
    BY <1>3, <2>1, <2>2, <2>4 DEF Mongo!New, MongoContract!New, ch
<1>4. ASSUME NEW g \in Handles, Mongo!Clone(h, g) PROVE MongoContract!Clone(h, g)
  <2>1. handle[h].at = "live" /\ handle[g].at = "absent" /\ handle' = [handle EXCEPT ![g] = handle[h]]
    BY <1>4 DEF Mongo!Clone
  <2>2. ch' = [ch EXCEPT ![g] = handle[h]] /\ ch[h] = handle[h] /\ ch[g] = handle[g]
    BY <1>0, <1>1, <2>1
  <2> QED
    BY <1>4, <2>1, <2>2 DEF Mongo!Clone, MongoContract!Clone, Mongo!history, MongoContract!history, ch
<1>5. ASSUME NEW i \in Ids, Mongo!Regenerate(h, i) PROVE MongoContract!Regenerate(h, i)
  <2> DEFINE p == Mongo!FamilyOf(h).persisted_id
             s == IF p = handle[h].id \/ handle[h].rotation_from = p
                  THEN p ELSE handle[h].rotation_from
             x == [handle[h] EXCEPT !.rotation_from = s, !.id = i]
  <2>1. handle' = [handle EXCEPT ![h] = x] /\ x.at = "live" /\ handle[h].at = "live"
    BY <1>0, <1>5 DEF Mongo!Regenerate, Mongo!HandleStates
  <2>2. ch' = [ch EXCEPT ![h] = x] /\ ch[h] = handle[h]
    BY <1>0, <1>1, <2>1
  <2>3. MongoContract!FamilyOf(h) = Mongo!FamilyOf(h)
    BY MongoConditions
  <2>4. ch' = [ch EXCEPT ![h].rotation_from = s, ![h].id = i]
    BY <2>2
  <2> QED
    BY <1>5, <2>1, <2>2, <2>3, <2>4 DEF Mongo!Regenerate, MongoContract!Regenerate, ch
<1>6. CASE Mongo!Destroy(h)
  <2>1. handle' = handle /\ handle[h].at = "live"
    BY <1>6 DEF Mongo!Destroy
  <2> QED
    BY <1>0, <1>2, <1>6, <2>1, MongoConditions
    DEF Mongo!Destroy, MongoContract!Destroy, MongoContract!ApplicationStep, Mongo!history, MongoContract!history, ch
<1>7. CASE Mongo!BeginSave(h)
  <2> DEFINE x == [handle[h] EXCEPT !.at = "lock", !.origin = Mongo!FamilyOf(h).persisted_id]
  <2>1. handle' = [handle EXCEPT ![h] = x] /\ x.at = "lock" /\ handle[h].at = "live"
    BY <1>0, <1>7 DEF Mongo!BeginSave, Mongo!HandleStates
  <2>2. ch' = [ch EXCEPT ![h] = x] /\ ch[h] = handle[h]
    BY <1>0, <1>1, <2>1
  <2>3. MongoContract!BeginSave(h)
    BY <1>7, <2>1, <2>2, MongoConditions
    DEF Mongo!BeginSave, MongoContract!BeginSave, Mongo!ClaimsCreation, MongoContract!ClaimsCreation, Mongo!history,
        MongoContract!history, ch
  <2> QED
    BY <2>3 DEF MongoContract!ApplicationStep
<1>8. CASE Mongo!BeginBackendWrite(h)
  <2> DEFINE b == Mongo!CanCreate(h) /\ TRUE
             x == [handle[h] EXCEPT !.at = "write", !.uncertain_on_drop = b]
  <2>1. handle' = [handle EXCEPT ![h] = x] /\ x.at = "write" /\ handle[h].at = "lock"
    BY <1>0, <1>8 DEF Mongo!BeginBackendWrite, Mongo!HandleStates
  <2>2. ch' = [ch EXCEPT ![h] = x] /\ ch[h] = handle[h]
    BY <1>0, <1>1, <2>1
  <2>3. MongoContract!CanCreate(h) = Mongo!CanCreate(h)
    BY <1>0, <2>1, MongoFields DEF MongoContract!CanCreate, Mongo!CanCreate
  <2>4. ch' = [ch EXCEPT ![h].at = "write", ![h].uncertain_on_drop = MongoContract!CanCreate(h) /\ TRUE]
    BY <2>2, <2>3
  <2>5. MongoContract!BeginBackendWrite(h)
    BY <1>8, <2>1, <2>2, <2>4, MongoConditions
    DEF Mongo!BeginBackendWrite, MongoContract!BeginBackendWrite, Mongo!history, MongoContract!history, ch
  <2> QED
    BY <2>5 DEF MongoContract!ApplicationStep
<1>9. CASE Mongo!BeginDelete(h)
  <2>1. handle[h].at = "live" /\ MongoContract!Move(h, "dlock")
    BY <1>9, MongoMove DEF Mongo!BeginDelete
  <2> QED
    BY <1>0, <1>9, <2>1 DEF Mongo!BeginDelete, MongoContract!BeginDelete, MongoContract!ApplicationStep, Mongo!history,
       MongoContract!history, ch
<1>10. CASE Mongo!EnterDelete(h)
  <2> DEFINE x == [handle[h] EXCEPT !.at = "delete", !.target = Mongo!DeleteTarget(h)]
  <2>1. handle' = [handle EXCEPT ![h] = x] /\ x.at = "delete" /\ handle[h].at = "dlock"
    BY <1>0, <1>10 DEF Mongo!EnterDelete, Mongo!HandleStates
  <2>2. ch' = [ch EXCEPT ![h] = x] /\ ch[h] = handle[h]
    BY <1>0, <1>1, <2>1
  <2>3. MongoContract!EnterDelete(h)
    BY <1>10, <2>1, <2>2, MongoConditions
    DEF Mongo!EnterDelete, MongoContract!EnterDelete, Mongo!history, MongoContract!history, ch
  <2> QED
    BY <2>3 DEF MongoContract!ApplicationStep
<1>11. CASE Mongo!DropHandle(h) \/ Mongo!RefuseSave(h) \/ Mongo!RefuseBackendWrite(h) \/ Mongo!RefuseDelete(h)
  <2>1. handle[h].at \in {"live", "lock", "dlock"} /\ MongoContract!Discard(h) /\ ch[h] = handle[h]
    BY <1>0, <1>11, MongoDiscard
    DEF Mongo!DropHandle, Mongo!RefuseSave, Mongo!RefuseBackendWrite, Mongo!RefuseDelete
  <2>2. CASE Mongo!DropHandle(h)
    BY <2>1, <2>2 DEF Mongo!DropHandle, MongoContract!DropHandle, MongoContract!ApplicationStep, Mongo!history,
       MongoContract!history, ch
  <2>3. CASE Mongo!RefuseSave(h)
    BY <2>1, <2>3, MongoConditions DEF Mongo!RefuseSave, MongoContract!RefuseSave, MongoContract!ApplicationStep,
       Mongo!history, MongoContract!history, ch
  <2>4. CASE Mongo!RefuseBackendWrite(h)
    BY <2>1, <2>4, MongoConditions DEF Mongo!RefuseBackendWrite, MongoContract!RefuseBackendWrite,
       MongoContract!ApplicationStep, Mongo!history, MongoContract!history, ch
  <2>5. CASE Mongo!RefuseDelete(h)
    BY <2>1, <2>5, MongoConditions DEF Mongo!RefuseDelete, MongoContract!RefuseDelete, MongoContract!ApplicationStep,
       Mongo!history, MongoContract!history, ch
  <2> QED
    BY <1>11, <2>2, <2>3, <2>4, <2>5
<1> QED
  BY <1>3, <1>4, <1>5, <1>6, <1>7, <1>8, <1>9, <1>10, <1>11
  DEF Mongo!ApplicationStep, MongoContract!ApplicationStep

\* What the invariant says of a rotation between its two writes.
LEMMA InsertingFacts ==
  ASSUME MongoInv, NEW h \in Handles, handle[h].at = "insert"
  PROVE  LET f == handle[h].family IN
         /\ handle[h].id \in Pending /\ handle[h].id \in Ids /\ f \in Families
         /\ handle[h].origin \in gone /\ lineage[handle[h].origin] = lineage[handle[h].id]
         /\ handle[h].origin \notin {NoId, handle[h].id}
         /\ handle[h].origin = handle[h].rotation_from
         /\ maker[handle[h].id] = f /\ family[f].holder = h /\ ~family[f].uncertain
         /\ family[f].persisted_id = handle[h].origin /\ handle[h].uncertain_on_drop
<1> DEFINE mh == MongoHandle
           f == handle[h].family
<1>1. /\ mh[h].at = "wrote" /\ mh[h].family = f /\ mh[h].id = handle[h].id
      /\ mh[h].origin = handle[h].origin /\ mh[h].rotation_from = handle[h].rotation_from
      /\ mh[h].uncertain_on_drop = handle[h].uncertain_on_drop
  BY MongoFields
<1>2. MongoContract!IInv /\ MongoContract!Locks(h)
  BY DEF MongoInv, MongoContract!FullInv, MongoContract!Locking
<1> HIDE DEF mh
<1>3. handle[h].origin \notin {NoId, handle[h].id}
  BY DEF MongoInv, PendingIsPrivate, HandleIsPrivate, Mongo!Rotates
<1>u. ~family[f].uncertain
  BY <1>1, <1>2 DEF MongoContract!Locks, MongoContract!MarksDeletion, MongoContract!Writing,
     MongoContract!FamilyOf, mh
<1>4. handle[h].id \in Pending
  BY DEF Pending, Inserting
<1>5. f \in Families /\ handle[h].id \in Ids
  BY <1>1, <1>2 DEF MongoContract!IInv, MongoContract!HandlesAreSessions,
     MongoContract!Present, mh
<1>6. /\ family[f].holder = h /\ family[f].persisted_id = handle[h].origin
      /\ handle[h].uncertain_on_drop
      /\ handle[h].origin = handle[h].rotation_from /\ handle[h].origin \in gone
  BY <1>1, <1>2, <1>3 DEF MongoContract!Locks, MongoContract!HoldsLock,
     MongoContract!WritesCurrent, MongoContract!Writing, MongoContract!FamilyOf,
     MongoContract!CanCreate, mh
<1>7. maker[handle[h].id] = f
  BY <1>1, <1>2, <1>3, <1>6 DEF MongoContract!Locks, MongoContract!OwnsId,
     MongoContract!Present, mh
<1>8. lineage[handle[h].origin] = lineage[handle[h].id]
  BY <1>1, <1>2, <1>3, <1>6 DEF MongoContract!IInv, MongoContract!RotationsAreSound,
     MongoContract!RotationOf, mh
<1> QED
  BY <1>3, <1>u, <1>4, <1>5, <1>6, <1>7, <1>8

\* What it says of requests, and that nobody shares a pending ID.
LEMMA PendingFacts ==
  ASSUME MongoInv
  PROVE  /\ Pending \subseteq Ids /\ gone \subseteq Ids /\ records \subseteq Ids
         /\ \A i \in records \cup gone \cup Pending : lineage[i] # NoId
         /\ \A r \in flying : r.id \in Ids /\ (r.op = "insert" => lineage[r.id] # NoId)
         /\ \A r \in flying : r.op = "insert" /\ ~Overdue(r) =>
              MongoContract!NeverStored(r.id)
         /\ \A r \in flying : r.op # "delete" =>
              r.op = "insert" /\ r = [op |-> "insert", source |-> NoId, id |-> r.id]
         /\ \A g, h \in Handles :
              /\ handle[g].at = "insert" /\ handle[h].at = "insert"
              /\ handle[g].id = handle[h].id
              => g = h
         /\ \A h \in Handles, r \in flying :
              handle[h].at = "insert" /\ r.op = "insert" => r.id # handle[h].id
<1>0. /\ MongoContract!IInv /\ MongoContract!TypeOK /\ MongoTypes
      /\ PendingIsPrivate /\ PendingIsFenced
  BY DEF MongoInv, MongoContract!FullInv, MongoContract!IInv
<1>1. gone \subseteq Ids /\ records \subseteq Ids
  BY <1>0 DEF MongoContract!TypeOK, MongoTypes
<1>2. Pending \subseteq Ids
  BY <1>0 DEF MongoContract!TypeOK, MongoRecords
<1>3. \A i \in records \cup gone \cup Pending : lineage[i] # NoId
  BY <1>0 DEF MongoContract!IInv, MongoContract!DrawnIds, MongoContract!Stored, MongoRecords
<1>4. \A r \in flying : r.id \in Ids
  BY <1>0 DEF MongoTypes, Mongo!Requests
<1>5. ASSUME NEW r \in flying, r.op = "insert" PROVE lineage[r.id] # NoId
  <2>1. CASE Overdue(r)
    BY <1>3, <2>1 DEF Overdue
  <2>2. CASE ~Overdue(r)
    BY <1>0, <1>5, <2>2 DEF MongoContract!IInv, MongoContract!DrawnIds, MongoFlying
  <2> QED
    BY <2>1, <2>2
<1>6. ASSUME NEW r \in flying, r.op = "insert", ~Overdue(r)
      PROVE  MongoContract!NeverStored(r.id)
  BY <1>0, <1>6 DEF MongoContract!IInv, MongoContract!TicketsAreUnique, MongoFlying
<1>7. ASSUME NEW r \in flying, r.op # "delete"
      PROVE  r.op = "insert" /\ r = [op |-> "insert", source |-> NoId, id |-> r.id]
  BY <1>0, <1>7 DEF MongoTypes, Mongo!Requests
<1>8. ASSUME NEW g \in Handles, NEW h \in Handles, handle[g].at = "insert",
             handle[h].at = "insert", handle[g].id = handle[h].id
      PROVE  g = h
  <2>1. /\ maker[handle[g].id] = handle[g].family /\ family[handle[g].family].holder = g
        /\ maker[handle[h].id] = handle[h].family /\ family[handle[h].family].holder = h
    BY <1>8, InsertingFacts
  <2> QED
    BY <1>8, <2>1
<1>9. ASSUME NEW h \in Handles, NEW r \in flying, handle[h].at = "insert", r.op = "insert"
      PROVE  r.id # handle[h].id
  <2>1. maker[handle[h].id] = handle[h].family /\ ~family[handle[h].family].uncertain
    BY <1>9, InsertingFacts
  <2> QED
    BY <1>0, <1>9, <2>1 DEF PendingIsFenced
<1> QED
  BY <1>1, <1>2, <1>3, <1>4, <1>5, <1>6, <1>7, <1>8, <1>9

\* Requests do not become overdue: what is not overdue waits to insert the
\* first record of its session.
LEMMA OverdueStays ==
  ASSUME MongoInv, \A i \in Ids : lineage[i] # NoId => lineage'[i] = lineage[i],
         gone \subseteq gone',
         \A j \in gone' \ gone : j \in MongoContract!Stored
  PROVE  \A r \in flying : Overdue(r)' <=> Overdue(r)
<1> SUFFICES ASSUME NEW r \in flying PROVE Overdue(r)' <=> Overdue(r)
  OBVIOUS
<1>1. CASE r.op # "insert"
  BY <1>1 DEF Overdue
<1>2. CASE r.op = "insert"
  <2>1. lineage[r.id] # NoId /\ lineage'[r.id] = lineage[r.id]
    BY <1>2, PendingFacts
  <2>2. ASSUME NEW j \in gone' PROVE j \in Ids /\ lineage'[j] = lineage[j]
    <3>1. j \in MongoContract!Stored
      BY DEF MongoContract!Stored
    <3>2. lineage[j] # NoId /\ j \in Ids
      BY <3>1, PendingFacts DEF MongoContract!Stored, MongoRecords
    <3> QED
      BY <3>2
  <2>3. ASSUME NEW j \in gone' \ gone, lineage[j] = lineage[r.id] PROVE Overdue(r)
    BY <1>2, <2>3, PendingFacts DEF MongoContract!NeverStored
  <2>4. Overdue(r)' => Overdue(r)
    BY <1>2, <2>1, <2>2, <2>3 DEF Overdue
  <2>5. Overdue(r) => Overdue(r)'
    BY <1>2, <2>1, <2>2 DEF Overdue
  <2> QED
    BY <2>4, <2>5
<1> QED
  BY <1>1, <1>2

\* Steps that neither write nor rotate leave the contract's view alone.
LEMMA MongoQuiet ==
  ASSUME MongoInv, UNCHANGED <<records, gone>>, Inserting' = Inserting,
         \A i \in Ids : lineage[i] # NoId => lineage'[i] = lineage[i],
         \A r \in flying' \ flying : r.op = "delete", flying \subseteq flying'
  PROVE  /\ MongoRecords' = MongoRecords /\ MongoEnded' = MongoEnded
         /\ MongoFlying' = MongoFlying \cup (flying' \ flying) /\ Pending' = Pending
<1>1. \A r \in flying : Overdue(r)' <=> Overdue(r)
  BY OverdueStays
<1>2. \A r \in flying' \ flying : ~Overdue(r)'
  BY DEF Overdue
<1>3. Pending' = Pending
  BY <1>1, <1>2 DEF Pending
<1>4. MongoRecords' = MongoRecords
  BY <1>3 DEF MongoRecords
<1>5. MongoFlying' = MongoFlying \cup (flying' \ flying)
  BY <1>1, <1>2 DEF MongoFlying
<1>6. \A i \in MongoRecords \cup gone : lineage'[i] = lineage[i]
  BY PendingFacts DEF MongoRecords
<1>7. MongoEnded' = MongoEnded
  BY <1>4, <1>6 DEF MongoEnded
<1> QED
  BY <1>3, <1>4, <1>5, <1>7

\* A removal that the backend carries out is a removal in the contract.
LEMMA MongoEnd ==
  ASSUME MongoInv, NEW ids, Mongo!EndRecords(ids), ids \cap Pending = {},
         lineage' = lineage, Inserting' = Inserting, flying' \subseteq flying,
         \A r \in flying \ flying' : r.op = "delete"
  PROVE  /\ MongoContract!EndRecords(ids)
         /\ MongoFlying' = MongoFlying \ (flying \ flying') /\ Pending' = Pending
<1>0. /\ records' = records \ ids /\ gone' = gone \cup (ids \cap records)
      /\ records \subseteq MongoRecords
  BY DEF Mongo!EndRecords, MongoRecords
<1>1. \A r \in flying : Overdue(r)' <=> Overdue(r)
  BY <1>0, OverdueStays DEF MongoContract!Stored
<1>2. \A r \in flying \ flying' : ~Overdue(r)
  BY DEF Overdue
<1>3. Pending' = Pending
  BY <1>1, <1>2 DEF Pending
<1>4. MongoRecords' = MongoRecords \ ids /\ ids \cap MongoRecords = ids \cap records
  BY <1>0, <1>3 DEF MongoRecords
<1>5. MongoFlying' = MongoFlying \ (flying \ flying')
  BY <1>1 DEF MongoFlying
<1>6. \A i, j \in MongoRecords : lineage[i] = lineage[j] => i = j
  BY DEF MongoInv, MongoContract!FullInv, MongoContract!IInv, MongoContract!NoFork
<1>7. MongoEnded' = MongoEnded \cup {lineage[i] : i \in ids \cap MongoRecords}
  <2>1. ASSUME NEW k \in gone', \A i \in MongoRecords' : lineage[i] # lineage[k]
        PROVE  lineage[k] \in MongoEnded \cup {lineage[i] : i \in ids \cap MongoRecords}
    BY <1>0, <1>4, <2>1 DEF MongoEnded
  <2>2. ASSUME NEW k \in gone, \A i \in MongoRecords : lineage[i] # lineage[k]
        PROVE  k \in gone' /\ \A i \in MongoRecords' : lineage[i] # lineage[k]
    BY <1>0, <1>4, <2>2
  <2>3. ASSUME NEW k \in ids \cap MongoRecords
        PROVE  k \in gone' /\ \A i \in MongoRecords' : lineage[i] # lineage[k]
    BY <1>0, <1>4, <1>6
  <2> QED
    BY <2>1, <2>2, <2>3 DEF MongoEnded
<1> QED
  BY <1>0, <1>3, <1>4, <1>5, <1>7 DEF MongoContract!EndRecords

\* The first record of a session, which no request or rotation is aimed at.
LEMMA MongoCreate ==
  ASSUME MongoInv, NEW id \in Ids, MongoContract!NeverStored(id),
         records' = records \cup {id}, gone' = gone, lineage' = lineage,
         Inserting' = Inserting, flying' \subseteq flying,
         \A r \in flying \ flying' : r.id = id
  PROVE  /\ id \notin MongoRecords /\ id \notin gone
         /\ MongoRecords' = MongoRecords \cup {id} /\ MongoEnded' = MongoEnded
         /\ MongoFlying' = MongoFlying \ (flying \ flying') /\ Pending' = Pending
<1>1. id \notin MongoContract!Stored
  BY DEF MongoContract!NeverStored
<1>2. id \notin MongoRecords /\ id \notin gone /\ id \notin Pending
  BY <1>1 DEF MongoContract!Stored, MongoRecords
<1>3. \A r \in flying : Overdue(r)' <=> Overdue(r)
  BY OverdueStays
<1>4. \A r \in flying : Overdue(r) => r.id \in Pending
  BY DEF Pending
<1>5. Pending' = Pending
  BY <1>2, <1>3, <1>4 DEF Pending
<1>6. MongoRecords' = MongoRecords \cup {id}
  BY <1>5 DEF MongoRecords
<1>7. MongoFlying' = MongoFlying \ (flying \ flying')
  BY <1>3 DEF MongoFlying
<1>8. \A k \in gone : lineage[k] # lineage[id]
  BY DEF MongoContract!NeverStored, MongoContract!Stored
<1>9. MongoEnded' = MongoEnded
  BY <1>6, <1>8 DEF MongoEnded
<1> QED
  BY <1>2, <1>5, <1>6, <1>7, <1>9
\* Who is between the two writes of a rotation.
LEMMA InsertingUpdate ==
  ASSUME handle \in [Handles -> Mongo!HandleStates], NEW h \in Handles, NEW x,
         handle' = [handle EXCEPT ![h] = x], x.at # "insert", handle[h].at # "insert"
  PROVE  Inserting' = Inserting
<1>1. ASSUME NEW g \in Handles, g # h PROVE handle'[g] = handle[g]
  BY <1>1
<1>2. handle'[h].at # "insert"
  OBVIOUS
<1> QED
  BY <1>1, <1>2 DEF Inserting

LEMMA InsertingDiscard ==
  ASSUME handle \in [Handles -> Mongo!HandleStates], NEW h \in Handles, Mongo!Discard(h),
         handle[h].at # "insert"
  PROVE  Inserting' = Inserting
<1>1. Mongo!NoSession.at # "insert"
  BY DEF Mongo!NoSession
<1> QED
  BY <1>1, InsertingUpdate DEF Mongo!Discard

LEMMA InsertingMove ==
  ASSUME handle \in [Handles -> Mongo!HandleStates], NEW h \in Handles, NEW s, Mongo!Move(h, s),
         s # "insert", handle[h].at # "insert"
  PROVE  Inserting' = Inserting
<1> DEFINE x == [handle[h] EXCEPT !.at = s]
<1>1. handle' = [handle EXCEPT ![h] = x] /\ x.at = s
  BY DEF Mongo!Move, Mongo!HandleStates
<1> QED
  BY <1>1, InsertingUpdate

\* The application neither writes nor touches a save under way.
LEMMA MongoApplicationQuiet ==
  ASSUME MongoInv, NEW h \in Handles,
         \/ Mongo!ApplicationStep(h)
         \/ \E f \in Families, i \in Ids : Mongo!Load(h, f, i)
  PROVE  /\ UNCHANGED <<records, flying, gone, ended>> /\ Inserting' = Inserting
         /\ \A i \in Ids : lineage[i] # NoId => lineage'[i] = lineage[i]
<1>0. handle \in [Handles -> Mongo!HandleStates]
  BY DEF MongoInv, MongoTypes
<1>1. UNCHANGED <<records, flying, gone, ended>>
  BY DEF Mongo!ApplicationStep, Mongo!New, Mongo!Clone, Mongo!Regenerate, Mongo!Destroy,
     Mongo!DropHandle, Mongo!BeginSave, Mongo!RefuseSave, Mongo!BeginBackendWrite,
     Mongo!RefuseBackendWrite, Mongo!BeginDelete, Mongo!EnterDelete, Mongo!RefuseDelete,
     Mongo!Load, Mongo!history
<1>2. \/ UNCHANGED lineage
      \/ \E x : \E i \in Ids : maker[i] = NoFamily /\ lineage' = [lineage EXCEPT ![i] = x]
  BY DEF Mongo!ApplicationStep, Mongo!New, Mongo!Clone, Mongo!Regenerate, Mongo!Destroy,
     Mongo!DropHandle, Mongo!BeginSave, Mongo!RefuseSave, Mongo!BeginBackendWrite,
     Mongo!RefuseBackendWrite, Mongo!BeginDelete, Mongo!EnterDelete, Mongo!RefuseDelete,
     Mongo!Load, Mongo!history
<1>3. \A i \in Ids : lineage[i] # NoId => lineage'[i] = lineage[i]
  BY <1>2 DEF MongoInv, MongoContract!FullInv, MongoContract!IInv, MongoContract!DrawnIds,
     MongoContract!TypeOK
<1>4. ASSUME NEW g \in Handles, handle[g].at = "insert" \/ handle'[g].at = "insert"
      PROVE  handle'[g] = handle[g]
  <2>1. ASSUME NEW f \in Families, NEW i \in Ids, Mongo!New(h, f, i) \/ Mongo!Load(h, f, i)
        PROVE  handle'[g] = handle[g]
    <3>1. /\ handle[h].at = "absent"
          /\ handle' = [handle EXCEPT ![h].at = "live", ![h].family = f, ![h].id = i]
      BY <2>1 DEF Mongo!New, Mongo!Load
    <3>2. handle'[h].at = "live"
      BY <1>0, <3>1 DEF Mongo!HandleStates
    <3> QED
      BY <1>0, <1>4, <3>1, <3>2
  <2>2. ASSUME NEW k \in Handles, Mongo!Clone(h, k) PROVE handle'[g] = handle[g]
    BY <1>0, <1>4, <2>2 DEF Mongo!Clone, Mongo!HandleStates
  <2>3. ASSUME NEW i \in Ids, Mongo!Regenerate(h, i) PROVE handle'[g] = handle[g]
    BY <1>0, <1>4, <2>3 DEF Mongo!Regenerate, Mongo!HandleStates
  <2>4. CASE \/ Mongo!BeginSave(h) \/ Mongo!BeginDelete(h) \/ Mongo!EnterDelete(h)
             \/ Mongo!BeginBackendWrite(h) \/ Mongo!Destroy(h)
    BY <1>0, <1>4, <2>4 DEF Mongo!BeginSave, Mongo!BeginDelete, Mongo!EnterDelete, Mongo!Move,
       Mongo!BeginBackendWrite, Mongo!Destroy, Mongo!HandleStates
  <2>5. CASE \/ Mongo!DropHandle(h) \/ Mongo!RefuseSave(h) \/ Mongo!RefuseBackendWrite(h)
             \/ Mongo!RefuseDelete(h)
    BY <1>0, <1>4, <2>5 DEF Mongo!DropHandle, Mongo!RefuseSave, Mongo!RefuseBackendWrite,
       Mongo!RefuseDelete, Mongo!Discard, Mongo!NoSession
  <2> QED
    BY <2>1, <2>2, <2>3, <2>4, <2>5 DEF Mongo!ApplicationStep
<1>5. Inserting' = Inserting
  BY <1>4 DEF Inserting
<1> QED
  BY <1>1, <1>3, <1>5

LEMMA MongoApplicationStep ==
  ASSUME MongoInv, NEW h \in Handles,
         \/ Mongo!ApplicationStep(h)
         \/ \E f \in Families, i \in Ids : Mongo!Load(h, f, i)
  PROVE  /\ \/ MongoContract!ApplicationStep(h)
            \/ \E f \in Families, i \in Ids : MongoContract!Load(h, f, i)
         /\ MongoRecords' = MongoRecords /\ MongoEnded' = MongoEnded /\ Pending' = Pending
<1>1. /\ MongoRecords' = MongoRecords /\ MongoEnded' = MongoEnded
      /\ MongoFlying' = MongoFlying /\ Pending' = Pending
  BY MongoApplicationQuiet, MongoQuiet
<1>2. handle \in [Handles -> Mongo!HandleStates]
  BY DEF MongoInv, MongoTypes
<1> QED
  BY <1>1, <1>2, MongoApplication, MongoLoad

\* A save that is answered.
LEMMA MongoWrite ==
  ASSUME MongoInv, NEW h \in Handles, Mongo!Write(h)
  PROVE  MongoContract!Put(h) /\ MongoEnded' = MongoEnded /\ Pending' = Pending
<1> DEFINE mh == MongoHandle
           id == handle[h].id
           origin == handle[h].origin
<1>0. /\ handle[h].at = "write" /\ origin \in {NoId, id} /\ mh[h] = handle[h]
      /\ Mongo!Accepts(origin, id) /\ Mongo!Replace(origin, id)
      /\ handle \in [Handles -> Mongo!HandleStates]
      /\ UNCHANGED <<family, maker, flying, lineage, deleted, revoked>>
  BY MongoFields DEF Mongo!Write, Mongo!Rotates, Mongo!Put, MongoInv, MongoTypes
<1>1. Inserting' = Inserting /\ MongoContract!Move(h, "wrote")
  BY <1>0, InsertingMove, MongoMove DEF Mongo!Write, Mongo!Put
<1> HIDE DEF mh
<1>2. id \in Ids /\ id # NoId /\ NoId \notin records
  BY <1>0, NoneAssumption, PendingFacts DEF MongoInv, MongoContract!FullInv,
     MongoContract!IInv, MongoContract!HandlesAreSessions, MongoContract!Present, mh
<1>3. gone' = gone
  BY <1>0 DEF Mongo!Replace
<1>4. CASE origin = id
  <2>1. id \in records /\ records' = records
    BY <1>0, <1>2, <1>4 DEF Mongo!Accepts, Mongo!Replace
  <2>2. /\ MongoRecords' = MongoRecords /\ MongoEnded' = MongoEnded
        /\ MongoFlying' = MongoFlying /\ Pending' = Pending
    BY <1>0, <1>1, <1>3, <2>1, MongoQuiet
  <2>3. id \in MongoRecords /\ MongoRecords' = (MongoRecords \ {id}) \cup {id}
    BY <2>1, <2>2 DEF MongoRecords
  <2> QED
    BY <1>0, <1>1, <1>3, <1>4, <2>2, <2>3 DEF MongoContract!Put, MongoContract!Accepts,
       MongoContract!Replace, mh
<1>5. CASE origin = NoId
  <2>1. records' = records \cup {id}
    BY <1>0, <1>2, <1>5 DEF Mongo!Replace
  <2>2. MongoContract!NeverStored(id)
    BY <1>0, <1>5 DEF MongoInv, MongoContract!FullInv, MongoContract!IInv,
       MongoContract!TicketsAreUnique, MongoContract!HasTicket, mh
  <2>3. /\ MongoRecords' = MongoRecords \cup {id} /\ MongoEnded' = MongoEnded
        /\ MongoFlying' = MongoFlying /\ Pending' = Pending /\ id \notin MongoRecords
    BY <1>0, <1>1, <1>2, <1>3, <2>1, <2>2, MongoCreate
  <2>4. NoId \notin MongoRecords
    BY NoneAssumption, PendingFacts DEF MongoRecords
  <2> QED
    BY <1>0, <1>1, <1>2, <1>3, <1>5, <2>3, <2>4 DEF MongoContract!Put, MongoContract!Accepts,
       MongoContract!Replace, mh
<1> QED
  BY <1>0, <1>4, <1>5
\* A rotation's first write is the whole rotation for the contract.
LEMMA MongoDeleteSource ==
  ASSUME MongoInv, NEW h \in Handles, Mongo!DeleteSource(h)
  PROVE  /\ MongoContract!Put(h) /\ MongoEnded' = MongoEnded
         /\ Pending' = Pending \cup {handle[h].id} /\ handle[h].id \notin records \cup gone
<1> DEFINE mh == MongoHandle
           id == handle[h].id
           origin == handle[h].origin
<1>0. /\ handle[h].at = "write" /\ origin \notin {NoId, id} /\ mh[h] = handle[h]
      /\ origin \in records /\ records' = records \ {origin} /\ gone' = gone \cup {origin}
      /\ handle' = [handle EXCEPT ![h].at = "insert"]
      /\ handle \in [Handles -> Mongo!HandleStates]
      /\ UNCHANGED <<family, maker, flying, lineage, ended, deleted, revoked>>
  BY MongoFields DEF Mongo!DeleteSource, Mongo!Rotates, Mongo!SourceDeleted, Mongo!Move, MongoInv,
     MongoTypes
<1>1. mh' = [mh EXCEPT ![h].at = "wrote"]
  <2>1. \A g \in Handles : MongoHandle'[g] = [MongoHandle EXCEPT ![h].at = "wrote"][g]
    BY <1>0 DEF MongoHandle, Mongo!HandleStates
  <2> QED
    BY <2>1 DEF MongoHandle
<1>2. Inserting' = Inserting \cup {id}
  <2>1. handle'[h].at = "insert" /\ handle'[h].id = id
    BY <1>0 DEF Mongo!HandleStates
  <2>2. \A g \in Handles : g # h => handle'[g] = handle[g]
    BY <1>0
  <2> QED
    BY <1>0, <2>1, <2>2 DEF Inserting
<1> HIDE DEF mh
<1>3. MongoContract!IInv /\ MongoContract!NoResurrection /\ Pending \cap records = {}
  BY DEF MongoInv, MongoContract!FullInv, MongoContract!IInv, PendingIsPrivate, Real
<1>4. MongoContract!RotationOf(origin, id)
  BY <1>0, <1>3 DEF MongoContract!IInv, MongoContract!OriginsAreOwn,
     MongoContract!RotationsAreSound, mh
<1>5. origin \in MongoRecords /\ origin \notin gone /\ origin \notin Pending
  BY <1>0, <1>3 DEF MongoRecords, MongoContract!NoResurrection
<1>6. id \notin MongoRecords /\ id \notin gone /\ lineage[origin] = lineage[id]
  BY <1>4, <1>5 DEF MongoContract!RotationOf, MongoContract!Stored
<1>7. \A r \in flying : Overdue(r)' <=> Overdue(r)
  BY <1>0, <1>5, OverdueStays DEF MongoContract!Stored
<1>8. Pending' = Pending \cup {id}
  BY <1>0, <1>2, <1>7 DEF Pending
<1>9. MongoRecords' = (MongoRecords \ {origin}) \cup {id} /\ MongoFlying' = MongoFlying
  BY <1>0, <1>5, <1>7, <1>8 DEF MongoRecords, MongoFlying
<1>10. MongoEnded' = MongoEnded
  <2>1. \A k \in gone : (\A i \in MongoRecords' : lineage[i] # lineage[k])
                          <=> (\A i \in MongoRecords : lineage[i] # lineage[k])
    BY <1>5, <1>6, <1>9
  <2>2. id \in MongoRecords' /\ lineage[id] = lineage[origin]
    BY <1>6, <1>9
  <2> QED
    BY <1>0, <2>1, <2>2 DEF MongoEnded
<1>11. MongoContract!Accepts(origin, id)
  BY <1>0, <1>5, <1>6 DEF MongoContract!Accepts
<1>12. MongoContract!Replace(origin, id)
  BY <1>0, <1>9, <1>10 DEF MongoContract!Replace
<1>13. MongoContract!Move(h, "wrote")
  BY <1>1 DEF MongoContract!Move, mh
<1>14. MongoContract!Put(h)
  BY <1>0, <1>9, <1>11, <1>12, <1>13 DEF MongoContract!Put, mh
<1>15. id \notin records \cup gone
  BY <1>6 DEF MongoRecords
<1> QED
  BY <1>8, <1>10, <1>14, <1>15

\* The second write is one that the contract has already seen.
LEMMA MongoInsert ==
  ASSUME MongoInv, NEW h \in Handles, Mongo!InsertReplacement(h)
  PROVE  /\ UNCHANGED MongoContract!vars /\ MongoEnded' = MongoEnded
         /\ Pending' = Pending \ {handle[h].id}
<1> DEFINE mh == MongoHandle
           id == handle[h].id
<1>0. /\ handle[h].at = "insert" /\ records' = records \cup {id}
      /\ handle' = [handle EXCEPT ![h].at = "wrote"]
      /\ handle \in [Handles -> Mongo!HandleStates] /\ id \in Pending
      /\ UNCHANGED <<family, maker, flying, lineage, gone, ended, deleted, revoked>>
  BY InsertingFacts DEF Mongo!InsertReplacement, Mongo!Move, Mongo!history, MongoInv, MongoTypes
<1>1. mh' = mh
  <2>1. \A g \in Handles : MongoHandle'[g] = MongoHandle[g]
    BY <1>0 DEF MongoHandle, Mongo!HandleStates
  <2> QED
    BY <2>1 DEF MongoHandle
<1>2. Inserting' = Inserting \ {id}
  <2>1. handle'[h].at = "wrote"
    BY <1>0 DEF Mongo!HandleStates
  <2>2. \A g \in Handles : g # h => handle'[g] = handle[g]
    BY <1>0
  <2>3. \A g \in Handles : g # h /\ handle[g].at = "insert" => handle[g].id # id
    BY <1>0, PendingFacts
  <2> QED
    BY <1>0, <2>1, <2>2, <2>3 DEF Inserting
<1> HIDE DEF mh
<1>3. \A r \in flying : Overdue(r)' <=> Overdue(r)
  BY <1>0, OverdueStays
<1>4. \A r \in flying : Overdue(r) => r.id # id
  BY <1>0, PendingFacts DEF Overdue
<1>5. Pending' = Pending \ {id}
  BY <1>0, <1>2, <1>3, <1>4 DEF Pending
<1>6. MongoRecords' = MongoRecords /\ MongoFlying' = MongoFlying
  BY <1>0, <1>3, <1>5 DEF MongoRecords, MongoFlying
<1>7. MongoEnded' = MongoEnded
  BY <1>0, <1>6 DEF MongoEnded
<1> QED
  BY <1>0, <1>1, <1>5, <1>6, <1>7 DEF MongoContract!vars, MongoContract!history, mh

\* A call that returns or is interrupted, outside of a rotation.
LEMMA MongoEndings ==
  ASSUME MongoInv, NEW h \in Handles, handle[h].at # "insert", Mongo!Discard(h),
         UNCHANGED <<records, gone, lineage>>,
         flying \subseteq flying', \A r \in flying' \ flying : r.op = "delete"
  PROVE  /\ MongoContract!Discard(h) /\ MongoEnded' = MongoEnded /\ MongoRecords' = MongoRecords
         /\ MongoFlying' = MongoFlying \cup (flying' \ flying) /\ Pending' = Pending
<1>1. handle \in [Handles -> Mongo!HandleStates]
  BY DEF MongoInv, MongoTypes
<1> QED
  BY <1>1, MongoDiscard, MongoQuiet, InsertingDiscard

LEMMA MongoReleases ==
  ASSUME NEW h \in Handles, NEW s, Mongo!ReleaseWrite(h, s)
  PROVE  MongoContract!ReleaseWrite(h, s)
<1> DEFINE mh == MongoHandle
<1>1. mh[h].family = handle[h].family /\ mh[h].uncertain_on_drop = handle[h].uncertain_on_drop
  BY MongoFields
<1> HIDE DEF mh
<1> QED
  BY <1>1 DEF Mongo!ReleaseWrite, MongoContract!ReleaseWrite, mh

\* A save that is refused or abandoned before it was written.
LEMMA MongoUnwritten ==
  ASSUME MongoInv, NEW h \in Handles,
         \/ Mongo!Reject(h)
         \/ Mongo!AbandonWrite(h, "write",
              IF Mongo!Rotates(h) THEN {Mongo!DeleteRequest(handle[h].origin)}
              ELSE IF Mongo!CanCreate(h) THEN {Mongo!InsertRequest(h)} ELSE {})
  PROVE  /\ MongoContract!AbandonSave(h) \/ MongoContract!AbandonDiscard(h)
         /\ MongoEnded' = MongoEnded /\ MongoRecords' = MongoRecords /\ Pending' = Pending
<1> DEFINE mh == MongoHandle
<1>0. /\ handle[h].at = "write" /\ mh[h] = handle[h]
      /\ Mongo!ReleaseWrite(h, FALSE) /\ Mongo!Discard(h)
      /\ UNCHANGED <<maker, records, lineage, gone, ended, deleted, revoked>>
  BY MongoFields DEF Mongo!Reject, Mongo!RejectPut, Mongo!AbandonWrite, Mongo!history
<1>1. handle \in [Handles -> Mongo!HandleStates]
  BY DEF MongoInv, MongoTypes
<1>2. MongoContract!ReleaseWrite(h, FALSE)
  BY <1>0, MongoReleases
<1>i. Inserting' = Inserting /\ MongoContract!Discard(h)
  BY <1>0, <1>1, InsertingDiscard, MongoDiscard
<1> HIDE DEF mh
<1>3. ASSUME NEW requests, MongoContract!AbandonWrite(h, "write", {})
      PROVE  MongoContract!AbandonWrite(h, "write", requests)
  BY <1>3 DEF MongoContract!AbandonWrite, MongoContract!MayFly
<1>4. CASE flying' = flying
  <2>1. /\ MongoRecords' = MongoRecords /\ MongoEnded' = MongoEnded
        /\ MongoFlying' = MongoFlying /\ Pending' = Pending
    BY <1>0, <1>4, <1>i, MongoQuiet
  <2>2. MongoContract!AbandonWrite(h, "write", {})
    BY <1>0, <1>2, <1>i, <2>1 DEF MongoContract!AbandonWrite, MongoContract!MayFly,
       MongoContract!history, mh
  <2> QED
    BY <1>3, <2>1, <2>2 DEF MongoContract!AbandonSave
<1>5. CASE Mongo!Rotates(h) /\ flying' = flying \cup {Mongo!DeleteRequest(handle[h].origin)}
  <2>1. \A r \in flying' \ flying : r.op = "delete"
    BY <1>5 DEF Mongo!DeleteRequest
  <2>2. /\ MongoRecords' = MongoRecords /\ MongoEnded' = MongoEnded
        /\ MongoFlying' = MongoFlying \cup (flying' \ flying) /\ Pending' = Pending
    BY <1>0, <1>5, <1>i, <2>1, MongoQuiet
  <2>3. ~Overdue(Mongo!DeleteRequest(handle[h].origin))
    BY DEF Overdue, Mongo!DeleteRequest
  <2>4. MongoFlying' = MongoFlying \cup {Mongo!DeleteRequest(handle[h].origin)}
    BY <1>5, <2>2, <2>3 DEF MongoFlying
  <2>5. MongoContract!DeleteRequest(MongoContract!Replaced(h)) = Mongo!DeleteRequest(handle[h].origin)
    BY <1>0, <1>5 DEF MongoContract!DeleteRequest, MongoContract!Replaced, Mongo!DeleteRequest,
       Mongo!Rotates, mh
  <2>6. MongoContract!AbandonDiscard(h)
    BY <1>0, <1>2, <1>i, <2>2, <2>4, <2>5 DEF MongoContract!AbandonDiscard,
       MongoContract!AbandonWrite, MongoContract!MayFly, MongoContract!history, mh
  <2> QED
    BY <2>2, <2>6
<1>6. CASE ~Mongo!Rotates(h) /\ Mongo!CanCreate(h) /\ flying' = flying \cup {Mongo!InsertRequest(h)}
  <2>1. handle[h].origin = NoId
    BY <1>6 DEF Mongo!Rotates, Mongo!CanCreate
  <2>2. MongoContract!NeverStored(handle[h].id)
    BY <1>0, <2>1 DEF MongoInv, MongoContract!FullInv, MongoContract!IInv,
       MongoContract!TicketsAreUnique, MongoContract!HasTicket, mh
  <2>3. ~Overdue(Mongo!InsertRequest(h))
    BY <2>2 DEF MongoContract!NeverStored, MongoContract!Stored, Overdue, Mongo!InsertRequest
  <2>4. \A r \in flying' : Overdue(r)' <=> Overdue(r)
    BY <1>0 DEF Overdue
  <2>5. MongoFlying' = MongoFlying \cup {Mongo!InsertRequest(h)} /\ Pending' = Pending
    BY <1>6, <1>i, <2>3, <2>4 DEF MongoFlying, Pending
  <2>6. MongoRecords' = MongoRecords /\ MongoEnded' = MongoEnded
    BY <1>0, <2>5 DEF MongoRecords, MongoEnded
  <2>7. MongoContract!SaveRequest(h) = Mongo!InsertRequest(h) /\ MongoContract!CanCreate(h)
    BY <1>0, <1>6, <2>1 DEF MongoContract!SaveRequest, Mongo!InsertRequest,
       MongoContract!CanCreate, Mongo!CanCreate, mh
  <2>8. MongoContract!AbandonWrite(h, "write", {MongoContract!SaveRequest(h)})
    BY <1>0, <1>2, <1>i, <2>5, <2>6, <2>7 DEF MongoContract!AbandonWrite,
       MongoContract!MayFly, MongoContract!history, mh
  <2> QED
    BY <2>5, <2>6, <2>7, <2>8 DEF MongoContract!AbandonSave
<1>7. \/ flying' = flying
      \/ Mongo!Rotates(h) /\ flying' = flying \cup {Mongo!DeleteRequest(handle[h].origin)}
      \/ ~Mongo!Rotates(h) /\ Mongo!CanCreate(h) /\ flying' = flying \cup {Mongo!InsertRequest(h)}
  <2>1. CASE Mongo!Reject(h)
    BY <2>1 DEF Mongo!Reject, Mongo!RejectPut
  <2>2. ASSUME NEW r, \E sent \in Mongo!MayFly({r}) : flying' = flying \cup sent
        PROVE  flying' = flying \/ flying' = flying \cup {r}
    <3>1. PICK sent \in SUBSET {r} : flying' = flying \cup sent
      BY <2>2 DEF Mongo!MayFly
    <3>2. sent = {} \/ sent = {r}
      OBVIOUS
    <3> QED
      BY <3>1, <3>2
  <2>3. CASE \E sent \in Mongo!MayFly({}) : flying' = flying \cup sent
    BY <2>3 DEF Mongo!MayFly
  <2> QED
    BY <2>1, <2>2, <2>3 DEF Mongo!AbandonWrite
<1> QED
  BY <1>4, <1>5, <1>6, <1>7
\* Deletions do not hit a pending ID.
LEMMA HarmlessIsNotPending ==
  ASSUME MongoInv, NEW i, Harmless(i)
  PROVE  i \notin Pending
<1>1. CASE i \in Real
  BY <1>1 DEF MongoInv, PendingIsPrivate
<1>2. CASE Dead(maker[i])
  <2>1. ASSUME NEW h \in Handles, handle[h].at = "insert", handle[h].id = i PROVE FALSE
    BY <1>2, <2>1, InsertingFacts DEF Dead
  <2>2. ASSUME NEW r \in flying, Overdue(r), r.id = i PROVE FALSE
    BY <1>2, <2>2 DEF Dead, Overdue, MongoInv, PendingIsFenced
  <2> QED
    BY <2>1, <2>2 DEF Pending, Inserting
<1> QED
  BY <1>1, <1>2 DEF Harmless

\* A rotation is interrupted between its writes.  If the insertion was sent,
\* the contract has seen it done; otherwise the replacement is lost.
LEMMA MongoInterrupted ==
  ASSUME MongoInv, NEW h \in Handles,
         Mongo!AbandonWrite(h, "insert", {Mongo!InsertRequest(h)})
  PROVE  /\ \/ MongoContract!AbandonSave(h)
            \/ MongoContract!LoseRotation(h) /\ MongoContract!KnownToSaveOnly(h)
         /\ MongoEnded \subseteq MongoEnded' /\ Pending' \subseteq Pending
<1> DEFINE mh == MongoHandle
           id == handle[h].id
           r == Mongo!InsertRequest(h)
<1>0. /\ handle[h].at = "insert" /\ mh[h].at = "wrote" /\ mh[h].id = id
      /\ mh[h].origin = handle[h].origin
      /\ Mongo!ReleaseWrite(h, FALSE) /\ Mongo!Discard(h)
      /\ UNCHANGED <<maker, records, lineage, gone, ended, deleted, revoked>>
  BY MongoFields DEF Mongo!AbandonWrite, Mongo!history
<1>1. handle \in [Handles -> Mongo!HandleStates] /\ PendingIsPrivate
  BY DEF MongoInv, MongoTypes
<1>2. /\ id \in Pending /\ handle[h].origin \in gone /\ lineage[handle[h].origin] = lineage[id]
      /\ handle[h].origin \notin {NoId, id}
  BY <1>0, InsertingFacts
<1>3. MongoContract!ReleaseWrite(h, FALSE) /\ MongoContract!Discard(h)
  BY <1>0, <1>1, MongoReleases, MongoDiscard
<1>4. Inserting' = Inserting \ {id}
  <2>1. /\ handle'[h].at # "insert" /\ \A g \in Handles : g # h => handle'[g] = handle[g]
    BY <1>0, <1>1 DEF Mongo!Discard, Mongo!NoSession
  <2>2. \A g \in Handles : g # h /\ handle[g].at = "insert" => handle[g].id # id
    BY <1>0, PendingFacts
  <2> QED
    BY <1>0, <2>1, <2>2 DEF Inserting
<1>5. Overdue(r) /\ r.id = id /\ \A q \in flying : Overdue(q) => q.id # id
  BY <1>0, <1>2, PendingFacts DEF Overdue, Mongo!InsertRequest
<1>6. \A q : Overdue(q)' <=> Overdue(q)
  BY <1>0 DEF Overdue
<1> HIDE DEF mh, r
<1>7. CASE flying' = flying \cup {r}
  <2>1. Pending' = Pending
    BY <1>0, <1>4, <1>5, <1>6, <1>7 DEF Pending, Inserting
  <2>2. MongoFlying' = MongoFlying
    BY <1>5, <1>6, <1>7 DEF MongoFlying
  <2>3. MongoRecords' = MongoRecords /\ MongoEnded' = MongoEnded
    BY <1>0, <2>1 DEF MongoRecords, MongoEnded
  <2>4. ASSUME NEW requests PROVE MongoContract!AbandonWrite(h, "wrote", requests)
    <3>1. {} \in MongoContract!MayFly(requests) /\ MongoFlying' = MongoFlying \cup {}
      BY <2>2 DEF MongoContract!MayFly
    <3>2. UNCHANGED <<maker, MongoRecords, MongoContract!history>>
      BY <1>0, <2>3 DEF MongoContract!history
    <3> QED
      BY <1>0, <1>3, <3>1, <3>2 DEF MongoContract!AbandonWrite, mh
  <2> QED
    BY <2>1, <2>3, <2>4 DEF MongoContract!AbandonSave
<1>8. CASE flying' = flying
  <2>1. Pending' = Pending \ {id}
    BY <1>0, <1>4, <1>5, <1>6, <1>8 DEF Pending
  <2>2. id \notin records /\ id \notin gone
    BY <1>1, <1>2 DEF PendingIsPrivate, Real
  <2>3. MongoRecords' = MongoRecords \ {id} /\ MongoFlying' = MongoFlying /\ id \in MongoRecords
    BY <1>0, <1>2, <1>6, <1>8, <2>1, <2>2 DEF MongoRecords, MongoFlying
  <2>4. \A i, j \in MongoRecords : lineage[i] = lineage[j] => i = j
    BY DEF MongoInv, MongoContract!FullInv, MongoContract!IInv, MongoContract!NoFork
  <2>5. MongoEnded' = MongoEnded \cup {lineage[id]}
    <3>1. \A k \in gone : (\A i \in MongoRecords' : lineage[i] # lineage[k])
            <=> lineage[k] = lineage[id] \/ (\A i \in MongoRecords : lineage[i] # lineage[k])
      BY <2>3, <2>4
    <3> QED
      BY <1>0, <1>2, <3>1 DEF MongoEnded
  <2>6. MongoContract!LoseRotation(h)
    BY <1>0, <1>2, <1>3, <2>3, <2>5 DEF MongoContract!LoseRotation, mh
  <2>7. id \notin Real
    BY <2>2 DEF Real
  <2>8. \A f \in Families : family[f].persisted_id # id
    BY <1>1, <1>2, <2>7, PendingFacts, NoneAssumption DEF PendingIsPrivate
  <2>9. ASSUME NEW g \in Handles
        PROVE  /\ mh[g].rotation_from # id
               /\ g # h /\ mh[g].at = "wrote" => mh[g].id # id
    <3>1. /\ mh[g].rotation_from = handle[g].rotation_from /\ mh[g].id = handle[g].id
          /\ mh[g].at = "wrote" => handle[g].at \in {"wrote", "insert"}
      BY MongoFields DEF mh
    <3>2. id # NoId
      BY <1>2, PendingFacts, NoneAssumption
    <3> QED
      BY <1>0, <1>1, <2>7, <3>1, <3>2, PendingFacts DEF PendingIsPrivate, HandleIsPrivate
  <2>10. \A q \in MongoFlying : q.op # "rotate"
    BY PendingFacts DEF MongoFlying
  <2>11. MongoContract!KnownToSaveOnly(h)
    BY <1>0, <2>2, <2>8, <2>9, <2>10 DEF MongoContract!KnownToSaveOnly, mh
  <2> QED
    BY <2>1, <2>5, <2>6, <2>11
<1>9. flying' = flying \/ flying' = flying \cup {r}
  <2>1. PICK sent \in SUBSET {r} : flying' = flying \cup sent
    BY DEF Mongo!AbandonWrite, Mongo!MayFly, r
  <2>2. sent = {} \/ sent = {r}
    OBVIOUS
  <2> QED
    BY <2>1, <2>2
<1> QED
  BY <1>7, <1>8, <1>9

\* What a save or a deletion does after its request was answered.
LEMMA MongoAnswered ==
  ASSUME MongoInv, NEW h \in Handles,
         \/ Mongo!CompleteSave(h) \/ Mongo!AbandonDelete(h)
         \/ Mongo!AbandonWrite(h, "wrote",
              IF Mongo!FamilyOf(h).destroy THEN {Mongo!DeleteRequest(handle[h].id)} ELSE {})
  PROVE  /\ \/ MongoContract!CompleteSave(h) \/ MongoContract!AbandonDelete(h)
            \/ MongoContract!AbandonSave(h)
         /\ MongoEnded' = MongoEnded /\ MongoRecords' = MongoRecords /\ Pending' = Pending
<1> DEFINE mh == MongoHandle
<1>0. /\ handle[h].at \in {"wrote", "delete"} /\ mh[h] = handle[h] /\ Mongo!Discard(h)
      /\ UNCHANGED <<maker, records, lineage, gone, ended, deleted, revoked>>
  BY MongoFields DEF Mongo!CompleteSave, Mongo!AbandonDelete, Mongo!AbandonWrite, Mongo!history
<1>1. MongoContract!FamilyOf(h) = Mongo!FamilyOf(h)
  BY MongoConditions
<1> HIDE DEF mh
<1>2. CASE Mongo!CompleteSave(h)
  <2>1. flying' = flying
    BY <1>2 DEF Mongo!CompleteSave
  <2>2. /\ MongoContract!Discard(h) /\ MongoEnded' = MongoEnded /\ MongoRecords' = MongoRecords
        /\ MongoFlying' = MongoFlying /\ Pending' = Pending
    BY <1>0, <2>1, MongoEndings
  <2>3. MongoContract!CompleteSave(h)
    BY <1>0, <1>1, <1>2, <2>2 DEF Mongo!CompleteSave, MongoContract!CompleteSave,
       Mongo!MarkPersisted, MongoContract!MarkPersisted, Mongo!history,
       MongoContract!history, mh
  <2> QED
    BY <2>2, <2>3
<1>3. ASSUME NEW r, r.op = "delete", \E sent \in SUBSET {r} : flying' = flying \cup sent
      PROVE  /\ MongoContract!Discard(h) /\ MongoEnded' = MongoEnded
             /\ MongoRecords' = MongoRecords /\ Pending' = Pending
             /\ \E sent \in SUBSET {r} : MongoFlying' = MongoFlying \cup sent
  <2>1. PICK sent \in SUBSET {r} : flying' = flying \cup sent
    BY <1>3
  <2>2. \A q \in flying' \ flying : q.op = "delete"
    BY <1>3, <2>1
  <2>3. /\ MongoContract!Discard(h) /\ MongoEnded' = MongoEnded /\ MongoRecords' = MongoRecords
        /\ MongoFlying' = MongoFlying \cup (flying' \ flying) /\ Pending' = Pending
    BY <1>0, <2>1, <2>2, MongoEndings
  <2>4. flying' \ flying \in SUBSET {r}
    BY <2>1
  <2> QED
    BY <2>3, <2>4
<1>4. CASE Mongo!AbandonDelete(h)
  <2> DEFINE r == Mongo!DeleteRequest(handle[h].target)
  <2>1. r.op = "delete" /\ MongoContract!DeleteRequest(mh[h].target) = r
    BY <1>0 DEF Mongo!DeleteRequest, MongoContract!DeleteRequest
  <2>2. \E sent \in SUBSET {r} : flying' = flying \cup sent
    BY <1>4 DEF Mongo!AbandonDelete, Mongo!MayFly
  <2> HIDE DEF r
  <2>3. /\ MongoContract!Discard(h) /\ MongoEnded' = MongoEnded
        /\ MongoRecords' = MongoRecords /\ Pending' = Pending
        /\ \E sent \in SUBSET {r} : MongoFlying' = MongoFlying \cup sent
    BY <1>3, <2>1, <2>2
  <2>4. MongoContract!AbandonDelete(h)
    BY <1>0, <1>4, <2>1, <2>3 DEF Mongo!AbandonDelete, MongoContract!AbandonDelete,
       MongoContract!MayFly, Mongo!history, MongoContract!history, mh
  <2> QED
    BY <2>3, <2>4
<1>5. CASE Mongo!AbandonWrite(h, "wrote",
              IF Mongo!FamilyOf(h).destroy THEN {Mongo!DeleteRequest(handle[h].id)} ELSE {})
  <2> DEFINE r == Mongo!DeleteRequest(handle[h].id)
             requests == IF Mongo!FamilyOf(h).destroy THEN {r} ELSE {}
  <2>1. r.op = "delete" /\ MongoContract!DeleteRequest(mh[h].id) = r
    BY <1>0 DEF Mongo!DeleteRequest, MongoContract!DeleteRequest
  <2>2. /\ handle[h].at = "wrote" /\ \E sent \in SUBSET requests : flying' = flying \cup sent
        /\ MongoContract!ReleaseWrite(h, FALSE)
    BY <1>5, MongoReleases DEF Mongo!AbandonWrite, Mongo!MayFly
  <2>3. \E sent \in SUBSET {r} : flying' = flying \cup sent
    BY <2>2
  <2>d. ~Mongo!FamilyOf(h).destroy => flying' = flying
    BY <2>2
  <2> HIDE DEF r
  <2>4. /\ MongoContract!Discard(h) /\ MongoEnded' = MongoEnded
        /\ MongoRecords' = MongoRecords /\ Pending' = Pending
        /\ \E sent \in SUBSET {r} : MongoFlying' = MongoFlying \cup sent
    BY <1>3, <2>1, <2>3
  <2>5. ~Mongo!FamilyOf(h).destroy => MongoFlying' = MongoFlying
    BY <1>0, <2>d, MongoEndings
  <2>6. \E sent \in SUBSET requests : MongoFlying' = MongoFlying \cup sent
    BY <2>4, <2>5
  <2> HIDE DEF requests
  <2>7. MongoContract!AbandonWrite(h, "wrote", requests)
    BY <1>0, <2>2, <2>4, <2>6 DEF MongoContract!AbandonWrite, MongoContract!MayFly,
       MongoContract!history, mh
  <2>8. requests = IF MongoContract!FamilyOf(h).destroy
                   THEN {MongoContract!DeleteRequest(mh[h].id)} ELSE {}
    BY <1>1, <2>1 DEF requests
  <2>9. MongoContract!AbandonSave(h)
    BY <2>7, <2>8 DEF MongoContract!AbandonSave, mh
  <2> QED
    BY <2>4, <2>9
<1> QED
  BY <1>2, <1>4, <1>5
\* What the backend removes.
LEMMA MongoRemovals ==
  ASSUME MongoInv, NEW h \in Handles, Mongo!Compensate(h) \/ Mongo!CompleteDelete(h)
  PROVE  /\ MongoContract!Compensate(h) \/ MongoContract!CompleteDelete(h)
         /\ MongoEnded \subseteq MongoEnded' /\ Pending' = Pending
<1> DEFINE mh == MongoHandle
<1>0. /\ handle[h].at \in {"wrote", "delete"} /\ mh[h] = handle[h] /\ Mongo!Discard(h)
      /\ UNCHANGED <<maker, flying, lineage>>
  BY MongoFields DEF Mongo!Compensate, Mongo!CompleteDelete
<1>1. handle \in [Handles -> Mongo!HandleStates] /\ PendingIsPrivate
  BY DEF MongoInv, MongoTypes
<1>2. Inserting' = Inserting /\ MongoContract!Discard(h)
  BY <1>0, <1>1, InsertingDiscard, MongoDiscard
<1>3. MongoContract!FamilyOf(h) = Mongo!FamilyOf(h)
  BY MongoConditions
<1>4. ASSUME NEW i, Mongo!EndRecords({i}), Harmless(i)
      PROVE  /\ MongoContract!EndRecords({i}) /\ MongoFlying' = MongoFlying
             /\ Pending' = Pending /\ MongoEnded \subseteq MongoEnded'
  <2>1. {i} \cap Pending = {}
    BY <1>4, HarmlessIsNotPending
  <2>2. MongoContract!EndRecords({i}) /\ MongoFlying' = MongoFlying /\ Pending' = Pending
    BY <1>0, <1>2, <1>4, <2>1, MongoEnd
  <2> QED
    BY <2>2 DEF MongoContract!EndRecords
<1> HIDE DEF mh
<1>5. CASE Mongo!Compensate(h)
  <2>1. Mongo!EndRecords({handle[h].id}) /\ Harmless(handle[h].id)
    BY <1>1, <1>5 DEF Mongo!Compensate, Mongo!CleansUp, PendingIsPrivate,
       HandleIsPrivate, Harmless
  <2>2. MongoContract!ReleaseWrite(h, TRUE)
    BY <1>5, MongoReleases DEF Mongo!Compensate
  <2>3. MongoContract!Compensate(h)
    BY <1>0, <1>2, <1>3, <1>4, <1>5, <2>1, <2>2 DEF Mongo!Compensate, MongoContract!Compensate,
       MongoContract!CleansUp, mh
  <2> QED
    BY <1>4, <2>1, <2>3
<1>6. CASE Mongo!CompleteDelete(h)
  <2>1. Mongo!EndRecords({handle[h].target}) /\ Harmless(handle[h].target)
    BY <1>1, <1>6 DEF Mongo!CompleteDelete, PendingIsPrivate, HandleIsPrivate
  <2>2. MongoContract!CompleteDelete(h)
    BY <1>0, <1>2, <1>4, <1>6, <2>1 DEF Mongo!CompleteDelete, MongoContract!CompleteDelete, mh
  <2> QED
    BY <1>4, <2>1, <2>2
<1> QED
  BY <1>5, <1>6

\* What the backend does on its own.
LEMMA MongoBackend ==
  ASSUME MongoInv,
         \/ \E ids \in SUBSET records : Mongo!ClearStore(ids)
         \/ \E i \in Ids : Mongo!Expire(i)
         \/ \E r \in flying : Mongo!LandLate(r)
  PROVE  /\ [MongoContract!Next]_(MongoContract!vars)
         /\ MongoEnded \subseteq MongoEnded' /\ Pending' \subseteq Pending
<1> DEFINE mh == MongoHandle
<1>0. handle' = handle /\ mh' = mh /\ UNCHANGED <<family, maker, lineage, deleted, revoked>>
  BY MongoSame DEF Mongo!ClearStore, Mongo!Expire, Mongo!LandLate
<1>1. Inserting' = Inserting /\ Pending \cap Real = {} /\ PendingIsPrivate /\ MongoContract!IInv
  BY <1>0 DEF Inserting, MongoInv, PendingIsPrivate, MongoContract!FullInv
<1> HIDE DEF mh
<1>2. ASSUME NEW ids, Mongo!EndRecords(ids), ids \cap Pending = {}, flying' \subseteq flying,
             \A r \in flying \ flying' : r.op = "delete"
      PROVE  /\ MongoContract!EndRecords(ids) /\ MongoFlying' = MongoFlying \ (flying \ flying')
             /\ Pending' = Pending /\ MongoEnded \subseteq MongoEnded'
  <2>1. /\ MongoContract!EndRecords(ids) /\ MongoFlying' = MongoFlying \ (flying \ flying')
        /\ Pending' = Pending
    BY <1>0, <1>1, <1>2, MongoEnd
  <2> QED
    BY <2>1 DEF MongoContract!EndRecords
<1>3. ASSUME NEW ids \in SUBSET records, Mongo!ClearStore(ids)
      PROVE  /\ \E known \in SUBSET MongoRecords : MongoContract!ClearStore(known)
             /\ MongoEnded \subseteq MongoEnded' /\ Pending' = Pending
  <2>1. ids \cap Pending = {} /\ Mongo!EndRecords(ids) /\ flying' = flying
    BY <1>1, <1>3 DEF Real, Mongo!ClearStore
  <2>2. /\ MongoContract!EndRecords(ids) /\ MongoFlying' = MongoFlying
        /\ Pending' = Pending /\ MongoEnded \subseteq MongoEnded'
    BY <1>2, <2>1
  <2>3. MongoContract!ClearStore(ids) /\ ids \in SUBSET MongoRecords
    BY <1>0, <2>2 DEF MongoContract!ClearStore, MongoRecords, mh
  <2> QED
    BY <2>2, <2>3
<1>4. ASSUME NEW i \in Ids, Mongo!Expire(i)
      PROVE  MongoContract!Expire(i) /\ MongoEnded \subseteq MongoEnded' /\ Pending' = Pending
  <2>1. {i} \cap Pending = {} /\ Mongo!EndRecords({i}) /\ flying' = flying /\ i \in MongoRecords
    BY <1>1, <1>4 DEF Real, Mongo!Expire, MongoRecords
  <2>2. /\ MongoContract!EndRecords({i}) /\ MongoFlying' = MongoFlying
        /\ Pending' = Pending /\ MongoEnded \subseteq MongoEnded'
    BY <1>2, <2>1
  <2> QED
    BY <1>0, <2>1, <2>2 DEF MongoContract!Expire, mh
<1>5. ASSUME NEW r \in flying, Mongo!LandLate(r), r.op = "delete"
      PROVE  /\ r \in MongoFlying /\ MongoContract!LandLate(r)
             /\ MongoEnded \subseteq MongoEnded' /\ Pending' = Pending
  <2>1. flying' = flying \ {r} /\ Mongo!EndRecords({r.id}) /\ Harmless(r.id)
    BY <1>1, <1>5 DEF Mongo!LandLate, PendingIsPrivate
  <2>2. {r.id} \cap Pending = {} /\ flying \ flying' = {r}
    BY <2>1, HarmlessIsNotPending
  <2>3. /\ MongoContract!EndRecords({r.id}) /\ MongoFlying' = MongoFlying \ {r}
        /\ Pending' = Pending /\ MongoEnded \subseteq MongoEnded'
    BY <1>2, <1>5, <2>1, <2>2
  <2>4. r \in MongoFlying
    BY <1>5 DEF MongoFlying, Overdue
  <2> QED
    BY <1>0, <1>5, <2>3, <2>4 DEF MongoContract!LandLate, mh
<1>6. ASSUME NEW r \in flying, Mongo!LandLate(r), r.op = "insert", ~Overdue(r)
      PROVE  /\ r \in MongoFlying /\ MongoContract!LandLate(r)
             /\ MongoEnded' = MongoEnded /\ Pending' = Pending
  <2>1. /\ r.source = NoId /\ r.id \in Ids /\ MongoContract!NeverStored(r.id)
        /\ r.id # NoId /\ NoId \notin records /\ NoId \notin MongoRecords
        /\ \A q \in flying : q.op = "insert" /\ q.id = r.id => q = r
    BY <1>6, PendingFacts, NoneAssumption DEF MongoInv, MongoTypes, MongoRecords
  <2>2. r.id \notin MongoContract!Stored
    BY <2>1 DEF MongoContract!NeverStored
  <2>3. /\ r.id \notin records /\ r.id \notin MongoRecords
    BY <2>2 DEF MongoContract!Stored, MongoRecords
  <2>4. records' = records \cup {r.id} /\ gone' = gone /\ flying' = flying \ {r}
    BY <1>6, <2>1, <2>3 DEF Mongo!LandLate, Mongo!Accepts, Mongo!Replace
  <2>5. flying \ flying' = {r}
    BY <2>4
  <2>6. /\ MongoRecords' = MongoRecords \cup {r.id} /\ MongoEnded' = MongoEnded
        /\ MongoFlying' = MongoFlying \ {r} /\ Pending' = Pending
    BY <1>0, <1>1, <2>1, <2>4, <2>5, MongoCreate
  <2>7. r \in MongoFlying
    BY <1>6 DEF MongoFlying
  <2> QED
    BY <1>0, <1>6, <2>1, <2>3, <2>4, <2>6, <2>7 DEF MongoContract!LandLate,
       MongoContract!Accepts, MongoContract!Replace, mh
<1>7. ASSUME NEW r \in flying, Mongo!LandLate(r), Overdue(r)
      PROVE  /\ UNCHANGED MongoContract!vars
             /\ MongoEnded' = MongoEnded /\ Pending' \subseteq Pending
  <2>1. /\ r.op = "insert" /\ r.source = NoId /\ r.id \in Pending /\ r.id # NoId
        /\ NoId \notin records
        /\ \A q \in flying : q.op = "insert" /\ q.id = r.id => q = r
        /\ \A h \in Handles : handle[h].at = "insert" => handle[h].id # r.id
    BY <1>7, PendingFacts, NoneAssumption DEF MongoInv, MongoTypes, Overdue, Pending
  <2>2. r.id \notin records
    BY <1>1, <2>1 DEF Real
  <2>3. records' = records \cup {r.id} /\ gone' = gone /\ flying' = flying \ {r}
    BY <1>7, <2>1, <2>2 DEF Mongo!LandLate, Mongo!Accepts, Mongo!Replace
  <2>4. \A q : Overdue(q)' <=> Overdue(q)
    BY <1>0, <2>3 DEF Overdue
  <2>5. Pending' = Pending \ {r.id}
    <3>1. r.id \notin Inserting
      BY <2>1 DEF Inserting
    <3>2. \A q \in flying : Overdue(q) /\ q.id = r.id => q = r
      BY <2>1 DEF Overdue
    <3> QED
      BY <1>1, <2>3, <2>4, <3>1, <3>2 DEF Pending
  <2>6. MongoRecords' = MongoRecords
    BY <2>1, <2>3, <2>5 DEF MongoRecords
  <2>7. MongoFlying' = MongoFlying
    BY <1>7, <2>3, <2>4 DEF MongoFlying
  <2>8. MongoEnded' = MongoEnded
    BY <1>0, <2>3, <2>6 DEF MongoEnded
  <2> QED
    BY <1>0, <2>3, <2>5, <2>6, <2>7, <2>8 DEF MongoContract!vars, MongoContract!history, mh
<1>8. ASSUME NEW r \in flying PROVE r.op = "delete" \/ r.op = "insert"
  BY PendingFacts
<1>9. \/ \E known \in SUBSET MongoRecords : MongoContract!ClearStore(known)
      \/ \E i \in Ids : MongoContract!Expire(i)
      \/ \E r \in MongoFlying : MongoContract!LandLate(r)
      \/ UNCHANGED MongoContract!vars
  BY <1>3, <1>4, <1>5, <1>6, <1>7, <1>8
<1>10. MongoEnded \subseteq MongoEnded' /\ Pending' \subseteq Pending
  BY <1>3, <1>4, <1>5, <1>6, <1>7, <1>8
<1> QED
  BY <1>9, <1>10 DEF MongoContract!Next

\* Every step of MongoStore is one of the contract, or the loss of a rotation.
LEMMA MongoStep ==
  ASSUME MongoInv, Mongo!MongoNext
  PROVE  /\ \/ [MongoContract!Next]_(MongoContract!vars)
            \/ \E h \in Handles :
                 MongoContract!LoseRotation(h) /\ MongoContract!KnownToSaveOnly(h)
         /\ MongoEnded \subseteq MongoEnded'
         /\ \A i \in Pending' \ Pending :
              i \notin Real /\ \E h \in Handles : Mongo!DeleteSource(h) /\ i = handle[h].id
<1> DEFINE Goal ==
             /\ \/ [MongoContract!Next]_(MongoContract!vars)
                \/ \E h \in Handles :
                     MongoContract!LoseRotation(h) /\ MongoContract!KnownToSaveOnly(h)
             /\ MongoEnded \subseteq MongoEnded'
             /\ \A i \in Pending' \ Pending :
                  i \notin Real /\ \E h \in Handles : Mongo!DeleteSource(h) /\ i = handle[h].id
<1>1. ASSUME NEW h \in Handles,
             \/ MongoContract!ApplicationStep(h)
             \/ \E f \in Families, i \in Ids : MongoContract!Load(h, f, i)
             \/ MongoContract!Put(h) \/ MongoContract!AbandonSave(h)
             \/ MongoContract!AbandonDiscard(h) \/ MongoContract!CompleteSave(h)
             \/ MongoContract!Compensate(h) \/ MongoContract!CompleteDelete(h)
             \/ MongoContract!AbandonDelete(h)
      PROVE  MongoContract!Next
  BY <1>1 DEF MongoContract!Next
<1>2. ASSUME NEW h \in Handles,
             \/ Mongo!ApplicationStep(h)
             \/ \E f \in Families, i \in Ids : Mongo!Load(h, f, i)
      PROVE  Goal
  BY <1>1, <1>2, MongoApplicationStep
<1>3. ASSUME NEW h \in Handles, Mongo!Write(h) PROVE Goal
  BY <1>1, <1>3, MongoWrite
<1>4. ASSUME NEW h \in Handles, Mongo!DeleteSource(h) PROVE Goal
  BY <1>1, <1>4, MongoDeleteSource DEF Real
<1>5. ASSUME NEW h \in Handles, Mongo!InsertReplacement(h) PROVE Goal
  BY <1>5, MongoInsert
<1>6. ASSUME NEW h \in Handles, Mongo!Reject(h) PROVE Goal
  BY <1>1, <1>6, MongoUnwritten
<1>7. ASSUME NEW h \in Handles, Mongo!Abandon(h) PROVE Goal
  <2>1. CASE Mongo!AbandonWrite(h, "insert", {Mongo!InsertRequest(h)})
    BY <1>1, <2>1, MongoInterrupted
  <2>2. CASE Mongo!AbandonWrite(h, "write",
               IF Mongo!Rotates(h) THEN {Mongo!DeleteRequest(handle[h].origin)}
               ELSE IF Mongo!CanCreate(h) THEN {Mongo!InsertRequest(h)} ELSE {})
    BY <1>1, <2>2, MongoUnwritten
  <2>3. CASE Mongo!AbandonWrite(h, "wrote",
               IF Mongo!FamilyOf(h).destroy THEN {Mongo!DeleteRequest(handle[h].id)} ELSE {})
    BY <1>1, <2>3, MongoAnswered
  <2> QED
    BY <1>7, <2>1, <2>2, <2>3 DEF Mongo!Abandon
<1>8. ASSUME NEW h \in Handles, Mongo!CompleteSave(h) \/ Mongo!AbandonDelete(h) PROVE Goal
  BY <1>1, <1>8, MongoAnswered
<1>9. ASSUME NEW h \in Handles, Mongo!Compensate(h) \/ Mongo!CompleteDelete(h) PROVE Goal
  BY <1>1, <1>9, MongoRemovals
<1>10. CASE \/ \E ids \in SUBSET records : Mongo!ClearStore(ids)
            \/ \E i \in Ids : Mongo!Expire(i)
            \/ \E r \in flying : Mongo!LandLate(r)
  BY <1>10, MongoBackend
<1>11. CASE \E h \in Handles :
              \/ Mongo!ApplicationStep(h)
              \/ \E f \in Families, i \in Ids : Mongo!Load(h, f, i)
              \/ Mongo!Write(h) \/ Mongo!DeleteSource(h) \/ Mongo!InsertReplacement(h)
              \/ Mongo!Reject(h) \/ Mongo!Abandon(h)
              \/ Mongo!CompleteSave(h) \/ Mongo!Compensate(h)
              \/ Mongo!CompleteDelete(h) \/ Mongo!AbandonDelete(h)
  <2> PICK h \in Handles :
         \/ Mongo!ApplicationStep(h)
         \/ \E f \in Families, i \in Ids : Mongo!Load(h, f, i)
         \/ Mongo!Write(h) \/ Mongo!DeleteSource(h) \/ Mongo!InsertReplacement(h)
         \/ Mongo!Reject(h) \/ Mongo!Abandon(h)
         \/ Mongo!CompleteSave(h) \/ Mongo!Compensate(h)
         \/ Mongo!CompleteDelete(h) \/ Mongo!AbandonDelete(h)
    BY <1>11
  <2>1. CASE Mongo!ApplicationStep(h) \/ \E f \in Families, i \in Ids : Mongo!Load(h, f, i)
    BY <1>2, <2>1
  <2>2. CASE Mongo!Write(h) \/ Mongo!DeleteSource(h) \/ Mongo!InsertReplacement(h)
    BY <1>3, <1>4, <1>5, <2>2
  <2>3. CASE \/ Mongo!Reject(h) \/ Mongo!Abandon(h) \/ Mongo!CompleteSave(h)
             \/ Mongo!Compensate(h) \/ Mongo!CompleteDelete(h) \/ Mongo!AbandonDelete(h)
    BY <1>6, <1>7, <1>8, <1>9, <2>3
  <2> QED
    BY <2>1, <2>2, <2>3
<1> QED
  BY <1>10, <1>11 DEF Mongo!MongoNext
\* The contract's part of the invariant.
LEMMA MongoContractStep ==
  ASSUME MongoInv, Mongo!MongoNext
  PROVE  MongoContract!FullInv'
  BY MongoStep, MongoContract!NextFull, MongoContract!LoseStep, NoneAssumption DEF MongoInv

-----------------------------------------------------------------------------
(* How MongoStore's own state moves.                                        *)

\* What the backend does to records, written once for all steps.
LEMMA MongoRecordSteps ==
  ASSUME MongoInv, Mongo!MongoNext
  PROVE  /\ \A i \in Ids : lineage[i] # NoId => lineage'[i] = lineage[i]
         /\ \/ UNCHANGED <<records, gone, ended>>
            \/ /\ \E ids : Mongo!EndRecords(ids)
               /\ \A h \in Handles : ~Mongo!DeleteSource(h)
            \/ /\ \E h \in Handles :
                    /\ Mongo!Write(h) \/ Mongo!InsertReplacement(h)
                    /\ records' = records \cup {handle[h].id}
               /\ UNCHANGED <<gone, ended>>
            \/ /\ \E r \in flying :
                    /\ Mongo!LandLate(r) /\ r.op = "insert"
                    /\ records' = records \cup {r.id}
               /\ UNCHANGED <<gone, ended>>
            \/ \E h \in Handles : Mongo!DeleteSource(h)
<1> DEFINE Drawn == \A i \in Ids : lineage[i] # NoId => lineage'[i] = lineage[i]
           Quiet == UNCHANGED <<records, gone, ended>>
           Ends == (\E ids : Mongo!EndRecords(ids)) /\ \A h \in Handles : ~Mongo!DeleteSource(h)
           Written == /\ \E h \in Handles :
                           /\ Mongo!Write(h) \/ Mongo!InsertReplacement(h)
                           /\ records' = records \cup {handle[h].id}
                      /\ UNCHANGED <<gone, ended>>
           Landed == /\ \E r \in flying :
                           /\ Mongo!LandLate(r) /\ r.op = "insert"
                           /\ records' = records \cup {r.id}
                     /\ UNCHANGED <<gone, ended>>
           Halved == \E h \in Handles : Mongo!DeleteSource(h)
           Goal == Drawn /\ (Quiet \/ Ends \/ Written \/ Landed \/ Halved)
<1>0. /\ NoId \notin records /\ handle \in [Handles -> Mongo!HandleStates]
      /\ lineage' = lineage => Drawn
  BY NoneAssumption, PendingFacts DEF MongoInv, MongoTypes
<1>1. ASSUME NEW h \in Handles,
             \/ Mongo!ApplicationStep(h)
             \/ \E f \in Families, i \in Ids : Mongo!Load(h, f, i)
      PROVE  Goal
  BY <1>1, MongoApplicationQuiet
<1>2. ASSUME NEW h \in Handles,
             \/ Mongo!Reject(h) \/ Mongo!Abandon(h)
             \/ Mongo!CompleteSave(h) \/ Mongo!AbandonDelete(h)
      PROVE  Goal
  <2>1. Quiet /\ lineage' = lineage
    BY <1>2 DEF Mongo!Reject, Mongo!RejectPut, Mongo!Abandon, Mongo!AbandonWrite,
       Mongo!CompleteSave, Mongo!AbandonDelete, Mongo!history
  <2> QED
    BY <1>0, <2>1
<1>3. ASSUME NEW ids, Mongo!EndRecords(ids), lineage' = lineage,
             \/ handle' = handle
             \/ \E h \in Handles : Mongo!Discard(h)
      PROVE  Goal
  <2>1. ASSUME NEW g \in Handles, Mongo!DeleteSource(g) PROVE FALSE
    <3>1. handle'[g].at = "insert" /\ handle[g].at = "write"
      BY <1>0, <2>1 DEF Mongo!DeleteSource, Mongo!Move, Mongo!HandleStates
    <3>2. CASE handle' = handle
      BY <3>1, <3>2
    <3>3. ASSUME NEW h \in Handles, Mongo!Discard(h) PROVE FALSE
      BY <1>0, <3>1, <3>3 DEF Mongo!Discard, Mongo!NoSession
    <3> QED
      BY <1>3, <3>2, <3>3
  <2> QED
    BY <1>0, <1>3, <2>1
<1>4. ASSUME NEW h \in Handles, Mongo!Compensate(h) \/ Mongo!CompleteDelete(h) PROVE Goal
  <2>1. /\ \E ids : Mongo!EndRecords(ids)
        /\ lineage' = lineage /\ Mongo!Discard(h)
    BY <1>4 DEF Mongo!Compensate, Mongo!CompleteDelete
  <2> QED
    BY <1>3, <2>1
<1>5. ASSUME NEW h \in Handles, Mongo!Write(h) PROVE Goal
  <2>1. /\ handle[h].origin \in {NoId, handle[h].id} /\ lineage' = lineage
        /\ Mongo!Accepts(handle[h].origin, handle[h].id)
        /\ Mongo!Replace(handle[h].origin, handle[h].id)
    BY <1>5 DEF Mongo!Write, Mongo!Rotates, Mongo!Put
  <2>2. records' = records \cup {handle[h].id} /\ UNCHANGED <<gone, ended>>
    BY <1>0, <2>1 DEF Mongo!Accepts, Mongo!Replace
  <2> QED
    BY <1>0, <1>5, <2>1, <2>2
<1>6. ASSUME NEW h \in Handles, Mongo!InsertReplacement(h) PROVE Goal
  BY <1>0, <1>6 DEF Mongo!InsertReplacement, Mongo!history
<1>7. ASSUME NEW h \in Handles, Mongo!DeleteSource(h) PROVE Goal
  BY <1>0, <1>7 DEF Mongo!DeleteSource
<1>8. CASE \/ \E ids \in SUBSET records : Mongo!ClearStore(ids)
           \/ \E i \in Ids : Mongo!Expire(i)
  <2>1. (\E ids : Mongo!EndRecords(ids)) /\ lineage' = lineage /\ handle' = handle
    BY <1>8 DEF Mongo!ClearStore, Mongo!Expire
  <2> QED
    BY <1>3, <2>1
<1>9. ASSUME NEW r \in flying, Mongo!LandLate(r) PROVE Goal
  <2>1. handle' = handle /\ lineage' = lineage
    BY <1>9 DEF Mongo!LandLate
  <2>2. CASE r.op = "delete"
    BY <1>3, <1>9, <2>1, <2>2 DEF Mongo!LandLate
  <2>3. CASE r.op # "delete"
    <3>1. r.op = "insert" /\ r.source = NoId
      BY <2>3 DEF MongoInv, MongoTypes
    <3>2. \/ Mongo!Replace(r.source, r.id)
          \/ Quiet
      BY <1>9, <2>3 DEF Mongo!LandLate
    <3>3. CASE Mongo!Replace(r.source, r.id)
      <4>1. records' = records \cup {r.id} /\ UNCHANGED <<gone, ended>>
        BY <1>0, <3>1, <3>3 DEF Mongo!Replace
      <4> QED
        BY <1>0, <1>9, <2>1, <3>1, <4>1
    <3> QED
      BY <1>0, <2>1, <3>2, <3>3
  <2> QED
    BY <2>2, <2>3
<1>10. CASE \E h \in Handles :
              \/ Mongo!ApplicationStep(h)
              \/ \E f \in Families, i \in Ids : Mongo!Load(h, f, i)
              \/ Mongo!Write(h) \/ Mongo!DeleteSource(h) \/ Mongo!InsertReplacement(h)
              \/ Mongo!Reject(h) \/ Mongo!Abandon(h)
              \/ Mongo!CompleteSave(h) \/ Mongo!Compensate(h)
              \/ Mongo!CompleteDelete(h) \/ Mongo!AbandonDelete(h)
  <2> PICK h \in Handles :
         \/ Mongo!ApplicationStep(h)
         \/ \E f \in Families, i \in Ids : Mongo!Load(h, f, i)
         \/ Mongo!Write(h) \/ Mongo!DeleteSource(h) \/ Mongo!InsertReplacement(h)
         \/ Mongo!Reject(h) \/ Mongo!Abandon(h)
         \/ Mongo!CompleteSave(h) \/ Mongo!Compensate(h)
         \/ Mongo!CompleteDelete(h) \/ Mongo!AbandonDelete(h)
    BY <1>10
  <2>1. CASE Mongo!ApplicationStep(h) \/ \E f \in Families, i \in Ids : Mongo!Load(h, f, i)
    BY <1>1, <2>1
  <2>2. CASE \/ Mongo!Reject(h) \/ Mongo!Abandon(h)
             \/ Mongo!CompleteSave(h) \/ Mongo!AbandonDelete(h)
    BY <1>2, <2>2
  <2>3. CASE Mongo!Compensate(h) \/ Mongo!CompleteDelete(h)
    BY <1>4, <2>3
  <2>4. CASE Mongo!Write(h) \/ Mongo!DeleteSource(h) \/ Mongo!InsertReplacement(h)
    BY <1>5, <1>6, <1>7, <2>4
  <2> QED
    BY <2>1, <2>2, <2>3, <2>4
<1> QED
  BY <1>8, <1>9, <1>10 DEF Mongo!MongoNext

\* What was real stays real, and removal needs a record.
LEMMA MongoRealStays ==
  ASSUME MongoInv, Mongo!MongoNext
  PROVE  /\ Real \subseteq Real' /\ gone \subseteq gone' /\ ended \subseteq ended'
         /\ gone' \ gone \subseteq records /\ records \ records' \subseteq gone'
<1>1. CASE UNCHANGED <<records, gone, ended>>
  BY <1>1 DEF Real
<1>2. ASSUME NEW ids, Mongo!EndRecords(ids)
      PROVE  /\ Real \subseteq Real' /\ gone \subseteq gone' /\ ended \subseteq ended'
             /\ gone' \ gone \subseteq records /\ records \ records' \subseteq gone'
  BY <1>2 DEF Real, Mongo!EndRecords
<1>3. ASSUME NEW i, records' = records \cup {i}, UNCHANGED <<gone, ended>>
      PROVE  /\ Real \subseteq Real' /\ gone \subseteq gone' /\ ended \subseteq ended'
             /\ gone' \ gone \subseteq records /\ records \ records' \subseteq gone'
  BY <1>3 DEF Real
<1>4. ASSUME NEW h \in Handles, Mongo!DeleteSource(h)
      PROVE  /\ Real \subseteq Real' /\ gone \subseteq gone' /\ ended \subseteq ended'
             /\ gone' \ gone \subseteq records /\ records \ records' \subseteq gone'
  BY <1>4 DEF Real, Mongo!DeleteSource, Mongo!SourceDeleted
<1> QED
  BY <1>1, <1>2, <1>3, <1>4, MongoRecordSteps

\* A pending ID becomes real only by its own insertion, which ends its wait.
LEMMA MongoPendingStep ==
  ASSUME MongoInv, Mongo!MongoNext
  PROVE  (Pending \cap Real = {})'
<1> SUFFICES ASSUME NEW i \in Pending', i \in Real' PROVE FALSE
  OBVIOUS
<1>0. Pending \cap Real = {}
  BY DEF MongoInv, PendingIsPrivate
<1>1. CASE i \in Pending
  <2>1. i \notin records /\ i \notin gone /\ (i \in records' \/ i \in gone')
    BY <1>0, <1>1 DEF Real
  <2>2. i \in records'
    BY <2>1, MongoRealStays
  <2>3. ASSUME NEW h \in Handles, Mongo!Write(h), i = handle[h].id PROVE FALSE
    <3> DEFINE mh == MongoHandle
    <3>0. mh[h] = handle[h] /\ handle[h].at = "write" /\ handle[h].origin \in {NoId, handle[h].id}
      BY <2>3, MongoFields DEF Mongo!Write, Mongo!Put, Mongo!Rotates
    <3> HIDE DEF mh
    <3>a. Mongo!Accepts(handle[h].origin, handle[h].id) /\ handle[h].id # NoId
      BY <1>1, <2>3, NoneAssumption, PendingFacts DEF Mongo!Write, Mongo!Put
    <3>1. handle[h].origin # handle[h].id
      BY <2>1, <2>3, <3>a DEF Mongo!Accepts
    <3>2. MongoContract!NeverStored(i)
      BY <2>3, <3>0, <3>1 DEF MongoInv, MongoContract!FullInv, MongoContract!IInv,
         MongoContract!TicketsAreUnique, MongoContract!HasTicket, mh
    <3> QED
      BY <1>1, <3>2 DEF MongoContract!NeverStored, MongoContract!Stored, MongoRecords
  <2>4. ASSUME NEW h \in Handles, Mongo!InsertReplacement(h), i = handle[h].id PROVE FALSE
    BY <2>4, MongoInsert
  <2>5. ASSUME NEW r \in flying, Mongo!LandLate(r), r.op = "insert", i = r.id PROVE FALSE
    <3>1. handle' = handle /\ flying' = flying \ {r} /\ UNCHANGED <<lineage>>
      BY <2>5 DEF Mongo!LandLate
    <3>2. i \notin Inserting'
      BY <2>5, <3>1, PendingFacts DEF Inserting
    <3>3. ASSUME NEW q \in flying', Overdue(q)', q.id = i PROVE FALSE
      <4>1. q \in flying /\ q # r /\ q.op = "insert"
        BY <3>1, <3>3 DEF Overdue
      <4>2. q = r
        BY <2>5, <3>3, <4>1, PendingFacts
      <4> QED
        BY <4>1, <4>2
    <3> QED
      BY <3>2, <3>3 DEF Pending
  <2>6. ASSUME NEW h \in Handles, Mongo!DeleteSource(h) PROVE FALSE
    BY <2>1, <2>2, <2>6 DEF Mongo!DeleteSource
  <2>7. ASSUME NEW ids, Mongo!EndRecords(ids) PROVE FALSE
    BY <2>1, <2>2, <2>7 DEF Mongo!EndRecords
  <2> QED
    BY <2>1, <2>2, <2>3, <2>4, <2>5, <2>6, <2>7, MongoRecordSteps
<1>2. CASE i \notin Pending
  <2>1. PICK h \in Handles : Mongo!DeleteSource(h) /\ i \notin Real
    BY <1>2, MongoStep
  <2>2. Real' = Real
    BY <2>1 DEF Mongo!DeleteSource, Mongo!SourceDeleted, Real
  <2> QED
    BY <2>1, <2>2
<1> QED
  BY <1>1, <1>2

\* What the contract says of a step, whether or not a rotation is lost.
LEMMA MongoFlags ==
  ASSUME MongoInv, Mongo!MongoNext
  PROVE  /\ \A e \in Families :
              /\ family[e].used => family'[e].used
              /\ family[e].destroy => family'[e].destroy
              /\ family[e].uncertain => family'[e].uncertain
         /\ \A i \in Ids : maker[i] # NoFamily => maker'[i] = maker[i]
<1>0. /\ MongoContract!IInv /\ MongoContract!Locking /\ MongoContract!MakersAreUsed
  BY DEF MongoInv, MongoContract!FullInv, MongoContract!Fence
<1>1. CASE [MongoContract!Next]_(MongoContract!vars)
  BY <1>0, <1>1, NoneAssumption, MongoContract!FlagsStay, MongoContract!MakersStep
<1>2. ASSUME NEW h \in Handles, MongoContract!LoseRotation(h)
      PROVE  /\ \A e \in Families :
                  /\ family[e].used => family'[e].used
                  /\ family[e].destroy => family'[e].destroy
                  /\ family[e].uncertain => family'[e].uncertain
             /\ maker' = maker
  BY <1>0, <1>2, NoneAssumption, MongoContract!LoseFacts DEF MongoContract!LoseRotation
<1> QED
  BY <1>1, <1>2, MongoStep

\* A dead family stays dead, and deletions stay harmless.
LEMMA MongoDeadStays ==
  ASSUME MongoInv, Mongo!MongoNext
  PROVE  /\ \A e \in Families : Dead(e) => Dead(e)'
         /\ \A i \in Ids : Harmless(i) => Harmless(i)'
<1>0. MongoContract!IInv /\ MongoContract!Locking
  BY DEF MongoInv, MongoContract!FullInv
<1>1. /\ \A h \in Handles : MongoContract!Writing(h) <=> handle[h].at \in {"write", "insert", "wrote"}
      /\ \A h \in Handles :
           (MongoContract!Writing(h) <=> handle[h].at \in {"write", "insert", "wrote"})'
      /\ \A h \in Handles : MongoHandle[h].family = handle[h].family
      /\ \A h \in Handles : MongoHandle'[h].family = handle'[h].family
  BY DEF MongoContract!Writing, MongoHandle
<1>2. ASSUME NEW e \in Families, Dead(e) PROVE Dead(e)'
  <2>1. /\ family[e].destroy /\ ~family[e].uncertain
        /\ \A h \in Handles : MongoContract!Writing(h) => MongoHandle[h].family # e
    BY <1>1, <1>2 DEF Dead
  <2>2. CASE [MongoContract!Next]_(MongoContract!vars)
    <3>1. /\ ~family'[e].uncertain
          /\ \A h \in Handles : MongoContract!Writing(h)' => MongoHandle'[h].family # e
      BY <1>0, <2>1, <2>2, NoneAssumption, MongoContract!DestroyedIsQuiet
    <3> QED
      BY <1>1, <1>2, <2>1, <3>1, MongoFlags DEF Dead
  <2>3. ASSUME NEW h \in Handles, MongoContract!LoseRotation(h) PROVE Dead(e)'
    <3>1. /\ MongoHandle'[h] = MongoContract!NoSession
          /\ \A g \in Handles \ {h} : MongoHandle'[g] = MongoHandle[g]
          /\ family'[e] = family[e] \/ MongoHandle[h].family = e
      BY <1>0, <2>3, NoneAssumption, MongoContract!LoseFacts
    <3>2. MongoHandle[h].family # e
      BY <2>1, <2>3 DEF MongoContract!LoseRotation, MongoContract!Writing
    <3>3. \A g \in Handles : MongoContract!Writing(g)' => MongoHandle'[g].family # e
      BY <2>1, <3>1 DEF MongoContract!Writing, MongoContract!NoSession
    <3> QED
      BY <1>1, <2>1, <3>1, <3>2, <3>3 DEF Dead
  <2> QED
    BY <2>2, <2>3, MongoStep
<1>3. ASSUME NEW i \in Ids, Harmless(i) PROVE Harmless(i)'
  <2>1. CASE i \in Real
    BY <2>1, MongoRealStays DEF Harmless
  <2>2. CASE maker[i] \in Families /\ Dead(maker[i])
    <3>1. maker'[i] = maker[i]
      BY <2>2, NoneAssumption, MongoFlags
    <3> QED
      BY <1>2, <2>2, <3>1 DEF Harmless
  <2> QED
    BY <1>3, <2>1, <2>2 DEF Harmless
<1> QED
  BY <1>2, <1>3

\* A family takes an identity when it is made by load_session, or when a save
\* of its own is complete.
LEMMA MongoIdentities ==
  ASSUME MongoInv, Mongo!MongoNext, NEW e \in Families
  PROVE  \/ family'[e].persisted_id = family[e].persisted_id
         \/ ~family[e].used /\ family'[e].used /\ family'[e].persisted_id \in records
         \/ \E h \in Handles :
              /\ Mongo!CompleteSave(h) /\ handle[h].family = e
              /\ family'[e].persisted_id = Mongo!MarkPersisted(h)
<1> DEFINE Goal ==
             \/ family'[e].persisted_id = family[e].persisted_id
             \/ ~family[e].used /\ family'[e].used /\ family'[e].persisted_id \in records
             \/ \E h \in Handles :
                  /\ Mongo!CompleteSave(h) /\ handle[h].family = e
                  /\ family'[e].persisted_id = Mongo!MarkPersisted(h)
<1>0. family \in [Families -> MongoContract!FamilyStates]
  BY DEF MongoInv, MongoContract!FullInv, MongoContract!IInv, MongoContract!TypeOK
<1>1. CASE family' = family
  BY <1>1
<1>2. ASSUME NEW h \in Handles, NEW s, Mongo!ReleaseWrite(h, s) PROVE Goal
  BY <1>0, <1>2 DEF Mongo!ReleaseWrite, MongoContract!FamilyStates
<1>3. ASSUME NEW h \in Handles, Mongo!ApplicationStep(h) PROVE Goal
  <2>1. CASE Mongo!Destroy(h) \/ Mongo!BeginDelete(h) \/ Mongo!BeginSave(h)
    BY <1>0, <2>1 DEF Mongo!Destroy, Mongo!BeginDelete, Mongo!BeginSave,
       MongoContract!FamilyStates
  <2>2. CASE Mongo!BeginBackendWrite(h) \/ Mongo!EnterDelete(h)
    BY <1>0, <2>2 DEF Mongo!BeginBackendWrite, Mongo!EnterDelete, MongoContract!FamilyStates
  <2>3. CASE Mongo!RefuseBackendWrite(h)
    BY <1>0, <1>1, <2>3 DEF Mongo!RefuseBackendWrite, MongoContract!FamilyStates
  <2>4. ASSUME NEW f \in Families, NEW i \in Ids, Mongo!New(h, f, i) PROVE Goal
    BY <1>0, <2>4 DEF Mongo!New, MongoContract!FamilyStates
  <2>5. \/ UNCHANGED family
        \/ \E f \in Families, i \in Ids : Mongo!New(h, f, i)
        \/ Mongo!Destroy(h) \/ Mongo!BeginDelete(h) \/ Mongo!BeginSave(h)
        \/ Mongo!BeginBackendWrite(h) \/ Mongo!EnterDelete(h) \/ Mongo!RefuseBackendWrite(h)
    BY <1>3 DEF Mongo!ApplicationStep, Mongo!Clone, Mongo!Regenerate, Mongo!DropHandle,
       Mongo!RefuseSave, Mongo!RefuseDelete
  <2> QED
    BY <1>1, <2>1, <2>2, <2>3, <2>4, <2>5
<1>4. ASSUME NEW h \in Handles, NEW f \in Families, NEW i \in Ids, Mongo!Load(h, f, i) PROVE Goal
  <2>1. CASE f = e
    BY <1>0, <1>4, <2>1 DEF Mongo!Load, MongoContract!FamilyStates
  <2>2. CASE f # e
    BY <1>0, <1>4, <2>2 DEF Mongo!Load
  <2> QED
    BY <2>1, <2>2
<1>5. ASSUME NEW h \in Handles, Mongo!CompleteSave(h) PROVE Goal
  <2>1. CASE handle[h].family = e
    BY <1>0, <1>5, <2>1 DEF Mongo!CompleteSave, MongoContract!FamilyStates
  <2>2. CASE handle[h].family # e
    BY <1>0, <1>5, <2>2 DEF Mongo!CompleteSave
  <2> QED
    BY <2>1, <2>2
<1>6. ASSUME NEW h \in Handles, Mongo!CompleteDelete(h) \/ Mongo!AbandonDelete(h) PROVE Goal
  BY <1>0, <1>6 DEF Mongo!CompleteDelete, Mongo!AbandonDelete, MongoContract!FamilyStates
<1>7. ASSUME NEW h \in Handles, Mongo!Reject(h) \/ Mongo!Abandon(h) \/ Mongo!Compensate(h)
      PROVE  \E s : Mongo!ReleaseWrite(h, s)
  BY <1>7 DEF Mongo!Reject, Mongo!RejectPut, Mongo!Abandon, Mongo!AbandonWrite,
     Mongo!Compensate
<1>8. ASSUME NEW h \in Handles,
             Mongo!Write(h) \/ Mongo!DeleteSource(h) \/ Mongo!InsertReplacement(h)
      PROVE  family' = family
  BY <1>8 DEF Mongo!Write, Mongo!Put, Mongo!DeleteSource, Mongo!InsertReplacement
<1>9. CASE \/ \E ids \in SUBSET records : Mongo!ClearStore(ids)
           \/ \E i \in Ids : Mongo!Expire(i)
           \/ \E r \in flying : Mongo!LandLate(r)
  BY <1>1, <1>9 DEF Mongo!ClearStore, Mongo!Expire, Mongo!LandLate
<1>10. CASE \E h \in Handles :
              \/ Mongo!ApplicationStep(h)
              \/ \E f \in Families, i \in Ids : Mongo!Load(h, f, i)
              \/ Mongo!Write(h) \/ Mongo!DeleteSource(h) \/ Mongo!InsertReplacement(h)
              \/ Mongo!Reject(h) \/ Mongo!Abandon(h)
              \/ Mongo!CompleteSave(h) \/ Mongo!Compensate(h)
              \/ Mongo!CompleteDelete(h) \/ Mongo!AbandonDelete(h)
  <2> PICK h \in Handles :
         \/ Mongo!ApplicationStep(h)
         \/ \E f \in Families, i \in Ids : Mongo!Load(h, f, i)
         \/ Mongo!Write(h) \/ Mongo!DeleteSource(h) \/ Mongo!InsertReplacement(h)
         \/ Mongo!Reject(h) \/ Mongo!Abandon(h)
         \/ Mongo!CompleteSave(h) \/ Mongo!Compensate(h)
         \/ Mongo!CompleteDelete(h) \/ Mongo!AbandonDelete(h)
    BY <1>10
  <2>1. CASE Mongo!ApplicationStep(h) \/ \E f \in Families, i \in Ids : Mongo!Load(h, f, i)
    BY <1>3, <1>4, <2>1
  <2>2. CASE Mongo!Reject(h) \/ Mongo!Abandon(h) \/ Mongo!Compensate(h)
    BY <1>2, <1>7, <2>2
  <2>3. CASE Mongo!Write(h) \/ Mongo!DeleteSource(h) \/ Mongo!InsertReplacement(h)
    BY <1>1, <1>8, <2>3
  <2>4. CASE Mongo!CompleteSave(h) \/ Mongo!CompleteDelete(h) \/ Mongo!AbandonDelete(h)
    BY <1>5, <1>6, <2>4
  <2> QED
    BY <2>1, <2>2, <2>3, <2>4
<1> QED
  BY <1>9, <1>10 DEF Mongo!MongoNext

\* Families know what is real, and an uncertain family keeps its identity.
LEMMA MongoFamilyStep ==
  ASSUME MongoInv, Mongo!MongoNext, NEW e \in Families
  PROVE  /\ family'[e].persisted_id # NoId =>
              family'[e].used /\ family'[e].persisted_id \in Real'
         /\ family[e].uncertain /\ family[e].persisted_id # NoId =>
              family'[e].persisted_id = family[e].persisted_id
<1>0. PendingIsPrivate /\ MongoContract!IInv /\ MongoContract!Locking
  BY DEF MongoInv, MongoContract!FullInv
<1>1. CASE family'[e].persisted_id = family[e].persisted_id
  BY <1>0, <1>1, MongoFlags, MongoRealStays DEF PendingIsPrivate
<1>2. CASE ~family[e].used /\ family'[e].used /\ family'[e].persisted_id \in records
  <2>1. family'[e].persisted_id \in Real'
    BY <1>2, MongoRealStays DEF Real
  <2> QED
    BY <1>0, <1>2, <2>1 DEF PendingIsPrivate
<1>3. ASSUME NEW h \in Handles, Mongo!CompleteSave(h), handle[h].family = e,
             family'[e].persisted_id = Mongo!MarkPersisted(h)
      PROVE  /\ family'[e].used /\ family'[e].persisted_id \in Real'
             /\ ~family[e].uncertain
  <2> DEFINE mh == MongoHandle
  <2>1. handle[h].at = "wrote" /\ mh[h] = handle[h]
    BY <1>3, MongoFields DEF Mongo!CompleteSave
  <2> HIDE DEF mh
  <2>2. handle[h].id \in Real
    BY <1>0, <2>1 DEF PendingIsPrivate, HandleIsPrivate
  <2>3. family[e].used /\ ~family[e].uncertain
    BY <1>0, <1>3, <2>1 DEF MongoContract!IInv, MongoContract!HandlesAreSessions,
       MongoContract!Present, MongoContract!Locking, MongoContract!Locks,
       MongoContract!MarksDeletion, MongoContract!Writing, MongoContract!FamilyOf, mh
  <2>4. Mongo!MarkPersisted(h) = handle[h].id
    <3>1. MongoContract!MarkPersisted(h) = mh[h].id
      BY <1>0, <2>1, NoneAssumption, MongoContract!WrittenIdentity DEF mh
    <3>2. MongoContract!FamilyOf(h) = Mongo!FamilyOf(h)
      BY MongoConditions
    <3> QED
      BY <2>1, <3>1, <3>2 DEF Mongo!MarkPersisted, MongoContract!MarkPersisted, mh
  <2> QED
    BY <1>3, <2>2, <2>3, <2>4, MongoFlags, MongoRealStays
<1> QED
  BY <1>1, <1>2, <1>3, MongoIdentities

\* What a step does to a handle.
HandleStep(g) ==
    \/ handle'[g] = handle[g]
    \/ handle'[g] = Mongo!NoSession
    \/ \E f \in Families, i \in Ids : Mongo!New(g, f, i) \/ Mongo!Load(g, f, i)
    \/ \E k \in Handles : Mongo!Clone(k, g)
    \/ \E i \in Ids : Mongo!Regenerate(g, i)
    \/ Mongo!BeginSave(g) \/ Mongo!BeginBackendWrite(g)
    \/ Mongo!BeginDelete(g) \/ Mongo!EnterDelete(g)
    \/ Mongo!Write(g) \/ Mongo!DeleteSource(g) \/ Mongo!InsertReplacement(g)

LEMMA MongoHandles ==
  ASSUME handle \in [Handles -> Mongo!HandleStates], Mongo!MongoNext
  PROVE  /\ handle' = [g \in Handles |-> handle'[g]]
         /\ \A g \in Handles : HandleStep(g)
<1> DEFINE Goal == /\ handle' = [g \in Handles |-> handle'[g]]
                   /\ \A g \in Handles : HandleStep(g)
<1>1. ASSUME NEW h \in Handles, NEW x, handle' = [handle EXCEPT ![h] = x], HandleStep(h)
      PROVE  Goal
  <2>1. \A g \in Handles : g # h => handle'[g] = handle[g]
    BY <1>1
  <2>2. handle' = [g \in Handles |-> handle'[g]]
    BY <1>1
  <2> QED
    BY <1>1, <2>1, <2>2 DEF HandleStep
<1>2. CASE handle' = handle
  BY <1>2 DEF HandleStep
<1>3. ASSUME NEW h \in Handles, Mongo!Discard(h) PROVE Goal
  <2>1. handle' = [handle EXCEPT ![h] = Mongo!NoSession] /\ handle'[h] = Mongo!NoSession
    BY <1>3 DEF Mongo!Discard
  <2> QED
    BY <1>1, <2>1 DEF HandleStep
<1>4. ASSUME NEW h \in Handles, NEW s, Mongo!Move(h, s), HandleStep(h) PROVE Goal
  BY <1>1, <1>4 DEF Mongo!Move
<1>5. ASSUME NEW h \in Handles,
             \/ Mongo!ApplicationStep(h)
             \/ \E f \in Families, i \in Ids : Mongo!Load(h, f, i)
      PROVE  Goal
  <2>1. ASSUME NEW f \in Families, NEW i \in Ids, Mongo!New(h, f, i) \/ Mongo!Load(h, f, i)
        PROVE  Goal
    <3>1. HandleStep(h)
      BY <2>1 DEF HandleStep
    <3>2. \E x : handle' = [handle EXCEPT ![h] = x]
      BY <2>1 DEF Mongo!New, Mongo!Load
    <3> QED
      BY <1>1, <3>1, <3>2
  <2>2. ASSUME NEW g \in Handles, Mongo!Clone(h, g) PROVE Goal
    <3>1. HandleStep(g)
      BY <2>2 DEF HandleStep
    <3> QED
      BY <1>1, <2>2, <3>1 DEF Mongo!Clone
  <2>3. ASSUME NEW i \in Ids, Mongo!Regenerate(h, i) PROVE Goal
    <3>1. HandleStep(h)
      BY <2>3 DEF HandleStep
    <3>2. \E x : handle' = [handle EXCEPT ![h] = x]
      BY <2>3 DEF Mongo!Regenerate
    <3> QED
      BY <1>1, <3>1, <3>2
  <2>4. CASE Mongo!BeginSave(h) \/ Mongo!BeginBackendWrite(h) \/ Mongo!EnterDelete(h)
    <3>1. HandleStep(h)
      BY <2>4 DEF HandleStep
    <3>2. \E x : handle' = [handle EXCEPT ![h] = x]
      BY <2>4 DEF Mongo!BeginSave, Mongo!BeginBackendWrite, Mongo!EnterDelete
    <3> QED
      BY <1>1, <3>1, <3>2
  <2>5. CASE Mongo!BeginDelete(h)
    <3>1. HandleStep(h) /\ Mongo!Move(h, "dlock")
      BY <2>5 DEF HandleStep, Mongo!BeginDelete
    <3> QED
      BY <1>4, <3>1
  <2>6. CASE Mongo!Destroy(h)
    BY <1>2, <2>6 DEF Mongo!Destroy
  <2>7. CASE \/ Mongo!DropHandle(h) \/ Mongo!RefuseSave(h) \/ Mongo!RefuseBackendWrite(h)
             \/ Mongo!RefuseDelete(h)
    <3>1. Mongo!Discard(h)
      BY <2>7 DEF Mongo!DropHandle, Mongo!RefuseSave, Mongo!RefuseBackendWrite, Mongo!RefuseDelete
    <3> QED
      BY <1>3, <3>1
  <2> QED
    BY <1>5, <2>1, <2>2, <2>3, <2>4, <2>5, <2>6, <2>7 DEF Mongo!ApplicationStep
<1>6. ASSUME NEW h \in Handles,
             Mongo!Write(h) \/ Mongo!DeleteSource(h) \/ Mongo!InsertReplacement(h)
      PROVE  Goal
  <2>1. HandleStep(h)
    BY <1>6 DEF HandleStep
  <2>2. \E s : Mongo!Move(h, s)
    BY <1>6 DEF Mongo!Write, Mongo!Put, Mongo!DeleteSource, Mongo!InsertReplacement
  <2> QED
    BY <1>4, <2>1, <2>2
<1>7. ASSUME NEW h \in Handles,
             \/ Mongo!Reject(h) \/ Mongo!Abandon(h) \/ Mongo!CompleteSave(h)
             \/ Mongo!Compensate(h) \/ Mongo!CompleteDelete(h) \/ Mongo!AbandonDelete(h)
      PROVE  Goal
  <2>1. Mongo!Discard(h)
    BY <1>7 DEF Mongo!Reject, Mongo!RejectPut, Mongo!Abandon, Mongo!AbandonWrite,
       Mongo!CompleteSave, Mongo!Compensate, Mongo!CompleteDelete, Mongo!AbandonDelete
  <2> QED
    BY <1>3, <2>1
<1>8. CASE \/ \E ids \in SUBSET records : Mongo!ClearStore(ids)
           \/ \E i \in Ids : Mongo!Expire(i)
           \/ \E r \in flying : Mongo!LandLate(r)
  BY <1>2, <1>8 DEF Mongo!ClearStore, Mongo!Expire, Mongo!LandLate
<1>9. CASE \E h \in Handles :
              \/ Mongo!ApplicationStep(h)
              \/ \E f \in Families, i \in Ids : Mongo!Load(h, f, i)
              \/ Mongo!Write(h) \/ Mongo!DeleteSource(h) \/ Mongo!InsertReplacement(h)
              \/ Mongo!Reject(h) \/ Mongo!Abandon(h)
              \/ Mongo!CompleteSave(h) \/ Mongo!Compensate(h)
              \/ Mongo!CompleteDelete(h) \/ Mongo!AbandonDelete(h)
  <2> PICK h \in Handles :
         \/ Mongo!ApplicationStep(h)
         \/ \E f \in Families, i \in Ids : Mongo!Load(h, f, i)
         \/ Mongo!Write(h) \/ Mongo!DeleteSource(h) \/ Mongo!InsertReplacement(h)
         \/ Mongo!Reject(h) \/ Mongo!Abandon(h)
         \/ Mongo!CompleteSave(h) \/ Mongo!Compensate(h)
         \/ Mongo!CompleteDelete(h) \/ Mongo!AbandonDelete(h)
    BY <1>9
  <2>1. CASE Mongo!ApplicationStep(h) \/ \E f \in Families, i \in Ids : Mongo!Load(h, f, i)
    BY <1>5, <2>1
  <2>2. CASE Mongo!Write(h) \/ Mongo!DeleteSource(h) \/ Mongo!InsertReplacement(h)
    BY <1>6, <2>2
  <2>3. CASE \/ Mongo!Reject(h) \/ Mongo!Abandon(h) \/ Mongo!CompleteSave(h)
             \/ Mongo!Compensate(h) \/ Mongo!CompleteDelete(h) \/ Mongo!AbandonDelete(h)
    BY <1>7, <2>3
  <2> QED
    BY <2>1, <2>2, <2>3
<1> QED
  BY <1>8, <1>9 DEF Mongo!MongoNext

\* What a handle refers to stays private.
LEMMA MongoHandleStep ==
  ASSUME MongoInv, Mongo!MongoNext, NEW g \in Handles
  PROVE  HandleIsPrivate(g)'
<1> DEFINE mh == MongoHandle
<1>0. /\ handle \in [Handles -> Mongo!HandleStates] /\ HandleIsPrivate(g) /\ PendingIsPrivate
      /\ MongoContract!IInv /\ MongoContract!Locking
  BY DEF MongoInv, MongoTypes, PendingIsPrivate, MongoContract!FullInv
<1>1. /\ \A i \in Ids : maker[i] # NoFamily => maker'[i] = maker[i]
      /\ \A i \in Ids : Harmless(i) => Harmless(i)'
      /\ Real \subseteq Real'
  BY MongoFlags, MongoDeadStays, MongoRealStays
<1>2. ASSUME NEW h \in Handles, handle[h].at # "absent"
      PROVE  /\ handle[h].id \in Ids /\ maker'[handle[h].id] = maker[handle[h].id]
             /\ handle[h].family \in Families
             /\ handle[h].at = "delete" => handle[h].target \in Ids
  <2>1. mh[h].at # "absent" /\ mh[h].id = handle[h].id /\ mh[h].family = handle[h].family
    BY <1>2, MongoFields
  <2>2. handle[h].at = "delete" => mh[h] = handle[h]
    BY MongoFields
  <2> HIDE DEF mh
  <2>3. handle[h].id \in Ids /\ lineage[handle[h].id] # NoId /\ handle[h].family \in Families
    BY <1>0, <2>1 DEF MongoContract!IInv, MongoContract!HandlesAreSessions,
       MongoContract!Present, mh
  <2>4. handle[h].at = "delete" => handle[h].target \in Ids
    BY <1>0, <2>2 DEF MongoContract!IInv, MongoContract!HandlesAreSessions, mh
  <2>5. maker[handle[h].id] # NoFamily
    BY <1>0, <2>3 DEF MongoContract!IInv, MongoContract!DrawnIds
  <2> QED
    BY <1>1, <2>3, <2>4, <2>5
<1>3. CASE handle'[g] = handle[g]
  BY <1>0, <1>1, <1>2, <1>3 DEF HandleIsPrivate, Mongo!Rotates
<1>4. CASE handle'[g] = Mongo!NoSession
  BY <1>4 DEF Mongo!NoSession, HandleIsPrivate
<1>5. ASSUME NEW f \in Families, NEW i \in Ids, Mongo!New(g, f, i) \/ Mongo!Load(g, f, i)
      PROVE  HandleIsPrivate(g)'
  <2>1. handle[g].at = "absent" /\ mh[g] = handle[g]
    BY <1>5, MongoFields DEF Mongo!New, Mongo!Load
  <2> HIDE DEF mh
  <2>2. handle[g] = MongoContract!NoSession
    BY <1>0, <2>1 DEF MongoContract!IInv, MongoContract!HandlesAreSessions,
       MongoContract!Present, mh
  <2>3. handle' = [handle EXCEPT ![g].at = "live", ![g].family = f, ![g].id = i]
    BY <1>5 DEF Mongo!New, Mongo!Load
  <2>4. /\ handle'[g].at = "live" /\ handle'[g].family = f /\ handle'[g].id = i
        /\ handle'[g].rotation_from = NoId
    BY <1>0, <2>2, <2>3 DEF Mongo!HandleStates, MongoContract!NoSession
  <2>5. i \in Real' \/ maker'[i] = f
    <3>1. CASE Mongo!New(g, f, i)
      BY <1>0, <3>1 DEF Mongo!New, MongoContract!IInv, MongoContract!TypeOK
    <3>2. CASE Mongo!Load(g, f, i)
      BY <1>1, <3>2 DEF Mongo!Load, Real
    <3> QED
      BY <1>5, <3>1, <3>2
  <2> QED
    BY <2>4, <2>5 DEF HandleIsPrivate
<1>6. ASSUME NEW k \in Handles, Mongo!Clone(k, g) PROVE HandleIsPrivate(g)'
  <2>1. handle'[g] = handle[k] /\ handle[k].at = "live" /\ HandleIsPrivate(k)
    BY <1>0, <1>6 DEF Mongo!Clone, PendingIsPrivate
  <2> QED
    BY <1>1, <1>2, <2>1 DEF HandleIsPrivate
<1>7. ASSUME NEW i \in Ids, Mongo!Regenerate(g, i) PROVE HandleIsPrivate(g)'
  <2>1. /\ handle[g].at = "live" /\ handle'[g].at = "live" /\ handle'[g].id = i
        /\ handle'[g].family = handle[g].family
        /\ handle'[g].rotation_from \in {handle[g].rotation_from, Mongo!FamilyOf(g).persisted_id}
    BY <1>0, <1>7 DEF Mongo!Regenerate, Mongo!HandleStates
  <2>2. maker'[i] = handle[g].family
    BY <1>0, <1>7 DEF Mongo!Regenerate, MongoContract!IInv, MongoContract!TypeOK
  <2>3. Mongo!FamilyOf(g).persisted_id # NoId => Mongo!FamilyOf(g).persisted_id \in Real
    BY <1>0, <1>2, <2>1 DEF PendingIsPrivate, Mongo!FamilyOf
  <2> QED
    BY <1>0, <1>1, <2>1, <2>2, <2>3 DEF HandleIsPrivate
<1>8. CASE Mongo!BeginSave(g) \/ Mongo!BeginBackendWrite(g) \/ Mongo!BeginDelete(g)
  <2>1. /\ handle[g].at # "absent" /\ handle'[g].at \in {"lock", "write", "dlock"}
        /\ handle'[g].id = handle[g].id /\ handle'[g].family = handle[g].family
        /\ handle'[g].rotation_from = handle[g].rotation_from
    BY <1>0, <1>8 DEF Mongo!BeginSave, Mongo!BeginBackendWrite, Mongo!BeginDelete, Mongo!Move,
       Mongo!HandleStates
  <2> QED
    BY <1>0, <1>1, <1>2, <2>1 DEF HandleIsPrivate
<1>9. CASE Mongo!EnterDelete(g)
  <2> DEFINE f == handle[g].family
  <2>1. /\ handle[g].at = "dlock" /\ handle'[g].at = "delete" /\ mh[g] = handle[g]
        /\ handle'[g].id = handle[g].id /\ handle'[g].family = f
        /\ handle'[g].rotation_from = handle[g].rotation_from
        /\ handle'[g].target = Mongo!DeleteTarget(g)
        /\ family[f].holder = NoHandle /\ ~family[f].uncertain
    BY <1>0, <1>9, MongoFields DEF Mongo!EnterDelete, Mongo!HandleStates, Mongo!AdmitsDelete,
       Mongo!FamilyOf
  <2>2. f \in Families /\ handle[g].id \in Ids
    BY <1>2, <2>1
  <2> HIDE DEF mh
  <2>3. family[f].destroy
    BY <1>0, <2>1 DEF MongoContract!Locking, MongoContract!Locks, MongoContract!MarksDeletion,
       MongoContract!FamilyOf, mh
  <2>4. ASSUME NEW h \in Handles, handle[h].at \in {"write", "insert", "wrote"}
        PROVE  handle[h].family # f
    <3>1. mh[h].at \in {"write", "wrote"} /\ mh[h].family = handle[h].family
      BY <2>4, MongoFields DEF mh
    <3>2. family[handle[h].family].holder = h
      BY <1>0, <3>1 DEF MongoContract!Locking, MongoContract!Locks, MongoContract!HoldsLock,
         MongoContract!Writing, MongoContract!FamilyOf, mh
    <3> QED
      BY <2>1, <3>2, NoneAssumption
  <2>5. Dead(f)
    BY <2>1, <2>3, <2>4 DEF Dead
  <2>6. Mongo!DeleteTarget(g) \in Ids /\ Harmless(Mongo!DeleteTarget(g))
    <3>1. CASE Mongo!DeleteTarget(g) = handle[g].id
      BY <1>0, <2>1, <2>2, <2>5, <3>1 DEF HandleIsPrivate, Harmless
    <3>2. CASE /\ Mongo!DeleteTarget(g) = family[f].persisted_id
               /\ family[f].persisted_id # NoId
      BY <1>0, <2>2, <3>2, PendingFacts DEF PendingIsPrivate, Harmless, Real
    <3> QED
      BY <3>1, <3>2 DEF Mongo!DeleteTarget, Mongo!FamilyOf
  <2> QED
    BY <1>0, <1>1, <1>2, <2>1, <2>6 DEF HandleIsPrivate
<1>10. CASE Mongo!Write(g) \/ Mongo!DeleteSource(g) \/ Mongo!InsertReplacement(g)
  <2>1. /\ handle[g].at # "absent"
        /\ handle'[g].id = handle[g].id /\ handle'[g].family = handle[g].family
        /\ handle'[g].rotation_from = handle[g].rotation_from
        /\ handle'[g].origin = handle[g].origin
        /\ handle'[g].at \in {"wrote", "insert"}
        /\ handle'[g].at = "insert" => Mongo!DeleteSource(g)
    BY <1>0, <1>10 DEF Mongo!Write, Mongo!Put, Mongo!DeleteSource, Mongo!InsertReplacement,
       Mongo!Move, Mongo!HandleStates
  <2>2. handle'[g].at = "wrote" => handle[g].id \in records'
    <3>1. CASE Mongo!DeleteSource(g)
      BY <1>0, <3>1 DEF Mongo!DeleteSource, Mongo!Move, Mongo!HandleStates
    <3>2. CASE Mongo!Write(g) \/ Mongo!InsertReplacement(g)
      BY <3>2 DEF Mongo!Write, Mongo!Put, Mongo!Replace, Mongo!InsertReplacement
    <3> QED
      BY <1>10, <3>1, <3>2
  <2>3. handle'[g].at = "insert" => Mongo!Rotates(g)'
    BY <2>1 DEF Mongo!DeleteSource, Mongo!Rotates
  <2> QED
    BY <1>0, <1>1, <1>2, <2>1, <2>2, <2>3 DEF HandleIsPrivate, Real
<1>11. HandleStep(g)
  BY <1>0, MongoHandles
<1> QED
  BY <1>3, <1>4, <1>5, <1>6, <1>7, <1>8, <1>9, <1>10, <1>11 DEF HandleStep

\* Where requests in flight come from.
LEMMA MongoNewRequests ==
  ASSUME MongoInv, Mongo!MongoNext, NEW r \in flying' \ flying
  PROVE  \E h \in Handles :
           \/ /\ handle[h].at = "write" /\ Mongo!Rotates(h)
              /\ r = Mongo!DeleteRequest(handle[h].origin)
           \/ /\ \/ handle[h].at = "write" /\ ~Mongo!Rotates(h) /\ Mongo!CanCreate(h)
                 \/ handle[h].at = "insert"
              /\ r = Mongo!InsertRequest(h) /\ Mongo!ReleaseWrite(h, FALSE) /\ maker' = maker
           \/ handle[h].at = "wrote" /\ r = Mongo!DeleteRequest(handle[h].id)
           \/ handle[h].at = "delete" /\ r = Mongo!DeleteRequest(handle[h].target)
<1> DEFINE Goal ==
         \E h \in Handles :
           \/ /\ handle[h].at = "write" /\ Mongo!Rotates(h)
              /\ r = Mongo!DeleteRequest(handle[h].origin)
           \/ /\ \/ handle[h].at = "write" /\ ~Mongo!Rotates(h) /\ Mongo!CanCreate(h)
                 \/ handle[h].at = "insert"
              /\ r = Mongo!InsertRequest(h) /\ Mongo!ReleaseWrite(h, FALSE) /\ maker' = maker
           \/ handle[h].at = "wrote" /\ r = Mongo!DeleteRequest(handle[h].id)
           \/ handle[h].at = "delete" /\ r = Mongo!DeleteRequest(handle[h].target)
<1>1. ASSUME NEW h \in Handles, Mongo!Abandon(h) PROVE Goal
  <2>1. CASE Mongo!AbandonWrite(h, "write",
               IF Mongo!Rotates(h) THEN {Mongo!DeleteRequest(handle[h].origin)}
               ELSE IF Mongo!CanCreate(h) THEN {Mongo!InsertRequest(h)} ELSE {})
    <3>1. /\ handle[h].at = "write" /\ Mongo!ReleaseWrite(h, FALSE) /\ maker' = maker
          /\ r \in IF Mongo!Rotates(h) THEN {Mongo!DeleteRequest(handle[h].origin)}
                   ELSE IF Mongo!CanCreate(h) THEN {Mongo!InsertRequest(h)} ELSE {}
      BY <2>1 DEF Mongo!AbandonWrite, Mongo!MayFly
    <3> QED
      BY <3>1
  <2>2. CASE Mongo!AbandonWrite(h, "insert", {Mongo!InsertRequest(h)})
    <3>1. /\ handle[h].at = "insert" /\ Mongo!ReleaseWrite(h, FALSE) /\ maker' = maker
          /\ r \in {Mongo!InsertRequest(h)}
      BY <2>2 DEF Mongo!AbandonWrite, Mongo!MayFly
    <3> QED
      BY <3>1
  <2>3. CASE Mongo!AbandonWrite(h, "wrote",
               IF Mongo!FamilyOf(h).destroy THEN {Mongo!DeleteRequest(handle[h].id)} ELSE {})
    <3>1. /\ handle[h].at = "wrote"
          /\ r \in IF Mongo!FamilyOf(h).destroy THEN {Mongo!DeleteRequest(handle[h].id)} ELSE {}
      BY <2>3 DEF Mongo!AbandonWrite, Mongo!MayFly
    <3> QED
      BY <3>1
  <2> QED
    BY <1>1, <2>1, <2>2, <2>3 DEF Mongo!Abandon
<1>2. ASSUME NEW h \in Handles, Mongo!AbandonDelete(h) PROVE Goal
  <2>1. handle[h].at = "delete" /\ r \in {Mongo!DeleteRequest(handle[h].target)}
    BY <1>2 DEF Mongo!AbandonDelete, Mongo!MayFly
  <2> QED
    BY <2>1
<1>3. ASSUME NEW h \in Handles,
             \/ Mongo!ApplicationStep(h)
             \/ \E f \in Families, i \in Ids : Mongo!Load(h, f, i)
      PROVE  FALSE
  BY <1>3, MongoApplicationQuiet
<1>4. ASSUME NEW h \in Handles,
             \/ Mongo!Write(h) \/ Mongo!DeleteSource(h) \/ Mongo!InsertReplacement(h)
             \/ Mongo!Reject(h) \/ Mongo!CompleteSave(h) \/ Mongo!Compensate(h)
             \/ Mongo!CompleteDelete(h)
      PROVE  FALSE
  BY <1>4 DEF Mongo!Write, Mongo!Put, Mongo!DeleteSource, Mongo!InsertReplacement,
     Mongo!Reject, Mongo!RejectPut, Mongo!CompleteSave, Mongo!Compensate,
     Mongo!CompleteDelete
<1>5. CASE \/ \E ids \in SUBSET records : Mongo!ClearStore(ids)
           \/ \E i \in Ids : Mongo!Expire(i)
           \/ \E q \in flying : Mongo!LandLate(q)
  BY <1>5 DEF Mongo!ClearStore, Mongo!Expire, Mongo!LandLate
<1>6. CASE \E h \in Handles :
              \/ Mongo!ApplicationStep(h)
              \/ \E f \in Families, i \in Ids : Mongo!Load(h, f, i)
              \/ Mongo!Write(h) \/ Mongo!DeleteSource(h) \/ Mongo!InsertReplacement(h)
              \/ Mongo!Reject(h) \/ Mongo!Abandon(h)
              \/ Mongo!CompleteSave(h) \/ Mongo!Compensate(h)
              \/ Mongo!CompleteDelete(h) \/ Mongo!AbandonDelete(h)
  <2> PICK h \in Handles :
         \/ Mongo!ApplicationStep(h)
         \/ \E f \in Families, i \in Ids : Mongo!Load(h, f, i)
         \/ Mongo!Write(h) \/ Mongo!DeleteSource(h) \/ Mongo!InsertReplacement(h)
         \/ Mongo!Reject(h) \/ Mongo!Abandon(h)
         \/ Mongo!CompleteSave(h) \/ Mongo!Compensate(h)
         \/ Mongo!CompleteDelete(h) \/ Mongo!AbandonDelete(h)
    BY <1>6
  <2>1. CASE Mongo!ApplicationStep(h) \/ \E f \in Families, i \in Ids : Mongo!Load(h, f, i)
    BY <1>3, <2>1
  <2>2. CASE \/ Mongo!Write(h) \/ Mongo!DeleteSource(h) \/ Mongo!InsertReplacement(h)
             \/ Mongo!Reject(h) \/ Mongo!CompleteSave(h) \/ Mongo!Compensate(h)
             \/ Mongo!CompleteDelete(h)
    BY <1>4, <2>2
  <2>3. CASE Mongo!Abandon(h) \/ Mongo!AbandonDelete(h)
    BY <1>1, <1>2, <2>3
  <2> QED
    BY <2>1, <2>2, <2>3
<1> QED
  BY <1>5, <1>6 DEF Mongo!MongoNext

\* What a request in flight may do.
Tame(r) ==
    /\ r \in Mongo!Requests
    /\ r.op = "delete" \/ (r.op = "insert" /\ r.source = NoId)
    /\ r.op = "delete" => Harmless(r.id)
    /\ r.op = "insert" => family[maker[r.id]].uncertain

LEMMA MongoRequestStep ==
  ASSUME MongoInv, Mongo!MongoNext, NEW r \in flying'
  PROVE  Tame(r)'
<1> DEFINE mh == MongoHandle
<1>0. /\ handle \in [Handles -> Mongo!HandleStates] /\ PendingIsPrivate /\ PendingIsFenced
      /\ MongoTypes /\ MongoContract!IInv /\ MongoContract!TypeOK
      /\ MongoContract!Locking /\ MongoContract!Fence
  BY DEF MongoInv, MongoTypes, MongoContract!FullInv, MongoContract!IInv
<1>1. /\ \A i \in Ids : Harmless(i) => Harmless(i)'
      /\ \A i \in Real : i \in Ids /\ Harmless(i)
  BY MongoDeadStays, PendingFacts DEF Harmless, Real
<1>2. CASE r \in flying
  <2>t. r \in Mongo!Requests /\ (r.op = "delete" \/ (r.op = "insert" /\ r.source = NoId))
    BY <1>0, <1>2 DEF MongoTypes
  <2>f. r.op = "insert" => family[maker[r.id]].uncertain
    BY <1>0, <1>2 DEF PendingIsFenced
  <2>h. r.op = "delete" => Harmless(r.id)
    BY <1>0, <1>2 DEF PendingIsPrivate
  <2>1. Tame(r)
    BY <2>t, <2>f, <2>h DEF Tame
  <2>2. r.id \in Ids /\ (r.op = "insert" => lineage[r.id] # NoId)
    BY <1>2, PendingFacts
  <2>3. r.op = "insert" => maker'[r.id] = maker[r.id] /\ maker[r.id] \in Families
    BY <1>0, <2>2, MongoFlags DEF MongoContract!IInv, MongoContract!DrawnIds,
       MongoContract!Fence, MongoContract!MakersAreUsed
  <2> QED
    BY <1>1, <2>1, <2>2, <2>3, MongoFlags DEF Tame
<1>3. ASSUME NEW i \in Ids, Harmless(i), r = Mongo!DeleteRequest(i) PROVE Tame(r)'
  BY <1>1, <1>3 DEF Tame, Mongo!DeleteRequest, Mongo!Requests
<1>4. ASSUME NEW h \in Handles, handle[h].at = "write", Mongo!Rotates(h),
             r = Mongo!DeleteRequest(handle[h].origin)
      PROVE  Tame(r)'
  <2>1. mh[h] = handle[h]
    BY <1>4, MongoFields
  <2> HIDE DEF mh
  <2>2. handle[h].origin \in {NoId, handle[h].id, handle[h].rotation_from}
    BY <1>0, <1>4, <2>1 DEF MongoContract!IInv, MongoContract!OriginsAreOwn, mh
  <2>3. handle[h].origin \in Real
    BY <1>0, <1>4, <2>2 DEF Mongo!Rotates, PendingIsPrivate, HandleIsPrivate
  <2> QED
    BY <1>1, <1>3, <1>4, <2>3
<1>5. ASSUME NEW h \in Handles, handle[h].at = "wrote", r = Mongo!DeleteRequest(handle[h].id)
      PROVE  Tame(r)'
  <2>1. handle[h].id \in Real
    BY <1>0, <1>5 DEF PendingIsPrivate, HandleIsPrivate
  <2> QED
    BY <1>1, <1>3, <1>5, <2>1
<1>6. ASSUME NEW h \in Handles, handle[h].at = "delete",
             r = Mongo!DeleteRequest(handle[h].target)
      PROVE  Tame(r)'
  <2>1. mh[h] = handle[h]
    BY <1>6, MongoFields
  <2> HIDE DEF mh
  <2>2. handle[h].target \in Ids
    BY <1>0, <1>6, <2>1 DEF MongoContract!IInv, MongoContract!HandlesAreSessions, mh
  <2> QED
    BY <1>0, <1>3, <1>6, <2>2 DEF PendingIsPrivate, HandleIsPrivate
<1>7. ASSUME NEW h \in Handles,
             \/ handle[h].at = "write" /\ ~Mongo!Rotates(h) /\ Mongo!CanCreate(h)
             \/ handle[h].at = "insert",
             r = Mongo!InsertRequest(h), Mongo!ReleaseWrite(h, FALSE), maker' = maker
      PROVE  Tame(r)'
  <2> DEFINE f == handle[h].family
  <2>1. /\ maker[handle[h].id] = f /\ handle[h].uncertain_on_drop
        /\ f \in Families /\ handle[h].id \in Ids
    <3>1. CASE handle[h].at = "insert"
      BY <3>1, InsertingFacts
    <3>2. CASE handle[h].at = "write" /\ Mongo!CanCreate(h)
      <4>1. mh[h] = handle[h] /\ MongoContract!CanCreate(h)
        BY <3>2, MongoFields, MongoConditions
      <4> HIDE DEF mh
      <4>2. maker[handle[h].id] = f
        BY <1>0, <3>2, <4>1, NoneAssumption, MongoContract!CreatorOwnsId DEF mh
      <4>3. handle[h].uncertain_on_drop
        BY <1>0, <3>2, <4>1 DEF MongoContract!Locking, MongoContract!Locks,
           MongoContract!WritesCurrent, MongoContract!Writing, mh
      <4>4. f \in Families /\ handle[h].id \in Ids
        BY <1>0, <3>2, <4>1 DEF MongoContract!IInv, MongoContract!HandlesAreSessions,
           MongoContract!Present, mh
      <4> QED
        BY <4>2, <4>3, <4>4
    <3> QED
      BY <1>7, <3>1, <3>2
  <2>2. family \in [Families -> MongoContract!FamilyStates]
    BY <1>0 DEF MongoContract!TypeOK
  <2>3. family'[f].uncertain
    BY <1>7, <2>1, <2>2 DEF Mongo!ReleaseWrite, MongoContract!FamilyStates
  <2> QED
    BY <1>7, <2>1, <2>3 DEF Tame, Mongo!InsertRequest, Mongo!Requests
<1> QED
  BY <1>2, <1>4, <1>5, <1>6, <1>7, MongoNewRequests

\* A session that the code's history calls ended has ended in the contract.
LEMMA MongoEndedStep ==
  ASSUME MongoInv, Mongo!MongoNext
  PROVE  ended' \subseteq MongoEnded'
<1>0. /\ ended \subseteq MongoEnded /\ MongoContract!NoFork /\ MongoContract!NoResurrection'
  BY MongoContractStep DEF MongoInv, MongoContract!FullInv, MongoContract!IInv
<1>1. MongoEnded \subseteq MongoEnded'
  BY MongoStep
<1>2. CASE ended' = ended
  BY <1>0, <1>1, <1>2
<1>3. ASSUME NEW ids, Mongo!EndRecords(ids), \A h \in Handles : ~Mongo!DeleteSource(h)
      PROVE  ended' \subseteq MongoEnded'
  <2>1. Pending' \subseteq Pending
    BY <1>3, MongoStep
  <2>2. /\ records' = records \ ids /\ gone' = gone \cup (ids \cap records)
        /\ ended' = ended \cup {lineage[i] : i \in ids \cap records}
    BY <1>3 DEF Mongo!EndRecords
  <2>3. MongoRecords' \subseteq MongoRecords
    BY <2>1, <2>2 DEF MongoRecords
  <2>4. \A i \in MongoRecords : i \in Ids /\ lineage'[i] = lineage[i]
    BY PendingFacts, MongoRecordSteps DEF MongoRecords
  <2>5. ASSUME NEW i \in ids \cap records PROVE lineage[i] \in MongoEnded'
    <3>1. i \in gone' /\ i \in MongoRecords
      BY <2>2 DEF MongoRecords
    <3>2. i \notin MongoRecords'
      BY <1>0, <3>1 DEF MongoContract!NoResurrection
    <3>3. \A j \in MongoRecords' : lineage'[j] # lineage'[i]
      BY <1>0, <2>3, <2>4, <3>1, <3>2 DEF MongoContract!NoFork
    <3>4. lineage'[i] = lineage[i]
      BY <2>4, <3>1
    <3> QED
      BY <3>1, <3>3, <3>4 DEF MongoEnded
  <2> QED
    BY <1>0, <1>1, <2>2, <2>5
<1>4. CASE \E h \in Handles : Mongo!DeleteSource(h)
  BY <1>2, <1>4 DEF Mongo!DeleteSource
<1> QED
  BY <1>2, <1>3, <1>4, MongoRecordSteps

\* A handle between the two writes is still there, has written, or has left
\* its family uncertain of the identity that is gone.
LEMMA MongoInsertingStep ==
  ASSUME MongoInv, Mongo!MongoNext, NEW h \in Handles, handle[h].at = "insert"
  PROVE  \/ handle'[h] = handle[h]
         \/ handle[h].id \in records'
         \/ family'[handle[h].family].uncertain
<1> DEFINE Goal == \/ handle'[h] = handle[h]
                   \/ handle[h].id \in records'
                   \/ family'[handle[h].family].uncertain
<1>0. handle \in [Handles -> Mongo!HandleStates] /\ MongoContract!TypeOK
  BY DEF MongoInv, MongoTypes, MongoContract!FullInv, MongoContract!IInv
<1>1. ASSUME NEW g \in Handles,
             \/ Mongo!ApplicationStep(g)
             \/ \E f \in Families, i \in Ids : Mongo!Load(g, f, i)
      PROVE  Goal
  <2>1. handle[g].at = "insert" => FALSE
    BY <1>1 DEF Mongo!ApplicationStep, Mongo!New, Mongo!Clone, Mongo!Regenerate,
       Mongo!DropHandle, Mongo!BeginSave, Mongo!RefuseSave, Mongo!BeginBackendWrite,
       Mongo!RefuseBackendWrite, Mongo!BeginDelete, Mongo!EnterDelete, Mongo!RefuseDelete,
       Mongo!Load, Mongo!Destroy
  <2>2. ASSUME NEW k \in Handles, Mongo!Clone(g, k) PROVE Goal
    BY <1>0, <2>2 DEF Mongo!Clone
  <2>3. ASSUME NEW f \in Families, NEW i \in Ids, Mongo!New(g, f, i) \/ Mongo!Load(g, f, i)
        PROVE  Goal
    BY <1>0, <2>1, <2>3 DEF Mongo!New, Mongo!Load
  <2>4. ASSUME NEW i \in Ids, Mongo!Regenerate(g, i) PROVE Goal
    BY <1>0, <2>1, <2>4 DEF Mongo!Regenerate
  <2>5. CASE \/ Mongo!BeginSave(g) \/ Mongo!BeginDelete(g) \/ Mongo!EnterDelete(g)
             \/ Mongo!BeginBackendWrite(g) \/ Mongo!Destroy(g)
    BY <1>0, <2>1, <2>5 DEF Mongo!BeginSave, Mongo!BeginDelete, Mongo!EnterDelete, Mongo!Move,
       Mongo!BeginBackendWrite, Mongo!Destroy
  <2>6. CASE \/ Mongo!DropHandle(g) \/ Mongo!RefuseSave(g) \/ Mongo!RefuseBackendWrite(g)
             \/ Mongo!RefuseDelete(g)
    BY <1>0, <2>1, <2>6 DEF Mongo!DropHandle, Mongo!RefuseSave, Mongo!RefuseBackendWrite,
       Mongo!RefuseDelete, Mongo!Discard
  <2> QED
    BY <1>1, <2>2, <2>3, <2>4, <2>5, <2>6 DEF Mongo!ApplicationStep
<1>2. ASSUME NEW g \in Handles, g # h, Mongo!Discard(g) \/ \E s : Mongo!Move(g, s) PROVE Goal
  BY <1>0, <1>2 DEF Mongo!Discard, Mongo!Move
<1>3. ASSUME NEW g \in Handles,
             \/ Mongo!Reject(g) \/ Mongo!CompleteSave(g) \/ Mongo!Compensate(g)
             \/ Mongo!CompleteDelete(g) \/ Mongo!AbandonDelete(g)
      PROVE  Goal
  <2>1. g # h /\ Mongo!Discard(g)
    BY <1>3 DEF Mongo!Reject, Mongo!RejectPut, Mongo!CompleteSave, Mongo!Compensate,
       Mongo!CompleteDelete, Mongo!AbandonDelete
  <2> QED
    BY <1>2, <2>1
<1>4. ASSUME NEW g \in Handles, Mongo!Write(g) \/ Mongo!DeleteSource(g) PROVE Goal
  <2>1. g # h /\ \E s : Mongo!Move(g, s)
    BY <1>4 DEF Mongo!Write, Mongo!Put, Mongo!DeleteSource
  <2> QED
    BY <1>2, <2>1
<1>5. ASSUME NEW g \in Handles, Mongo!InsertReplacement(g) PROVE Goal
  <2>1. /\ records' = records \cup {handle[g].id}
        /\ Mongo!Move(g, "wrote")
    BY <1>5 DEF Mongo!InsertReplacement
  <2> QED
    BY <1>2, <2>1
<1>6. ASSUME NEW g \in Handles, Mongo!Abandon(g) PROVE Goal
  <2>1. Mongo!Discard(g) /\ Mongo!ReleaseWrite(g, FALSE)
    BY <1>6 DEF Mongo!Abandon, Mongo!AbandonWrite
  <2>2. CASE g = h
    <3>1. handle[h].uncertain_on_drop /\ handle[h].family \in Families
      BY InsertingFacts
    <3>2. family'[handle[h].family].uncertain
      BY <1>0, <2>1, <2>2, <3>1 DEF Mongo!ReleaseWrite, MongoContract!TypeOK,
         MongoContract!FamilyStates
    <3> QED
      BY <3>2
  <2> QED
    BY <1>2, <2>1, <2>2
<1>7. CASE \/ \E ids \in SUBSET records : Mongo!ClearStore(ids)
           \/ \E i \in Ids : Mongo!Expire(i)
           \/ \E r \in flying : Mongo!LandLate(r)
  BY <1>7 DEF Mongo!ClearStore, Mongo!Expire, Mongo!LandLate
<1>8. CASE \E g \in Handles :
              \/ Mongo!ApplicationStep(g)
              \/ \E f \in Families, i \in Ids : Mongo!Load(g, f, i)
              \/ Mongo!Write(g) \/ Mongo!DeleteSource(g) \/ Mongo!InsertReplacement(g)
              \/ Mongo!Reject(g) \/ Mongo!Abandon(g)
              \/ Mongo!CompleteSave(g) \/ Mongo!Compensate(g)
              \/ Mongo!CompleteDelete(g) \/ Mongo!AbandonDelete(g)
  <2> PICK g \in Handles :
         \/ Mongo!ApplicationStep(g)
         \/ \E f \in Families, i \in Ids : Mongo!Load(g, f, i)
         \/ Mongo!Write(g) \/ Mongo!DeleteSource(g) \/ Mongo!InsertReplacement(g)
         \/ Mongo!Reject(g) \/ Mongo!Abandon(g)
         \/ Mongo!CompleteSave(g) \/ Mongo!Compensate(g)
         \/ Mongo!CompleteDelete(g) \/ Mongo!AbandonDelete(g)
    BY <1>8
  <2>1. CASE Mongo!ApplicationStep(g) \/ \E f \in Families, i \in Ids : Mongo!Load(g, f, i)
    BY <1>1, <2>1
  <2>2. CASE Mongo!Write(g) \/ Mongo!DeleteSource(g) \/ Mongo!InsertReplacement(g)
    BY <1>4, <1>5, <2>2
  <2>3. CASE \/ Mongo!Reject(g) \/ Mongo!CompleteSave(g) \/ Mongo!Compensate(g)
             \/ Mongo!CompleteDelete(g) \/ Mongo!AbandonDelete(g)
    BY <1>3, <2>3
  <2>4. CASE Mongo!Abandon(g)
    BY <1>6, <2>4
  <2> QED
    BY <2>1, <2>2, <2>3, <2>4
<1> QED
  BY <1>7, <1>8 DEF Mongo!MongoNext

\* No way to lose a session but the one that leaves its family uncertain.
LEMMA MongoLossStep ==
  ASSUME MongoInv, Mongo!MongoNext
  PROVE  Mongo!LossIsFenced'
<1> DEFINE Safe(l) ==
             \/ l \in ended'
             \/ \E i \in records' : lineage'[i] = l
             \/ \E h \in Handles : handle'[h].at = "insert" /\ lineage'[handle'[h].id] = l
             \/ \E i \in gone', f \in Families :
                  lineage'[i] = l /\ family'[f].uncertain /\ family'[f].persisted_id = i
<1>0. /\ Mongo!LossIsFenced /\ MongoContract!NoResurrection /\ MongoContract!IInv
      /\ handle \in [Handles -> Mongo!HandleStates]
  BY DEF MongoInv, MongoTypes, MongoContract!FullInv, MongoContract!IInv
<1>1. /\ \A i \in records \cup gone : i \in Ids /\ lineage'[i] = lineage[i]
      /\ gone \subseteq gone' /\ gone' \ gone \subseteq records /\ ended \subseteq ended'
      /\ records \ records' \subseteq gone'
  BY PendingFacts, MongoRecordSteps, MongoRealStays
<1>2. ASSUME NEW j \in gone', j \notin gone PROVE Safe(lineage[j])
  <2>1. j \in records
    BY <1>1, <1>2
  <2>2. ASSUME NEW ids, Mongo!EndRecords(ids) PROVE Safe(lineage[j])
    <3>1. lineage[j] \in ended'
      BY <1>2, <2>1, <2>2 DEF Mongo!EndRecords
    <3> QED
      BY <3>1
  <2>3. ASSUME NEW h \in Handles, Mongo!DeleteSource(h) PROVE Safe(lineage[j])
    <3>1. /\ handle[h].at = "write" /\ j = handle[h].origin
          /\ handle[h].origin \notin {NoId, handle[h].id} /\ lineage' = lineage
          /\ handle'[h].at = "insert" /\ handle'[h].id = handle[h].id
      BY <1>0, <1>2, <2>3 DEF Mongo!DeleteSource, Mongo!Rotates, Mongo!Move, Mongo!HandleStates
    <3> DEFINE mh == MongoHandle
    <3>2. mh[h] = handle[h]
      BY <3>1, MongoFields
    <3> HIDE DEF mh
    <3>3. lineage[handle[h].origin] = lineage[handle[h].id]
      BY <1>0, <3>1, <3>2 DEF MongoContract!IInv, MongoContract!OriginsAreOwn,
         MongoContract!RotationsAreSound, MongoContract!RotationOf, mh
    <3> QED
      BY <3>1, <3>3
  <2> QED
    BY <1>2, <2>2, <2>3, MongoRecordSteps
<1>3. ASSUME NEW i \in records PROVE Safe(lineage[i])
  <2>1. CASE i \in records'
    BY <1>1, <2>1
  <2>2. CASE i \notin records'
    <3>1. i \in gone' /\ i \notin gone
      BY <1>0, <1>1, <2>2 DEF MongoContract!NoResurrection, MongoRecords
    <3> QED
      BY <1>2, <3>1
  <2> QED
    BY <2>1, <2>2
<1>4. ASSUME NEW h \in Handles, handle[h].at = "insert" PROVE Safe(lineage[handle[h].id])
  <2>1. /\ handle[h].id \in Ids /\ handle[h].id \in Pending /\ handle[h].family \in Families
        /\ handle[h].origin \in gone /\ lineage[handle[h].origin] = lineage[handle[h].id]
        /\ family[handle[h].family].persisted_id = handle[h].origin
    BY <1>4, InsertingFacts
  <2>2. lineage'[handle[h].id] = lineage[handle[h].id]
    BY <2>1, PendingFacts, MongoRecordSteps
  <2>3. CASE handle'[h] = handle[h]
    BY <1>4, <2>2, <2>3
  <2>4. CASE handle[h].id \in records'
    BY <2>2, <2>4
  <2>5. CASE family'[handle[h].family].uncertain /\ handle'[h] # handle[h] /\ handle[h].id \notin records'
    <3>1. CASE [MongoContract!Next]_(MongoContract!vars)
      <4> DEFINE mh == MongoHandle
      <4>1. /\ \/ family'[handle[h].family].persisted_id = family[handle[h].family].persisted_id
               \/ ~family[handle[h].family].used
               \/ \E g \in Handles : Mongo!CompleteSave(g) /\ handle[g].family = handle[h].family
        BY <2>1, MongoIdentities
      <4>2. mh[h].at = "wrote" /\ mh[h].family = handle[h].family
        BY <1>4, MongoFields
      <4> HIDE DEF mh
      <4>3. family[handle[h].family].used /\ family[handle[h].family].holder = h
        BY <1>0, <1>4, <4>2, InsertingFacts DEF MongoContract!IInv,
           MongoContract!HandlesAreSessions, MongoContract!Present, mh
      <4>4. ASSUME NEW g \in Handles, Mongo!CompleteSave(g), handle[g].family = handle[h].family
            PROVE  FALSE
        <5>1. handle[g].at = "wrote"
          BY <4>4 DEF Mongo!CompleteSave
        <5>2. mh[g] = handle[g]
          BY <5>1, MongoFields DEF mh
        <5>3. family[handle[g].family].holder = g
          BY <5>1, <5>2 DEF MongoInv, MongoContract!FullInv, MongoContract!Locking,
             MongoContract!Locks, MongoContract!HoldsLock, MongoContract!Writing,
             MongoContract!FamilyOf, mh
        <5> QED
          BY <1>4, <4>3, <4>4, <5>1, <5>3
      <4>5. family'[handle[h].family].persisted_id = handle[h].origin
        BY <2>1, <4>1, <4>3, <4>4
      <4> QED
        BY <1>1, <2>1, <2>5, <4>5
    <3>2. ASSUME NEW g \in Handles, MongoContract!LoseRotation(g) PROVE Safe(lineage[handle[h].id])
      <4>1. \A e \in Families : family'[e].persisted_id = family[e].persisted_id
        BY <1>0, <3>2, NoneAssumption, MongoContract!LoseFacts
        DEF MongoInv, MongoContract!FullInv
      <4> QED
        BY <1>1, <2>1, <2>5, <4>1
    <3> QED
      BY <3>1, <3>2, MongoStep
  <2> QED
    BY <1>4, <2>3, <2>4, <2>5, MongoInsertingStep
<1>5. ASSUME NEW i \in gone, NEW f \in Families, family[f].uncertain, family[f].persisted_id = i
      PROVE  Safe(lineage[i])
  <2>1. i # NoId
    BY <1>1, NoneAssumption
  <2>2. family'[f].uncertain /\ family'[f].persisted_id = i
    BY <1>5, <2>1, MongoFlags, MongoFamilyStep
  <2> QED
    BY <1>1, <2>2
<1>6. ASSUME NEW j \in gone' PROVE Safe(lineage'[j])
  <2>1. lineage'[j] = lineage[j]
    BY <1>1
  <2>2. CASE j \in gone
    <3>1. CASE lineage[j] \in ended
      BY <1>1, <2>1, <3>1
    <3>2. ASSUME NEW i \in records, lineage[i] = lineage[j] PROVE Safe(lineage'[j])
      BY <1>3, <2>1, <3>2
    <3>3. ASSUME NEW h \in Handles, handle[h].at = "insert", lineage[handle[h].id] = lineage[j]
          PROVE  Safe(lineage'[j])
      BY <1>4, <2>1, <3>3
    <3>4. ASSUME NEW i \in gone, NEW f \in Families, lineage[i] = lineage[j],
                 family[f].uncertain, family[f].persisted_id = i
          PROVE  Safe(lineage'[j])
      BY <1>5, <2>1, <3>4
    <3> HIDE DEF Safe
    <3> QED
      BY <1>0, <2>2, <3>1, <3>2, <3>3, <3>4 DEF Mongo!LossIsFenced
  <2> QED
    BY <1>2, <2>1, <2>2
<1> QED
  BY <1>6 DEF Mongo!LossIsFenced

LEMMA MongoTypeStep ==
  ASSUME MongoInv, Mongo!MongoNext
  PROVE  MongoTypes'
<1>0. handle \in [Handles -> Mongo!HandleStates] /\ MongoContract!TypeOK'
  BY MongoContractStep DEF MongoInv, MongoTypes, MongoContract!FullInv, MongoContract!IInv
<1>1. ASSUME NEW g \in Handles PROVE handle'[g] \in Mongo!HandleStates
  <2>1. CASE handle'[g].at # "insert"
    <3>1. MongoHandle'[g] = handle'[g]
      BY <2>1 DEF MongoHandle
    <3>2. MongoHandle'[g] \in MongoContract!HandleStates
      BY <1>0 DEF MongoContract!TypeOK
    <3> QED
      BY <3>1, <3>2 DEF MongoContract!HandleStates, Mongo!HandleStates, MongoContract!Stages,
         Mongo!Stages
  <2>2. CASE handle'[g] = handle[g]
    BY <1>0, <2>2
  <2>3. CASE Mongo!DeleteSource(g)
    BY <1>0, <2>3 DEF Mongo!DeleteSource, Mongo!Move, Mongo!HandleStates, Mongo!Stages
  <2>4. handle'[g].at = "insert" => handle'[g] = handle[g] \/ Mongo!DeleteSource(g)
    <3>1. HandleStep(g)
      BY <1>0, MongoHandles
    <3>2. ASSUME \/ \E f \in Families, i \in Ids : Mongo!New(g, f, i) \/ Mongo!Load(g, f, i)
                 \/ \E k \in Handles : Mongo!Clone(k, g)
                 \/ \E i \in Ids : Mongo!Regenerate(g, i)
                 \/ Mongo!BeginSave(g) \/ Mongo!BeginBackendWrite(g)
                 \/ Mongo!BeginDelete(g) \/ Mongo!EnterDelete(g)
          PROVE  handle'[g].at # "insert"
      <4>1. ASSUME NEW f \in Families, NEW i \in Ids, Mongo!New(g, f, i) \/ Mongo!Load(g, f, i)
            PROVE  handle'[g].at # "insert"
        <5>1. handle' = [handle EXCEPT ![g].at = "live", ![g].family = f, ![g].id = i]
          BY <4>1 DEF Mongo!New, Mongo!Load
        <5>2. handle'[g].at = "live"
          BY <1>0, <5>1 DEF Mongo!HandleStates
        <5> QED
          BY <5>2
      <4>2. ASSUME NEW k \in Handles, Mongo!Clone(k, g) PROVE handle'[g].at # "insert"
        BY <1>0, <4>2 DEF Mongo!Clone
      <4>3. ASSUME NEW i \in Ids, Mongo!Regenerate(g, i) PROVE handle'[g].at # "insert"
        BY <1>0, <4>3 DEF Mongo!Regenerate, Mongo!HandleStates
      <4>4. CASE Mongo!BeginSave(g) \/ Mongo!BeginBackendWrite(g) \/ Mongo!BeginDelete(g) \/ Mongo!EnterDelete(g)
        BY <1>0, <4>4 DEF Mongo!BeginSave, Mongo!BeginBackendWrite, Mongo!BeginDelete, Mongo!Move,
           Mongo!EnterDelete, Mongo!HandleStates
      <4> QED
        BY <3>2, <4>1, <4>2, <4>3, <4>4
    <3>3. handle'[g] = Mongo!NoSession => handle'[g].at # "insert"
      BY DEF Mongo!NoSession
    <3>4. Mongo!Write(g) \/ Mongo!InsertReplacement(g) => handle'[g].at # "insert"
      BY <1>0 DEF Mongo!Write, Mongo!Put, Mongo!InsertReplacement, Mongo!Move, Mongo!HandleStates
    <3> QED
      BY <3>1, <3>2, <3>3, <3>4 DEF HandleStep
  <2> QED
    BY <2>1, <2>2, <2>3, <2>4
<1>2. handle' = [g \in Handles |-> handle'[g]]
  BY <1>0, MongoHandles
<1>3. handle' \in [Handles -> Mongo!HandleStates]
  BY <1>1, <1>2
<1>4. records' \in SUBSET Ids /\ ended' \in SUBSET Ids
  BY <1>0, MongoEndedStep DEF MongoContract!TypeOK, MongoRecords
<1>5. \A r \in flying' : /\ r \in Mongo!Requests
                         /\ r.op = "delete" \/ (r.op = "insert" /\ r.source = NoId)
  BY MongoRequestStep DEF Tame
<1> QED
  BY <1>3, <1>4, <1>5 DEF MongoTypes

LEMMA MongoInvStep ==
  ASSUME MongoInv, Mongo!MongoNext
  PROVE  MongoInv'
<1>1. PendingIsPrivate'
  <2>1. (Pending \cap Real = {})'
    BY MongoPendingStep
  <2>2. \A f \in Families : family'[f].persisted_id # NoId =>
          family'[f].used /\ family'[f].persisted_id \in Real'
    BY MongoFamilyStep
  <2>3. \A h \in Handles : HandleIsPrivate(h)'
    BY MongoHandleStep
  <2>4. \A r \in flying' : r.op = "delete" => Harmless(r.id)'
    BY MongoRequestStep DEF Tame
  <2> QED
    BY <2>1, <2>2, <2>3, <2>4 DEF PendingIsPrivate
<1>2. PendingIsFenced'
  BY MongoRequestStep DEF PendingIsFenced, Tame
<1> QED
  BY <1>1, <1>2, MongoContractStep, MongoTypeStep, MongoEndedStep, MongoLossStep DEF MongoInv

\* A pending ID was drawn by a family in which no destroy_session succeeded.
LEMMA PendingIsAllowed ==
  ASSUME MongoInv, NEW i \in Pending
  PROVE  maker[i] \notin deleted
<1> DEFINE mh == MongoHandle
<1>0. MongoContract!DeletedIsFenced
  BY DEF MongoInv, MongoContract!FullInv, MongoContract!Finality
<1>1. ASSUME NEW h \in Handles, handle[h].at = "insert", i = handle[h].id
      PROVE  maker[i] \notin deleted
  <2>1. mh[h].at = "wrote" /\ mh[h].family = handle[h].family
    BY <1>1, MongoFields
  <2>2. maker[i] = handle[h].family
    BY <1>1, InsertingFacts
  <2> HIDE DEF mh
  <2> QED
    BY <1>0, <2>1, <2>2 DEF MongoContract!DeletedIsFenced, MongoContract!Writing, mh
<1>2. ASSUME NEW r \in flying, Overdue(r), i = r.id PROVE maker[i] \notin deleted
  BY <1>0, <1>2 DEF MongoInv, PendingIsFenced, Overdue, MongoContract!DeletedIsFenced
<1> QED
  BY <1>1, <1>2 DEF Pending, Inserting

\* No step creates a record of a family in which destroy_session succeeded.
LEMMA MongoCreations ==
  ASSUME MongoInv, Mongo!MongoNext, NEW i \in records' \ records
  PROVE  maker[i] \notin deleted
<1>1. CASE i \in Pending
  BY <1>1, PendingIsAllowed
<1>2. CASE i \notin Pending
  <2>1. i \in MongoRecords' /\ i \notin MongoRecords
    BY <1>2 DEF MongoRecords
  <2>2. ~\E h \in Handles : MongoContract!LoseRotation(h)
    BY <2>1 DEF MongoContract!LoseRotation
  <2>3. [MongoContract!Next]_(MongoContract!vars)
    BY <2>2, MongoStep
  <2> QED
    BY <2>1, <2>3, NoneAssumption, MongoContract!CreationsAreAllowed
    DEF MongoInv, MongoContract!FullInv
<1> QED
  BY <1>1, <1>2
-----------------------------------------------------------------------------
(* LockedStore: its own lock does what the lifecycle lock does.            *)

LockedContract == INSTANCE ServerStoreProofs WITH
    CanOutliveFuture <- FALSE, handle <- Locked!ContractHandle, family <- Locked!ContractFamily

\* Who works under the store's lock has it, and the lifecycle lock is not used.
OwnLock ==
    /\ \A h \in Handles :
         /\ handle[h].at \in {"write", "wrote", "dlock", "delete"} => owner = h
         /\ handle[h].at \notin {"dlock", "delete"} => handle[h].target = NoId
         /\ ~handle[h].uncertain_on_drop
    /\ \A f \in Families : family[f].holder = NoHandle /\ ~family[f].uncertain

\* The target of a deletion is still what prepare_delete selected.
TargetsAreCurrent ==
    \A h \in Handles : handle[h].at = "dlock" /\ handle[h].target # NoId =>
        handle[h].target = Locked!DeleteTarget(h)

LockedInv ==
    /\ LockedContract!FullInv
    /\ handle \in [Handles -> Locked!HandleStates] /\ family \in [Families -> Locked!FamilyStates]
    /\ OwnLock /\ TargetsAreCurrent

\* What the contract sees of a handle, and of a family.
LEMMA LockedFields ==
  ASSUME NEW g \in Handles
  PROVE  LET c == Locked!ContractHandle[g] IN
         /\ c.family = handle[g].family /\ c.id = handle[g].id
         /\ c.rotation_from = handle[g].rotation_from /\ c.origin = handle[g].origin
         /\ c.uncertain_on_drop = handle[g].uncertain_on_drop
         /\ handle[g].at # "dlock" => c = handle[g]
         /\ handle[g].at = "dlock" =>
              c = [handle[g] EXCEPT !.at = IF handle[g].target = NoId THEN "live" ELSE "dlock",
                                    !.target = NoId]
  BY DEF Locked!ContractHandle

Working(f) ==
    \E h \in Handles : /\ owner = h /\ handle[h].family = f
                       /\ handle[h].at \in {"write", "wrote", "delete"}

LEMMA LockedFamilies ==
  ASSUME NEW f \in Families
  PROVE  LET c == Locked!ContractFamily[f] IN
         /\ c.used = family[f].used /\ c.fresh = family[f].fresh
         /\ c.persisted_id = family[f].persisted_id
         /\ c.creation_claimed = family[f].creation_claimed
         /\ c.destroy = family[f].destroy /\ c.uncertain = family[f].uncertain
         /\ c = IF Working(f) THEN [family[f] EXCEPT !.holder = owner] ELSE family[f]
  BY DEF Locked!ContractFamily, Working

LEMMA LockedUpdate ==
  ASSUME handle \in [Handles -> Locked!HandleStates], NEW h \in Handles,
         NEW x, handle' = [handle EXCEPT ![h] = x], x.at # "dlock"
  PROVE  Locked!ContractHandle' = [Locked!ContractHandle EXCEPT ![h] = x]
  BY DEF Locked!ContractHandle

LEMMA LockedDiscard ==
  ASSUME handle \in [Handles -> Locked!HandleStates], NEW h \in Handles, Locked!Discard(h)
  PROVE  LockedContract!Discard(h)
<1>1. Locked!NoSession.at # "dlock" /\ Locked!NoSession = LockedContract!NoSession
  BY DEF Locked!NoSession, LockedContract!NoSession
<1> QED
  BY <1>1, LockedUpdate DEF Locked!Discard, LockedContract!Discard

\* What a step does to a family, it does to what the contract sees of it,
\* unless it is a step of the lock.
LEMMA LockedFamily ==
  ASSUME family \in [Families -> Locked!FamilyStates], NEW f \in Families,
         NEW y, family' = [family EXCEPT ![f] = y],
         \A e \in Families : Working(e)' <=> Working(e), owner' = owner
  PROVE  Locked!ContractFamily' = [Locked!ContractFamily EXCEPT ![f] =
             IF Working(f) THEN [y EXCEPT !.holder = owner] ELSE y]
<1> DEFINE cf == Locked!ContractFamily
           z == IF Working(f) THEN [y EXCEPT !.holder = owner] ELSE y
<1>1. cf = [e \in Families |->
              IF Working(e) THEN [family[e] EXCEPT !.holder = owner] ELSE family[e]]
  BY DEF Locked!ContractFamily, Working
<1>2. cf' = [e \in Families |->
               IF Working(e)' THEN [family'[e] EXCEPT !.holder = owner'] ELSE family'[e]]
  BY DEF Locked!ContractFamily, Working
<1>3. /\ family'[f] = y
      /\ \A e \in Families : e # f => family'[e] = family[e]
  OBVIOUS
<1>4. /\ cf'[f] = z /\ \A e \in Families : e # f => cf'[e] = cf[e]
  BY <1>1, <1>2, <1>3
<1>5. cf' = [cf EXCEPT ![f] = z]
  BY <1>1, <1>2, <1>4
<1> QED
  BY <1>5

LEMMA LockedQuiet ==
  ASSUME family \in [Families -> Locked!FamilyStates], family' = family,
         \A e \in Families : Working(e)' <=> Working(e), owner' = owner
  PROVE  Locked!ContractFamily' = Locked!ContractFamily
<1> DEFINE cf == Locked!ContractFamily
<1>1. cf = [e \in Families |->
              IF Working(e) THEN [family[e] EXCEPT !.holder = owner] ELSE family[e]]
  BY DEF Locked!ContractFamily, Working
<1>2. cf' = [e \in Families |->
               IF Working(e)' THEN [family'[e] EXCEPT !.holder = owner'] ELSE family'[e]]
  BY DEF Locked!ContractFamily, Working
<1> QED
  BY <1>1, <1>2

\* The conditions of the code read the same in the contract.
LEMMA LockedConditions ==
  ASSUME LockedInv, NEW h \in Handles, handle[h].at # "absent"
  PROVE  /\ handle[h].family \in Families /\ handle[h].id \in Ids
         /\ LockedContract!FamilyOf(h) = Locked!ContractFamily[handle[h].family]
         /\ LockedContract!FamilyOf(h).destroy = Locked!FamilyOf(h).destroy
         /\ LockedContract!FamilyOf(h).persisted_id = Locked!FamilyOf(h).persisted_id
         /\ ~LockedContract!FamilyOf(h).uncertain
         /\ LockedContract!OriginConflict(h) <=> Locked!OriginConflict(h)
         /\ LockedContract!Superseded(h) <=> Locked!Superseded(h)
         /\ LockedContract!DeleteTarget(h) = Locked!DeleteTarget(h)
         /\ owner = NoHandle => LockedContract!FamilyOf(h) = Locked!FamilyOf(h)
<1>0. /\ handle[h] \in Locked!HandleStates /\ LockedContract!HandlesAreSessions
  BY DEF LockedInv, LockedContract!FullInv, LockedContract!IInv
<1>1. handle[h].family \in Families /\ handle[h].id \in Ids
  <2>1. Locked!ContractHandle[h].at # "absent"
    BY <1>0, LockedFields DEF Locked!HandleStates
  <2> QED
    BY <1>0, <2>1, LockedFields DEF LockedContract!HandlesAreSessions, LockedContract!Present
<1>2. LockedContract!FamilyOf(h) = Locked!ContractFamily[handle[h].family]
  BY LockedFields DEF LockedContract!FamilyOf
<1>3. /\ LockedContract!FamilyOf(h).destroy = Locked!FamilyOf(h).destroy
      /\ LockedContract!FamilyOf(h).persisted_id = Locked!FamilyOf(h).persisted_id
      /\ LockedContract!FamilyOf(h).fresh = Locked!FamilyOf(h).fresh
      /\ LockedContract!FamilyOf(h).creation_claimed = Locked!FamilyOf(h).creation_claimed
      /\ ~LockedContract!FamilyOf(h).uncertain
  <2> DEFINE c == Locked!ContractFamily[handle[h].family]
             e == family[handle[h].family]
  <2>1. /\ c.destroy = e.destroy /\ c.persisted_id = e.persisted_id /\ c.fresh = e.fresh
        /\ c.creation_claimed = e.creation_claimed /\ c.uncertain = e.uncertain
    BY <1>1, LockedFamilies
  <2>2. ~e.uncertain
    BY <1>1 DEF LockedInv, OwnLock
  <2>3. LockedContract!FamilyOf(h) = c /\ Locked!FamilyOf(h) = e
    BY <1>2 DEF Locked!FamilyOf
  <2> HIDE DEF c, e
  <2> QED
    BY <2>1, <2>2, <2>3
<1>4. LockedContract!OriginConflict(h) <=> Locked!OriginConflict(h)
  BY <1>3, LockedFields DEF LockedContract!OriginConflict, Locked!OriginConflict
<1>5. /\ LockedContract!Superseded(h) <=> Locked!Superseded(h)
      /\ LockedContract!DeleteTarget(h) = Locked!DeleteTarget(h)
  BY <1>3, <1>4, LockedFields DEF LockedContract!Superseded, Locked!Superseded,
     LockedContract!DeleteTarget, Locked!DeleteTarget
<1>6. owner = NoHandle => LockedContract!FamilyOf(h) = Locked!FamilyOf(h)
  <2>1. owner = NoHandle => ~Working(handle[h].family)
    BY NoneAssumption DEF Working
  <2> QED
    BY <1>1, <1>2, <2>1, LockedFamilies DEF Locked!FamilyOf
<1> QED
  BY <1>1, <1>2, <1>3, <1>4, <1>5, <1>6

\* A step outside the lock does not change who works under it.
LEMMA LockedStill ==
  ASSUME handle \in [Handles -> Locked!HandleStates], NEW h \in Handles, NEW x,
         handle' = [handle EXCEPT ![h] = x], owner' = owner,
         handle[h].at \notin {"write", "wrote", "delete"}, x.at \notin {"write", "wrote", "delete"}
  PROVE  \A e \in Families : Working(e)' <=> Working(e)
  BY DEF Working

\* What the application does while anybody has the lock.
LEMMA LockedApplication ==
  ASSUME LockedInv, NEW h \in Handles, Locked!UnlockedStep(h), owner' = owner
  PROVE  LockedContract!ApplicationStep(h)
<1> DEFINE ch == Locked!ContractHandle
           cf == Locked!ContractFamily
<1>0. /\ handle \in [Handles -> Locked!HandleStates]
      /\ family \in [Families -> Locked!FamilyStates]
      /\ \A g \in Handles : handle[g].at # "dlock" => ch[g] = handle[g]
      /\ \A f \in Families : cf[f].used = family[f].used
  BY LockedFields, LockedFamilies DEF LockedInv
<1> HIDE DEF ch, cf
<1>1. ASSUME NEW g \in Handles, NEW x, handle' = [handle EXCEPT ![g] = x],
             x.at \notin {"write", "wrote", "delete", "dlock"},
             handle[g].at \notin {"write", "wrote", "delete", "dlock"}
      PROVE  /\ ch' = [ch EXCEPT ![g] = x] /\ ch[g] = handle[g]
             /\ \A e \in Families : Working(e)' <=> Working(e)
             /\ family' = family => cf' = cf
  <2>1. \A e \in Families : Working(e)' <=> Working(e)
    BY <1>0, <1>1, LockedStill
  <2> QED
    BY <1>0, <1>1, <2>1, LockedUpdate, LockedQuiet DEF ch, cf
<1>2. ASSUME NEW f \in Families, NEW i \in Ids, Locked!New(h, f, i)
      PROVE  LockedContract!New(h, f, i)
  <2> DEFINE x == [handle[h] EXCEPT !.at = "live", !.family = f, !.id = i]
             y == [family[f] EXCEPT !.used = TRUE, !.fresh = TRUE]
  <2>1. /\ handle' = [handle EXCEPT ![h] = x] /\ x.at = "live" /\ handle[h].at = "absent"
        /\ family' = [family EXCEPT ![f] = y]
    BY <1>0, <1>2 DEF Locked!New, Locked!HandleStates, Locked!FamilyStates
  <2>2. ch' = [ch EXCEPT ![h] = x] /\ ch[h] = handle[h] /\ \A e \in Families : Working(e)' <=> Working(e)
    BY <1>1, <2>1
  <2>3. cf' = [cf EXCEPT ![f] = IF Working(f) THEN [y EXCEPT !.holder = owner] ELSE y]
    BY <1>0, <2>1, <2>2, LockedFamily DEF cf
  <2>4. cf' = [cf EXCEPT ![f] = [cf[f] EXCEPT !.used = TRUE, !.fresh = TRUE]]
    BY <1>0, <2>3, LockedFamilies DEF cf, Locked!FamilyStates
  <2>5. ch' = [ch EXCEPT ![h].at = "live", ![h].family = f, ![h].id = i]
    BY <2>2
  <2>6. cf' = [cf EXCEPT ![f].used = TRUE, ![f].fresh = TRUE]
    BY <2>4
  <2> QED
    BY <1>0, <1>2, <2>1, <2>2, <2>5, <2>6 DEF Locked!New, LockedContract!New, ch, cf
<1>3. ASSUME NEW g \in Handles, Locked!Clone(h, g) PROVE LockedContract!Clone(h, g)
  <2>1. handle[h].at = "live" /\ handle[g].at = "absent" /\ handle' = [handle EXCEPT ![g] = handle[h]]
    BY <1>3 DEF Locked!Clone
  <2>2. ch' = [ch EXCEPT ![g] = handle[h]] /\ ch[g] = handle[g] /\ (family' = family => cf' = cf)
    BY <1>1, <2>1
  <2>3. ch[h] = handle[h]
    BY <1>0, <2>1
  <2> QED
    BY <1>3, <2>1, <2>2, <2>3 DEF Locked!Clone, LockedContract!Clone, Locked!history,
       LockedContract!history, ch, cf
<1>4. ASSUME NEW i \in Ids, Locked!Regenerate(h, i) PROVE LockedContract!Regenerate(h, i)
  <2> DEFINE p == Locked!FamilyOf(h).persisted_id
             s == IF p = handle[h].id \/ handle[h].rotation_from = p
                  THEN p ELSE handle[h].rotation_from
             x == [handle[h] EXCEPT !.rotation_from = s, !.id = i]
  <2>1. handle' = [handle EXCEPT ![h] = x] /\ x.at = "live" /\ handle[h].at = "live"
    BY <1>0, <1>4 DEF Locked!Regenerate, Locked!HandleStates
  <2>2. ch' = [ch EXCEPT ![h] = x] /\ ch[h] = handle[h] /\ (family' = family => cf' = cf)
    BY <1>1, <2>1
  <2>3. LockedContract!FamilyOf(h).persisted_id = p
    BY <2>1, LockedConditions
  <2>4. ch' = [ch EXCEPT ![h].rotation_from = s, ![h].id = i]
    BY <2>2
  <2> QED
    BY <1>4, <2>1, <2>2, <2>3, <2>4 DEF Locked!Regenerate, LockedContract!Regenerate, ch, cf
<1>5. CASE Locked!Destroy(h)
  <2> DEFINE f == handle[h].family
             y == [family[f] EXCEPT !.destroy = TRUE]
  <2>1. handle' = handle /\ handle[h].at = "live" /\ f \in Families /\ family' = [family EXCEPT ![f] = y]
    BY <1>0, <1>5, LockedConditions DEF Locked!Destroy
  <2>2. ch' = ch /\ ch[h] = handle[h] /\ \A e \in Families : Working(e)' <=> Working(e)
    BY <1>0, <2>1 DEF ch, Locked!ContractHandle, Working
  <2>3. cf' = [cf EXCEPT ![f] = IF Working(f) THEN [y EXCEPT !.holder = owner] ELSE y]
    BY <1>0, <2>1, <2>2, LockedFamily DEF cf
  <2>4. cf' = [cf EXCEPT ![f] = [cf[f] EXCEPT !.destroy = TRUE]]
    <3>1. cf[f] = IF Working(f) THEN [family[f] EXCEPT !.holder = owner] ELSE family[f]
      BY <2>1, LockedFamilies DEF cf
    <3> QED
      BY <1>0, <2>1, <2>3, <3>1 DEF Locked!FamilyStates
  <2>5. LockedContract!Destroy(h)
    BY <1>5, <2>1, <2>2, <2>4, LockedConditions DEF Locked!Destroy, LockedContract!Destroy,
       Locked!history, LockedContract!history, ch, cf
  <2> QED
    BY <2>5 DEF LockedContract!ApplicationStep
<1>6. CASE Locked!BeginSave(h)
  <2> DEFINE f == handle[h].family
             p == Locked!FamilyOf(h).persisted_id
             x == [handle[h] EXCEPT !.at = "lock", !.origin = p]
             b == family[f].creation_claimed \/ (p = NoId)
             y == [family[f] EXCEPT !.creation_claimed = b]
  <2>1. /\ handle' = [handle EXCEPT ![h] = x] /\ x.at = "lock" /\ handle[h].at = "live"
        /\ family' = [family EXCEPT ![f] = y]
    BY <1>0, <1>6 DEF Locked!BeginSave, Locked!HandleStates, Locked!ClaimsCreation
  <2>2. ch' = [ch EXCEPT ![h] = x] /\ ch[h] = handle[h] /\ \A e \in Families : Working(e)' <=> Working(e)
    BY <1>1, <2>1
  <2>3. f \in Families /\ LockedContract!FamilyOf(h).persisted_id = p
    BY <2>1, LockedConditions
  <2>4. cf' = [cf EXCEPT ![f] = IF Working(f) THEN [y EXCEPT !.holder = owner] ELSE y]
    <3> HIDE DEF b, x, p
    <3> QED
      BY <1>0, <2>1, <2>2, <2>3, LockedFamily DEF cf
  <2>5. cf' = [cf EXCEPT ![f] = [cf[f] EXCEPT !.creation_claimed = @ \/ (p = NoId)]]
    <3>1. cf[f] = IF Working(f) THEN [family[f] EXCEPT !.holder = owner] ELSE family[f]
      BY <2>3, LockedFamilies DEF cf
    <3>2. family[f] \in Locked!FamilyStates
      BY <1>0, <2>3
    <3> HIDE DEF p, f
    <3> QED
      BY <2>4, <3>1, <3>2 DEF Locked!FamilyStates
  <2>6. LockedContract!BeginSave(h)
    BY <1>6, <2>1, <2>2, <2>3, <2>5, LockedConditions
    DEF Locked!BeginSave, LockedContract!BeginSave, LockedContract!ClaimsCreation,
        Locked!history, LockedContract!history, ch, cf
  <2> QED
    BY <2>6 DEF LockedContract!ApplicationStep
<1>7. CASE Locked!RefuseSave(h) \/ (owner # h /\ Locked!DropHandle(h))
  <2>1. handle[h].at \in {"live", "lock"} /\ Locked!Discard(h) /\ family' = family
    BY <1>7 DEF Locked!RefuseSave, Locked!DropHandle, LockedInv, OwnLock
  <2>2. handle' = [handle EXCEPT ![h] = Locked!NoSession] /\ Locked!NoSession.at = "absent"
    BY <2>1 DEF Locked!Discard, Locked!NoSession
  <2>3. ch[h] = handle[h] /\ cf' = cf /\ LockedContract!Discard(h)
    BY <1>0, <1>1, <2>1, <2>2, LockedDiscard
  <2>4. CASE Locked!RefuseSave(h)
    <3>1. LockedContract!RefuseSave(h)
      BY <2>1, <2>3, <2>4, LockedConditions DEF Locked!RefuseSave, LockedContract!RefuseSave,
         Locked!history, LockedContract!history, ch, cf
    <3> QED
      BY <3>1 DEF LockedContract!ApplicationStep
  <2>5. CASE Locked!DropHandle(h)
    <3>1. LockedContract!DropHandle(h)
      BY <2>1, <2>3, <2>5 DEF Locked!DropHandle, LockedContract!DropHandle,
         Locked!history, LockedContract!history, ch, cf
    <3> QED
      BY <3>1 DEF LockedContract!ApplicationStep
  <2> QED
    BY <1>7, <2>4, <2>5
<1> QED
  BY <1>2, <1>3, <1>4, <1>5, <1>6, <1>7 DEF Locked!UnlockedStep, LockedContract!ApplicationStep

\* A save takes the store's lock, works under it and gives it back.
LEMMA LockedSaves ==
  ASSUME LockedInv, NEW h \in Handles
  PROVE  /\ Locked!LockForSave(h) => LockedContract!BeginBackendWrite(h)
         /\ Locked!RefuseCurrent(h) => LockedContract!RefuseBackendWrite(h)
         /\ Locked!Put(h) /\ UNCHANGED owner => LockedContract!Put(h)
         /\ Locked!RejectPut(h) /\ Locked!Unlock => LockedContract!RejectPut(h)
         /\ Locked!Complete(h) => LockedContract!CompleteSave(h)
         /\ Locked!Undo(h) => LockedContract!Compensate(h)
<1> DEFINE ch == Locked!ContractHandle
           cf == Locked!ContractFamily
           f == handle[h].family
<1>0. /\ handle \in [Handles -> Locked!HandleStates]
      /\ family \in [Families -> Locked!FamilyStates] /\ OwnLock
      /\ handle[h].at # "dlock" => ch[h] = handle[h]
      /\ NoHandle \notin Handles
  BY LockedFields, NoneAssumption DEF LockedInv
<1>1. cf = [e \in Families |->
              IF Working(e) THEN [family[e] EXCEPT !.holder = owner] ELSE family[e]]
  BY DEF Locked!ContractFamily, Working
<1>2. cf' = [e \in Families |->
               IF Working(e)' THEN [family'[e] EXCEPT !.holder = owner'] ELSE family'[e]]
  BY DEF Locked!ContractFamily, Working
<1> HIDE DEF ch, cf
\* Without the lock nobody works; with it, only its owner.
<1>3. owner = NoHandle => cf = family
  <2>1. owner = NoHandle => \A e \in Families : ~Working(e)
    BY <1>0 DEF Working
  <2> QED
    BY <1>0, <1>1, <2>1
<1>4. owner' = NoHandle => cf' = [e \in Families |-> family'[e]]
  <2>1. owner' = NoHandle => \A e \in Families : ~Working(e)'
    BY <1>0 DEF Working
  <2> QED
    BY <1>2, <2>1
<1>5. ASSUME handle[h].at \in {"write", "wrote"}
      PROVE  /\ f \in Families /\ owner = h
             /\ cf = [family EXCEPT ![f].holder = h]
             /\ family[f].holder = NoHandle /\ ~family[f].uncertain
             /\ ~handle[h].uncertain_on_drop
  <2>1. f \in Families /\ owner = h
    BY <1>0, <1>5, LockedConditions DEF OwnLock
  <2>2. \A e \in Families : Working(e) <=> e = f
    BY <1>5, <2>1 DEF Working
  <2> QED
    BY <1>0, <1>1, <2>1, <2>2 DEF OwnLock
<1>6. ASSUME handle[h].at \in {"write", "wrote"}, Locked!Discard(h), owner' = NoHandle,
             family' = family, NEW s
      PROVE  LockedContract!Discard(h) /\ LockedContract!ReleaseWrite(h, s)
  <2>1. cf' = family
    BY <1>0, <1>4, <1>6
  <2>2. ~s /\ handle[h].uncertain_on_drop <=> FALSE
    BY <1>5, <1>6
  <2>3. family = [cf EXCEPT ![f].holder = NoHandle,
                            ![f].uncertain = @ \/ (~s /\ handle[h].uncertain_on_drop)]
    BY <1>0, <1>5, <1>6, <2>2 DEF Locked!FamilyStates
  <2> QED
    BY <1>0, <1>6, <2>1, <2>3, LockedDiscard DEF LockedContract!ReleaseWrite, ch, cf
<1>7. ASSUME Locked!LockForSave(h) PROVE LockedContract!BeginBackendWrite(h)
  <2> DEFINE x == [handle[h] EXCEPT !.at = "write"]
  <2>1. /\ handle[h].at = "lock" /\ handle' = [handle EXCEPT ![h] = x] /\ x.at = "write"
        /\ owner = NoHandle /\ owner' = h /\ family' = family /\ Locked!ValidCurrent(h)
    BY <1>0, <1>7 DEF Locked!LockForSave, Locked!Free, Locked!Move, Locked!HandleStates
  <2>2. ch' = [ch EXCEPT ![h] = x] /\ ch[h] = handle[h]
    BY <1>0, <2>1, LockedUpdate DEF ch
  <2>3. f \in Families /\ cf = family
    BY <1>3, <2>1, LockedConditions
  <2>4. \A e \in Families : Working(e)' <=> e = f
    BY <1>0, <2>1 DEF Working, Locked!HandleStates
  <2>5. cf' = [cf EXCEPT ![f].holder = h]
    BY <1>0, <1>2, <2>1, <2>3, <2>4
  <2>6. /\ LockedContract!FamilyOf(h) = family[f] /\ family[f].holder = NoHandle
        /\ LockedContract!AdmitsWrite(h) /\ ~LockedContract!Superseded(h)
    BY <1>0, <2>1, <2>3, LockedConditions DEF Locked!ValidCurrent, LockedContract!AdmitsWrite,
       Locked!FamilyOf, OwnLock
  <2>7. x = [handle[h] EXCEPT !.at = "write", !.uncertain_on_drop = FALSE]
    BY <1>0 DEF OwnLock, Locked!HandleStates
  <2>8. (LockedContract!CanCreate(h) /\ FALSE) = FALSE
    OBVIOUS
  <2>9. ch' = [ch EXCEPT ![h].at = "write",
                         ![h].uncertain_on_drop = LockedContract!CanCreate(h) /\ FALSE]
    BY <2>2, <2>7, <2>8
  <2> QED
    BY <1>7, <2>1, <2>2, <2>5, <2>6, <2>9 DEF Locked!LockForSave, LockedContract!BeginBackendWrite,
       Locked!history, LockedContract!history, ch, cf
<1>8. ASSUME Locked!RefuseCurrent(h) PROVE LockedContract!RefuseBackendWrite(h)
  <2>1. /\ handle[h].at = "lock" /\ Locked!Discard(h) /\ ~Locked!ValidCurrent(h)
        /\ owner = NoHandle /\ owner' = NoHandle /\ family' = family
    BY <1>8 DEF Locked!RefuseCurrent, Locked!Free
  <2>2. f \in Families /\ cf = family /\ cf' = cf
    BY <1>0, <1>3, <1>4, <2>1, LockedConditions
  <2>3. /\ LockedContract!FamilyOf(h) = family[f] /\ family[f].holder = NoHandle
        /\ ~LockedContract!AdmitsWrite(h) \/ LockedContract!Superseded(h)
    BY <1>0, <2>1, <2>2, LockedConditions DEF Locked!ValidCurrent, LockedContract!AdmitsWrite,
       Locked!FamilyOf, OwnLock
  <2>4. cf' = [cf EXCEPT ![f].uncertain = @ \/ (LockedContract!CanCreate(h) /\ FALSE)]
    <3>1. \A b \in BOOLEAN : (b \/ (LockedContract!CanCreate(h) /\ FALSE)) = b
      OBVIOUS
    <3> QED
      BY <1>0, <2>2, <3>1 DEF Locked!FamilyStates
  <2>5. LockedContract!Discard(h) /\ ch[h] = handle[h]
    BY <1>0, <2>1, LockedDiscard
  <2> QED
    BY <1>8, <2>1, <2>2, <2>3, <2>4, <2>5 DEF Locked!RefuseCurrent,
       LockedContract!RefuseBackendWrite, Locked!history, LockedContract!history, ch, cf
<1>9. ASSUME Locked!Put(h), owner' = owner PROVE LockedContract!Put(h)
  <2> DEFINE x == [handle[h] EXCEPT !.at = "wrote"]
  <2>1. /\ handle[h].at = "write" /\ handle' = [handle EXCEPT ![h] = x] /\ x.at = "wrote"
        /\ family' = family
    BY <1>0, <1>9 DEF Locked!Put, Locked!Move, Locked!HandleStates
  <2>2. ch' = [ch EXCEPT ![h] = x] /\ ch[h] = handle[h]
    BY <1>0, <2>1, LockedUpdate DEF ch
  <2>3. \A e \in Families : Working(e)' <=> Working(e)
    BY <1>0, <1>9, <2>1 DEF Working, Locked!HandleStates
  <2>4. cf' = cf
    BY <1>0, <1>9, <2>1, <2>3, LockedQuiet DEF cf
  <2> QED
    BY <1>9, <2>1, <2>2, <2>4 DEF Locked!Put, LockedContract!Put, Locked!Accepts,
       LockedContract!Accepts, Locked!Replace, LockedContract!Replace, LockedContract!Move, ch, cf
<1>10. ASSUME Locked!RejectPut(h), Locked!Unlock PROVE LockedContract!RejectPut(h)
  <2>1. /\ handle[h].at = "write" /\ Locked!Discard(h) /\ owner' = NoHandle
        /\ Locked!ReleaseWrite(h, FALSE)
    BY <1>10 DEF Locked!RejectPut, Locked!Unlock
  <2>2. family' = family
    <3>1. family[f].uncertain = (family[f].uncertain \/ (~FALSE /\ handle[h].uncertain_on_drop))
      BY <1>0, <1>5, <2>1 DEF Locked!FamilyStates
    <3> QED
      BY <1>0, <1>5, <2>1, <3>1 DEF Locked!ReleaseWrite, Locked!FamilyStates
  <2>3. LockedContract!Discard(h) /\ LockedContract!ReleaseWrite(h, FALSE) /\ ch[h] = handle[h]
    BY <1>0, <1>6, <2>1, <2>2
  <2> QED
    BY <1>10, <2>1, <2>3 DEF Locked!RejectPut, LockedContract!RejectPut, Locked!Accepts,
       LockedContract!Accepts, Locked!history, LockedContract!history, ch
<1>11. ASSUME Locked!Complete(h) PROVE LockedContract!CompleteSave(h)
  <2> DEFINE m == Locked!MarkPersisted(h)
  <2>1. /\ handle[h].at = "wrote" /\ Locked!Discard(h) /\ owner' = NoHandle
        /\ ~Locked!FamilyOf(h).destroy
        /\ family' = [family EXCEPT ![f].persisted_id = m]
    BY <1>11 DEF Locked!Complete, Locked!Unlock, Locked!Confirms
  <2>2. cf' = family' /\ ch[h] = handle[h] /\ LockedContract!Discard(h)
    BY <1>0, <1>4, <2>1, LockedDiscard
  <2>3. LockedContract!MarkPersisted(h) = m /\ ~LockedContract!FamilyOf(h).destroy
    BY <2>1, <2>2, LockedConditions DEF Locked!MarkPersisted, LockedContract!MarkPersisted, ch
  <2> HIDE DEF m
  <2>4. cf' = [cf EXCEPT ![f].persisted_id = m, ![f].holder = NoHandle]
    <3>1. /\ f \in Families /\ family[f] \in Locked!FamilyStates
          /\ cf = [family EXCEPT ![f].holder = h] /\ family[f].holder = NoHandle
      BY <1>0, <1>5, <2>1
    <3>2. [family[f] EXCEPT !.persisted_id = m] = [cf[f] EXCEPT !.persisted_id = m, !.holder = NoHandle]
      BY <1>0, <3>1 DEF Locked!FamilyStates
    <3> QED
      BY <1>0, <2>1, <2>2, <3>1, <3>2
  <2> QED
    BY <1>11, <2>1, <2>2, <2>3, <2>4 DEF Locked!Complete, LockedContract!CompleteSave,
       Locked!history, LockedContract!history, ch, cf
<1>12. ASSUME Locked!Undo(h) PROVE LockedContract!Compensate(h)
  <2>1. /\ handle[h].at = "wrote" /\ Locked!Discard(h) /\ owner' = NoHandle
        /\ Locked!FamilyOf(h).destroy /\ family' = family
    BY <1>12 DEF Locked!Undo, Locked!Unlock, Locked!Confirms
  <2>2. LockedContract!Discard(h) /\ LockedContract!ReleaseWrite(h, TRUE) /\ ch[h] = handle[h]
    BY <1>0, <1>6, <2>1
  <2>3. LockedContract!FamilyOf(h).destroy
    BY <2>1, LockedConditions
  <2> QED
    BY <1>12, <2>1, <2>2, <2>3 DEF Locked!Undo, LockedContract!Compensate, Locked!EndRecords,
       LockedContract!EndRecords, LockedContract!CleansUp, ch
<1> QED
  BY <1>7, <1>8, <1>9, <1>10, <1>11, <1>12

\* A deletion begins in the contract when it has its target, and has its
\* target under the lifecycle lock when it is sent.
LEMMA LockedDeletes ==
  ASSUME LockedInv, NEW h \in Handles
  PROVE  /\ Locked!LockForDelete(h) => UNCHANGED LockedContract!vars
         /\ Locked!PrepareDelete(h) => LockedContract!BeginDelete(h)
         /\ Locked!SendDelete(h) => LockedContract!EnterDelete(h)
         /\ Locked!CompleteDelete(h) /\ Locked!Unlock => LockedContract!CompleteDelete(h)
<1> DEFINE ch == Locked!ContractHandle
           cf == Locked!ContractFamily
           f == handle[h].family
<1>0. /\ handle \in [Handles -> Locked!HandleStates]
      /\ family \in [Families -> Locked!FamilyStates] /\ OwnLock
      /\ \A g \in Handles : handle[g].at # "dlock" => ch[g] = handle[g]
      /\ NoHandle \notin Handles /\ NoId \notin Ids
  BY LockedFields, NoneAssumption DEF LockedInv
<1>1. cf = [e \in Families |->
              IF Working(e) THEN [family[e] EXCEPT !.holder = owner] ELSE family[e]]
  BY DEF Locked!ContractFamily, Working
<1>2. cf' = [e \in Families |->
               IF Working(e)' THEN [family'[e] EXCEPT !.holder = owner'] ELSE family'[e]]
  BY DEF Locked!ContractFamily, Working
<1>3. \A x : handle' = [handle EXCEPT ![h] = x] /\ x.at # "dlock" => ch' = [ch EXCEPT ![h] = x]
  BY <1>0, LockedUpdate
<1>d. Locked!Discard(h) => LockedContract!Discard(h)
  BY <1>0, LockedDiscard
<1>4. ch = [g \in Handles |-> ch[g]] /\ ch' = [g \in Handles |-> ch'[g]]
  BY DEF Locked!ContractHandle
<1>5. handle[h].at = "dlock" =>
        ch[h] = [handle[h] EXCEPT !.at = IF handle[h].target = NoId THEN "live" ELSE "dlock",
                                  !.target = NoId]
  BY LockedFields
<1>r. handle[h] \in Locked!HandleStates
  BY <1>0
<1> HIDE DEF ch, cf
<1>6. ASSUME Locked!LockForDelete(h) PROVE UNCHANGED LockedContract!vars
  <2> DEFINE x == [handle[h] EXCEPT !.at = "dlock"]
  <2>1. /\ handle[h].at = "live" /\ handle' = [handle EXCEPT ![h] = x]
        /\ owner = NoHandle /\ owner' = h /\ family' = family /\ handle[h].target = NoId
    BY <1>0, <1>6 DEF Locked!LockForDelete, Locked!Free, Locked!Move, Locked!HandleStates, OwnLock
  <2>2. \A g \in Handles : ch'[g] = ch[g]
    <3>0. handle'[h] = x /\ x.at = "dlock" /\ x.target = NoId
      BY <1>0, <1>r, <2>1 DEF Locked!HandleStates
    <3>1. ch'[h] = [handle'[h] EXCEPT !.at = "live", !.target = NoId]
      <4> HIDE DEF x
      <4> QED
        BY <3>0 DEF ch, Locked!ContractHandle
    <3>2. handle[h] = [x EXCEPT !.at = "live", !.target = NoId]
      BY <1>r, <2>1 DEF Locked!HandleStates
    <3>3. \A g \in Handles : g # h => ch'[g] = ch[g]
      BY <1>0, <2>1 DEF ch, Locked!ContractHandle
    <3> QED
      BY <1>0, <2>1, <3>0, <3>1, <3>2, <3>3
  <2>3. \A e \in Families : ~Working(e) /\ ~Working(e)'
    BY <1>0, <2>1 DEF Working, Locked!HandleStates
  <2> QED
    BY <1>1, <1>2, <1>4, <1>6, <2>1, <2>2, <2>3 DEF Locked!LockForDelete, Locked!history,
       LockedContract!vars, LockedContract!history, ch, cf
<1>7. ASSUME handle[h].at = "dlock"
      PROVE  /\ owner = h /\ f \in Families /\ cf = family
             /\ LockedContract!FamilyOf(h) = family[f]
             /\ handle[h].id \in Ids
  <2>1. owner = h /\ f \in Families /\ handle[h].id \in Ids
    BY <1>0, <1>7, LockedConditions DEF OwnLock
  <2>2. \A e \in Families : ~Working(e)
    BY <1>7, <2>1 DEF Working
  <2>3. cf = family
    BY <1>0, <1>1, <2>2
  <2> QED
    BY <1>7, <2>1, <2>3, LockedConditions DEF cf
<1>8. ASSUME Locked!PrepareDelete(h) PROVE LockedContract!BeginDelete(h)
  <2> DEFINE t == Locked!DeleteTarget(h)
             x == [handle[h] EXCEPT !.target = t]
  <2>1. /\ handle[h].at = "dlock" /\ handle[h].target = NoId /\ owner' = owner
        /\ handle' = [handle EXCEPT ![h] = x]
        /\ family' = [family EXCEPT ![f].destroy = TRUE]
    BY <1>0, <1>8 DEF Locked!PrepareDelete, Locked!HandleStates
  <2>2. t # NoId
    BY <1>0, <1>7, <2>1 DEF Locked!DeleteTarget
  <2>3. handle'[h].at = "dlock" /\ handle'[h].target # NoId
    BY <1>0, <2>1, <2>2 DEF Locked!HandleStates
  <2> HIDE DEF t
  <2>4. ch' = [ch EXCEPT ![h].at = "dlock"] /\ ch[h].at = "live"
    <3>1. ch[h] = [handle[h] EXCEPT !.at = "live", !.target = NoId]
      BY <1>5, <2>1
    <3>2. ch'[h] = [handle[h] EXCEPT !.at = "dlock", !.target = NoId]
      BY <1>0, <2>1, <2>3 DEF ch, Locked!ContractHandle, Locked!HandleStates
    <3>3. ch'[h] = [ch[h] EXCEPT !.at = "dlock"] /\ ch[h].at = "live"
      BY <1>r, <3>1, <3>2 DEF Locked!HandleStates
    <3>4. \A g \in Handles : g # h => ch'[g] = ch[g]
      BY <1>0, <2>1 DEF ch, Locked!ContractHandle
    <3> QED
      BY <1>4, <3>3, <3>4
  <2>5. \A e \in Families : ~Working(e)'
    BY <1>7, <2>1, <2>3 DEF Working
  <2>6. cf' = [cf EXCEPT ![f].destroy = TRUE] /\ ch[h].family = f
    BY <1>0, <1>2, <1>7, <2>1, <2>5, LockedFields DEF ch
  <2> QED
    BY <1>8, <2>4, <2>6 DEF Locked!PrepareDelete, LockedContract!BeginDelete,
       LockedContract!Move, Locked!history, LockedContract!history, ch, cf
<1>9. ASSUME Locked!SendDelete(h) PROVE LockedContract!EnterDelete(h)
  <2> DEFINE x == [handle[h] EXCEPT !.at = "delete"]
  <2>1. /\ handle[h].at = "dlock" /\ handle[h].target # NoId /\ owner' = owner
        /\ handle' = [handle EXCEPT ![h] = x] /\ x.at = "delete" /\ family' = family
    BY <1>0, <1>9 DEF Locked!SendDelete, Locked!Move, Locked!HandleStates
  <2>2. /\ ch' = [ch EXCEPT ![h] = x]
        /\ ch[h] = [handle[h] EXCEPT !.at = "dlock", !.target = NoId]
    BY <1>3, <1>5, <2>1
  <2>3. LockedContract!DeleteTarget(h) = handle[h].target
    BY <2>1, LockedConditions DEF LockedInv, TargetsAreCurrent
  <2>4. x = [ch[h] EXCEPT !.at = "delete", !.target = handle[h].target] /\ ch[h].at = "dlock"
        /\ ch[h].family = f
    BY <1>r, <2>2 DEF Locked!HandleStates
  <2>5. ch' = [ch EXCEPT ![h].at = "delete", ![h].target = LockedContract!DeleteTarget(h)]
    BY <2>2, <2>3, <2>4
  <2>6. \A e \in Families : Working(e)' <=> e = f
    BY <1>0, <1>7, <2>1 DEF Working, Locked!HandleStates
  <2>7. cf' = [cf EXCEPT ![f].holder = h]
    BY <1>0, <1>2, <1>7, <2>1, <2>6
  <2>8. LockedContract!FamilyOf(h).holder = NoHandle /\ LockedContract!AdmitsDelete(h)
    BY <1>0, <1>7, <2>1 DEF OwnLock, LockedContract!AdmitsDelete
  <2> QED
    BY <1>9, <2>4, <2>5, <2>7, <2>8 DEF Locked!SendDelete, LockedContract!EnterDelete,
       Locked!history, LockedContract!history, ch, cf
<1>10. ASSUME Locked!CompleteDelete(h), Locked!Unlock PROVE LockedContract!CompleteDelete(h)
  <2>1. /\ handle[h].at = "delete" /\ Locked!Discard(h) /\ owner' = NoHandle
        /\ family' = [family EXCEPT ![f].holder = NoHandle]
    BY <1>10 DEF Locked!CompleteDelete, Locked!Unlock
  <2>2. owner = h /\ f \in Families /\ ch[h] = handle[h] /\ family[f].holder = NoHandle
    BY <1>0, <2>1, LockedConditions DEF OwnLock
  <2>3. /\ \A e \in Families : Working(e) <=> e = f
        /\ \A e \in Families : ~Working(e)'
    BY <1>0, <2>1, <2>2 DEF Working
  <2>4. cf' = [cf EXCEPT ![f].holder = NoHandle]
    <3>1. \A e \in Families : cf'[e] = family'[e]
      BY <1>2, <2>3
    <3>2. cf[f] = [family[f] EXCEPT !.holder = h] /\ \A e \in Families : e # f => cf[e] = family[e]
      BY <1>1, <2>2, <2>3
    <3>3. [cf[f] EXCEPT !.holder = NoHandle] = [family[f] EXCEPT !.holder = NoHandle]
      BY <1>0, <2>2, <3>2 DEF Locked!FamilyStates
    <3>4. cf'[f] = [cf[f] EXCEPT !.holder = NoHandle]
      BY <1>0, <2>1, <2>2, <3>1, <3>3
    <3>5. \A e \in Families : e # f => cf'[e] = cf[e]
      BY <1>0, <2>1, <3>1, <3>2
    <3>6. cf = [e \in Families |-> cf[e]] /\ cf' = [e \in Families |-> cf'[e]]
      BY <1>1, <1>2
    <3> QED
      BY <2>2, <3>4, <3>5, <3>6
  <2>5. cf[f].persisted_id = family[f].persisted_id
    BY <2>2, LockedFamilies DEF cf
  <2> QED
    BY <1>10, <1>d, <2>1, <2>2, <2>4, <2>5 DEF Locked!CompleteDelete,
       LockedContract!CompleteDelete, Locked!EndRecords, LockedContract!EndRecords, ch, cf
<1> QED
  BY <1>6, <1>8, <1>9, <1>10

Owning == {"write", "wrote", "dlock", "delete"}

\* What a step does to the one handle it moves.
LockedMove(g, x) ==
    /\ handle' = [handle EXCEPT ![g] = x] /\ x \in Locked!HandleStates
    /\ ~x.uncertain_on_drop
    /\ x.at \notin {"dlock", "delete"} => x.target = NoId
    /\ x.at \in Owning => owner' = g
    /\ owner' = owner \/ owner = NoHandle \/ owner = g
    /\ x.at = "dlock" /\ x.target # NoId => Locked!PrepareDelete(g)

LEMMA LockedMoves ==
  ASSUME LockedInv, Locked!LockedNext
  PROVE  \/ handle' = handle /\ owner' = owner
         \/ \E g \in Handles : \E x : LockedMove(g, x)
<1>0. /\ handle \in [Handles -> Locked!HandleStates] /\ OwnLock
      /\ family \in [Families -> Locked!FamilyStates]
      /\ \A g \in Handles : handle[g] \in Locked!HandleStates
      /\ \A g \in Handles : handle[g].at # "absent" => handle[g].family \in Families
      /\ \A g \in Handles : handle[g].at # "absent" => handle[g].id \in Ids
  BY LockedConditions DEF LockedInv
<1>1. ASSUME NEW h \in Handles, Locked!Discard(h), owner' = owner \/ owner = h
      PROVE  LockedMove(h, Locked!NoSession)
  BY <1>1 DEF Locked!Discard, Locked!NoSession, LockedMove, Owning, Locked!HandleStates,
     Locked!Stages
<1>9. ASSUME NEW h \in Handles, NEW f \in Families, NEW i \in Ids, handle[h].at = "absent",
             handle' = [handle EXCEPT ![h].at = "live", ![h].family = f, ![h].id = i],
             owner' = owner
      PROVE  \E x : LockedMove(h, x)
  <2> DEFINE x == [handle[h] EXCEPT !.at = "live", !.family = f, !.id = i]
  <2>1. handle[h] \in Locked!HandleStates /\ handle[h].target = NoId /\ ~handle[h].uncertain_on_drop
    BY <1>0, <1>9 DEF OwnLock
  <2>2. x \in Locked!HandleStates /\ x.at = "live" /\ x.target = NoId /\ ~x.uncertain_on_drop
    BY <2>1 DEF Locked!HandleStates, Locked!Stages
  <2>3. handle' = [handle EXCEPT ![h] = x]
    BY <1>0, <1>9
  <2> HIDE DEF x
  <2>4. LockedMove(h, x)
    BY <1>9, <2>2, <2>3 DEF LockedMove, Owning
  <2> QED
    BY <2>4
<1>2. ASSUME NEW h \in Handles, Locked!UnlockedStep(h), owner' = owner
      PROVE  handle' = handle \/ \E g \in Handles : \E x : LockedMove(g, x)
  <2>1. ASSUME NEW f \in Families, NEW i \in Ids, Locked!New(h, f, i)
        PROVE  \E x : LockedMove(h, x)
    BY <1>2, <1>9, <2>1 DEF Locked!New
  <2>2. ASSUME NEW g \in Handles, Locked!Clone(h, g) PROVE LockedMove(g, handle[h])
    BY <1>0, <1>2, <2>2 DEF Locked!Clone, LockedMove, Owning, OwnLock
  <2>3. ASSUME NEW i \in Ids, Locked!Regenerate(h, i) PROVE \E x : LockedMove(h, x)
    <3> DEFINE p == Locked!FamilyOf(h).persisted_id
               s == IF p = handle[h].id \/ handle[h].rotation_from = p
                    THEN p ELSE handle[h].rotation_from
               x == [handle[h] EXCEPT !.rotation_from = s, !.id = i]
    <3>1. /\ handle[h].at = "live" /\ handle[h].target = NoId /\ ~handle[h].uncertain_on_drop
          /\ handle' = [handle EXCEPT ![h] = x]
      BY <1>0, <2>3 DEF Locked!Regenerate, OwnLock, Locked!HandleStates
    <3>2. s \in Ids \cup {NoId}
      BY <1>0, <3>1 DEF Locked!FamilyOf, Locked!FamilyStates, Locked!HandleStates
    <3> HIDE DEF s
    <3>3. x \in Locked!HandleStates /\ x.at = "live" /\ x.target = NoId /\ ~x.uncertain_on_drop
      <4>1. handle[h] \in Locked!HandleStates /\ i \in Ids
        BY <1>0, <1>2
      <4> QED
        BY <3>1, <3>2, <4>1 DEF Locked!HandleStates
    <3> HIDE DEF x
    <3> QED
      BY <1>2, <3>1, <3>3 DEF LockedMove, Owning
  <2>4. CASE Locked!BeginSave(h)
    <3> DEFINE p == Locked!FamilyOf(h).persisted_id
               x == [handle[h] EXCEPT !.at = "lock", !.origin = p]
    <3>1. /\ handle[h].at = "live" /\ handle[h].target = NoId /\ ~handle[h].uncertain_on_drop
          /\ handle' = [handle EXCEPT ![h] = x]
      BY <1>0, <2>4 DEF Locked!BeginSave, OwnLock, Locked!HandleStates
    <3>2. p \in Ids \cup {NoId}
      BY <1>0, <3>1 DEF Locked!FamilyOf, Locked!FamilyStates
    <3> HIDE DEF p
    <3>3. x \in Locked!HandleStates /\ x.at = "lock" /\ x.target = NoId /\ ~x.uncertain_on_drop
      BY <1>0, <3>1, <3>2 DEF Locked!HandleStates, Locked!Stages
    <3> HIDE DEF x
    <3> QED
      BY <1>2, <3>1, <3>3 DEF LockedMove, Owning
  <2>5. CASE Locked!RefuseSave(h) \/ Locked!DropHandle(h)
    BY <1>1, <1>2, <2>5 DEF Locked!RefuseSave, Locked!DropHandle
  <2>6. CASE Locked!Destroy(h)
    BY <2>6 DEF Locked!Destroy
  <2> QED
    BY <1>2, <2>1, <2>2, <2>3, <2>4, <2>5, <2>6 DEF Locked!UnlockedStep
<1>3. ASSUME NEW h \in Handles, NEW f \in Families, NEW i \in Ids, Locked!Load(h, f, i),
             owner' = owner
      PROVE  \E x : LockedMove(h, x)
  BY <1>3, <1>9 DEF Locked!Load
<1>4. ASSUME NEW h \in Handles, NEW s \in {"write", "wrote", "dlock", "delete"}, Locked!Move(h, s),
             owner' = h, owner = NoHandle \/ owner = h, ~handle[h].uncertain_on_drop,
             s # "delete" => handle[h].target = NoId
      PROVE  LockedMove(h, [handle[h] EXCEPT !.at = s])
  BY <1>0, <1>4 DEF Locked!Move, LockedMove, Owning, Locked!HandleStates, Locked!Stages
<1>5. ASSUME NEW h \in Handles, Locked!LockForSave(h) \/ Locked!LockForDelete(h) \/ Locked!SendDelete(h)
                                \/ (Locked!Put(h) /\ UNCHANGED owner)
      PROVE  \E x : LockedMove(h, x)
  <2>1. ~handle[h].uncertain_on_drop
    BY <1>0 DEF OwnLock
  <2>2. CASE Locked!LockForSave(h)
    BY <1>0, <1>4, <2>1, <2>2 DEF Locked!LockForSave, Locked!Free, OwnLock
  <2>3. CASE Locked!LockForDelete(h)
    BY <1>0, <1>4, <2>1, <2>3 DEF Locked!LockForDelete, Locked!Free, OwnLock
  <2>4. CASE Locked!SendDelete(h)
    BY <1>0, <1>4, <2>1, <2>4 DEF Locked!SendDelete, OwnLock
  <2>5. CASE Locked!Put(h) /\ UNCHANGED owner
    BY <1>0, <1>4, <2>1, <2>5 DEF Locked!Put, OwnLock
  <2> QED
    BY <1>5, <2>2, <2>3, <2>4, <2>5
<1>6. ASSUME NEW h \in Handles, Locked!PrepareDelete(h) PROVE \E x : LockedMove(h, x)
  <2> DEFINE t == Locked!DeleteTarget(h)
             x == [handle[h] EXCEPT !.target = t]
  <2>1. /\ handle[h].at = "dlock" /\ owner = h /\ owner' = owner /\ ~handle[h].uncertain_on_drop
        /\ handle' = [handle EXCEPT ![h] = x]
    BY <1>0, <1>6 DEF Locked!PrepareDelete, OwnLock, Locked!HandleStates
  <2>2. t \in Ids \cup {NoId}
    BY <1>0, <2>1 DEF Locked!DeleteTarget, Locked!FamilyOf, Locked!FamilyStates
  <2> HIDE DEF t
  <2>3. LockedMove(h, x)
    BY <1>0, <1>6, <2>1, <2>2 DEF LockedMove, Owning, Locked!HandleStates
  <2> QED
    BY <2>3
<1>7. ASSUME NEW h \in Handles,
             \/ Locked!RefuseCurrent(h) \/ (Locked!RejectPut(h) /\ Locked!Unlock)
             \/ Locked!Complete(h) \/ Locked!Undo(h)
             \/ (Locked!CompleteDelete(h) /\ Locked!Unlock)
      PROVE  \E x : LockedMove(h, x)
  <2>1. Locked!Discard(h) /\ (owner' = owner \/ owner = h)
    BY <1>0, <1>7 DEF Locked!RefuseCurrent, Locked!RejectPut, Locked!Complete, Locked!Undo,
       Locked!CompleteDelete, OwnLock
  <2> QED
    BY <1>1, <2>1
<1>8. ASSUME Locked!ClearStore(Ids) \/ \E i \in Ids : Locked!Expire(i)
      PROVE  handle' = handle
  BY <1>8 DEF Locked!ClearStore, Locked!Expire
<1> QED
  BY <1>2, <1>3, <1>5, <1>6, <1>7, <1>8 DEF Locked!LockedNext

\* The lifecycle lock stays out of use, and a persisted identity changes only
\* under the store's lock.
LEMMA LockedFamilySteps ==
  ASSUME LockedInv, Locked!LockedNext
  PROVE  /\ family' \in [Families -> Locked!FamilyStates]
         /\ \A e \in Families :
              /\ family'[e].holder = NoHandle /\ ~family'[e].uncertain
              /\ \/ family'[e].persisted_id = family[e].persisted_id
                 \/ ~family[e].used
                 \/ \E g \in Handles : handle[g].at = "wrote" /\ owner = g
<1> DEFINE Goal ==
         /\ family' \in [Families -> Locked!FamilyStates]
         /\ \A e \in Families :
              /\ family'[e].holder = NoHandle /\ ~family'[e].uncertain
              /\ \/ family'[e].persisted_id = family[e].persisted_id
                 \/ ~family[e].used
                 \/ \E g \in Handles : handle[g].at = "wrote" /\ owner = g
<1>0. /\ handle \in [Handles -> Locked!HandleStates] /\ OwnLock
      /\ family \in [Families -> Locked!FamilyStates]
      /\ \A g \in Handles : handle[g].at # "absent" => handle[g].family \in Families
  BY LockedConditions DEF LockedInv
<1>1. CASE family' = family
  BY <1>0, <1>1 DEF OwnLock
<1>2. ASSUME NEW f \in Families, NEW y \in Locked!FamilyStates, family' = [family EXCEPT ![f] = y],
             y.holder = NoHandle, ~y.uncertain,
             \/ y.persisted_id = family[f].persisted_id \/ ~family[f].used
             \/ \E g \in Handles : handle[g].at = "wrote" /\ owner = g
      PROVE  Goal
  BY <1>0, <1>2 DEF OwnLock
<1>3. ASSUME NEW h \in Handles, NEW f \in Families, NEW i \in Ids,
             Locked!New(h, f, i) \/ Locked!Load(h, f, i)
      PROVE  Goal
  <2>1. /\ family[f] \in Locked!FamilyStates /\ ~family[f].used
        /\ family[f].holder = NoHandle /\ ~family[f].uncertain
    BY <1>0, <1>3 DEF Locked!New, Locked!Load, OwnLock
  <2>2. CASE Locked!New(h, f, i)
    <3> DEFINE y == [family[f] EXCEPT !.used = TRUE, !.fresh = TRUE]
    <3>1. y \in Locked!FamilyStates /\ y.holder = NoHandle /\ ~y.uncertain
      BY <2>1 DEF Locked!FamilyStates
    <3>2. family' = [family EXCEPT ![f] = y]
      BY <1>0, <2>2 DEF Locked!New
    <3> HIDE DEF y, Goal
    <3> QED
      BY <1>2, <2>1, <3>1, <3>2
  <2>3. CASE Locked!Load(h, f, i)
    <3> DEFINE y == [family[f] EXCEPT !.used = TRUE, !.persisted_id = i]
    <3>1. y \in Locked!FamilyStates /\ y.holder = NoHandle /\ ~y.uncertain
      BY <2>1 DEF Locked!FamilyStates
    <3>2. family' = [family EXCEPT ![f] = y]
      BY <1>0, <2>3 DEF Locked!Load
    <3> HIDE DEF y, Goal
    <3> QED
      BY <1>2, <2>1, <3>1, <3>2
  <2> QED
    BY <1>3, <2>2, <2>3
<1>4. ASSUME NEW h \in Handles, Locked!Destroy(h) \/ Locked!PrepareDelete(h) PROVE Goal
  <2> DEFINE f == handle[h].family
             y == [family[f] EXCEPT !.destroy = TRUE]
  <2>1. f \in Families /\ family' = [family EXCEPT ![f] = y]
    BY <1>0, <1>4 DEF Locked!Destroy, Locked!PrepareDelete
  <2>2. /\ y \in Locked!FamilyStates /\ y.holder = NoHandle /\ ~y.uncertain
        /\ y.persisted_id = family[f].persisted_id
    BY <1>0, <2>1 DEF OwnLock, Locked!FamilyStates
  <2> HIDE DEF f, y, Goal
  <2> QED
    BY <1>2, <2>1, <2>2
<1>5. ASSUME NEW h \in Handles, Locked!BeginSave(h) PROVE Goal
  <2> DEFINE b == family[handle[h].family].creation_claimed
                     \/ Locked!ClaimsCreation(Locked!FamilyOf(h).persisted_id)
  <2>1. /\ handle[h].family \in Families /\ b \in BOOLEAN
        /\ family' = [family EXCEPT ![handle[h].family].creation_claimed = b]
    BY <1>0, <1>5 DEF Locked!BeginSave
  <2> HIDE DEF b
  <2> QED
    BY <1>0, <2>1 DEF OwnLock, Locked!FamilyStates
<1>6. ASSUME NEW h \in Handles, Locked!Complete(h) PROVE Goal
  <2> DEFINE p == Locked!MarkPersisted(h)
  <2>1. /\ handle[h].at = "wrote" /\ owner = h /\ handle[h].family \in Families
        /\ family' = [family EXCEPT ![handle[h].family].persisted_id = p]
        /\ p \in Ids \cup {NoId}
    BY <1>0, <1>6 DEF Locked!Complete, Locked!MarkPersisted, OwnLock, Locked!FamilyOf,
       Locked!FamilyStates, Locked!HandleStates
  <2> HIDE DEF p
  <2> QED
    BY <1>0, <2>1 DEF OwnLock, Locked!FamilyStates
<1>7. ASSUME NEW h \in Handles, Locked!RejectPut(h) \/ Locked!CompleteDelete(h) PROVE Goal
  <2>1. handle[h].family \in Families /\ ~handle[h].uncertain_on_drop
        /\ (Locked!ReleaseWrite(h, FALSE)
            \/ family' = [family EXCEPT ![handle[h].family].holder = NoHandle])
    BY <1>0, <1>7 DEF Locked!RejectPut, Locked!CompleteDelete, OwnLock
  <2>2. family' = family
    <3>1. family[handle[h].family].uncertain =
            (family[handle[h].family].uncertain \/ (~FALSE /\ handle[h].uncertain_on_drop))
      BY <1>0, <2>1 DEF OwnLock, Locked!FamilyStates
    <3> QED
      BY <1>0, <2>1, <3>1 DEF Locked!ReleaseWrite, OwnLock, Locked!FamilyStates
  <2> QED
    BY <1>1, <2>2
<1>8. ASSUME NEW h \in Handles,
             \/ Locked!LockForSave(h) \/ Locked!RefuseCurrent(h) \/ Locked!Put(h) \/ Locked!Undo(h)
             \/ Locked!LockForDelete(h) \/ Locked!SendDelete(h)
             \/ Locked!RefuseSave(h) \/ Locked!DropHandle(h)
             \/ (\E g \in Handles : Locked!Clone(h, g)) \/ (\E i \in Ids : Locked!Regenerate(h, i))
      PROVE  Goal
  <2>1. family' = family
    BY <1>8 DEF Locked!LockForSave, Locked!RefuseCurrent, Locked!Put, Locked!Undo,
       Locked!LockForDelete, Locked!SendDelete, Locked!RefuseSave, Locked!DropHandle,
       Locked!Clone, Locked!Regenerate
  <2> QED
    BY <1>1, <2>1
<1>9. ASSUME Locked!ClearStore(Ids) \/ \E i \in Ids : Locked!Expire(i)
      PROVE  Goal
  BY <1>1, <1>9 DEF Locked!ClearStore, Locked!Expire
<1> HIDE DEF Goal
<1>10. Goal
  BY <1>3, <1>4, <1>5, <1>6, <1>7, <1>8, <1>9 DEF Locked!LockedNext, Locked!UnlockedStep
<1> QED
  BY <1>10 DEF Goal

LEMMA LockedStep ==
  ASSUME LockedInv, Locked!LockedNext
  PROVE  [LockedContract!Next]_(LockedContract!vars)
<1> DEFINE ch == Locked!ContractHandle
           cf == Locked!ContractFamily
<1>0. /\ handle \in [Handles -> Locked!HandleStates]
      /\ family \in [Families -> Locked!FamilyStates]
      /\ \A g \in Handles : handle[g].at # "dlock" => ch[g] = handle[g]
  BY LockedFields DEF LockedInv
<1>s. handle' = handle /\ family' = family /\ owner' = owner => ch' = ch /\ cf' = cf
  BY DEF Locked!ContractHandle, Locked!ContractFamily
<1>f. ASSUME owner = NoHandle, owner' = NoHandle
      PROVE  cf = [e \in Families |-> family[e]] /\ cf' = [e \in Families |-> family'[e]]
  BY <1>f, NoneAssumption DEF Locked!ContractFamily
<1>1. ASSUME NEW h \in Handles, NEW f \in Families, NEW i \in Ids, Locked!Free, UNCHANGED owner,
             Locked!Load(h, f, i)
      PROVE  LockedContract!Load(h, f, i)
  <2> DEFINE x == [handle[h] EXCEPT !.at = "live", !.family = f, !.id = i]
  <2>1. handle' = [handle EXCEPT ![h] = x] /\ x.at = "live" /\ handle[h].at = "absent"
    BY <1>0, <1>1 DEF Locked!Load, Locked!HandleStates
  <2>2. ch' = [ch EXCEPT ![h] = x] /\ ch[h] = handle[h]
    BY <1>0, <2>1, LockedUpdate
  <2>3. cf = family /\ cf' = family'
    BY <1>0, <1>1, <1>f DEF Locked!Free, Locked!Load
  <2> HIDE DEF ch, cf
  <2>4. ch' = [ch EXCEPT ![h].at = "live", ![h].family = f, ![h].id = i]
    BY <2>2
  <2> QED
    BY <1>1, <2>1, <2>2, <2>3, <2>4 DEF Locked!Load, LockedContract!Load, Locked!history,
       LockedContract!history, ch, cf
<1> HIDE DEF ch, cf
<1>2. ASSUME Locked!ClearStore(Ids), UNCHANGED owner
      PROVE  \E known \in SUBSET records : LockedContract!ClearStore(known)
  <2>1. LockedContract!ClearStore(Ids \cap records)
    BY <1>2, <1>s DEF Locked!ClearStore, LockedContract!ClearStore, Locked!EndRecords,
       LockedContract!EndRecords, ch, cf
  <2> QED
    BY <2>1
<1>3. ASSUME NEW i \in Ids, Locked!Expire(i), UNCHANGED owner PROVE LockedContract!Expire(i)
  BY <1>3, <1>s DEF Locked!Expire, LockedContract!Expire, Locked!EndRecords,
     LockedContract!EndRecords, ch, cf
<1>4. ASSUME NEW h \in Handles,
             \/ LockedContract!ApplicationStep(h)
             \/ \E f \in Families, i \in Ids : LockedContract!Load(h, f, i)
             \/ LockedContract!BeginBackendWrite(h) \/ LockedContract!RefuseBackendWrite(h)
             \/ LockedContract!BeginDelete(h) \/ LockedContract!EnterDelete(h)
             \/ LockedContract!Put(h) \/ LockedContract!RejectPut(h)
             \/ LockedContract!CompleteSave(h) \/ LockedContract!Compensate(h)
             \/ LockedContract!CompleteDelete(h)
      PROVE  LockedContract!Next
  BY <1>4 DEF LockedContract!Next, LockedContract!ApplicationStep
<1>5. ASSUME NEW h \in Handles,
             \/ Locked!UnlockedStep(h) /\ UNCHANGED owner
             \/ Locked!Free /\ UNCHANGED owner /\ \E f \in Families, i \in Ids : Locked!Load(h, f, i)
             \/ Locked!LockForSave(h) \/ Locked!RefuseCurrent(h)
             \/ Locked!Put(h) /\ UNCHANGED owner
             \/ Locked!RejectPut(h) /\ Locked!Unlock
             \/ Locked!Complete(h) \/ Locked!Undo(h)
             \/ Locked!LockForDelete(h) \/ Locked!PrepareDelete(h) \/ Locked!SendDelete(h)
             \/ Locked!CompleteDelete(h) /\ Locked!Unlock
      PROVE  LockedContract!Next \/ UNCHANGED LockedContract!vars
  <2>1. CASE Locked!UnlockedStep(h) /\ UNCHANGED owner
    BY <1>4, <2>1, LockedApplication
  <2>2. CASE Locked!Free /\ UNCHANGED owner /\ \E f \in Families, i \in Ids : Locked!Load(h, f, i)
    BY <1>1, <1>4, <2>2
  <2>3. CASE \/ Locked!LockForSave(h) \/ Locked!RefuseCurrent(h)
             \/ Locked!Put(h) /\ UNCHANGED owner
             \/ Locked!RejectPut(h) /\ Locked!Unlock
             \/ Locked!Complete(h) \/ Locked!Undo(h)
    BY <1>4, <2>3, LockedSaves
  <2>4. CASE \/ Locked!LockForDelete(h) \/ Locked!PrepareDelete(h) \/ Locked!SendDelete(h)
             \/ Locked!CompleteDelete(h) /\ Locked!Unlock
    BY <1>4, <2>4, LockedDeletes
  <2> QED
    BY <1>5, <2>1, <2>2, <2>3, <2>4
<1>6. CASE /\ Locked!Free /\ UNCHANGED owner
           /\ Locked!ClearStore(Ids) \/ \E i \in Ids : Locked!Expire(i)
  BY <1>2, <1>3, <1>6 DEF LockedContract!Next
<1> QED
  BY <1>5, <1>6 DEF Locked!LockedNext

LEMMA LockedInvStep ==
  ASSUME LockedInv, Locked!LockedNext
  PROVE  LockedInv'
<1>0. /\ handle \in [Handles -> Locked!HandleStates] /\ OwnLock /\ TargetsAreCurrent
      /\ LockedContract!FullInv
  BY DEF LockedInv
<1>1. LockedContract!FullInv'
  BY <1>0, LockedStep, LockedContract!NextFull, NoneAssumption
<1>2. /\ family' \in [Families -> Locked!FamilyStates]
      /\ \A f \in Families : family'[f].holder = NoHandle /\ ~family'[f].uncertain
  BY LockedFamilySteps
<1>3. ASSUME NEW h \in Handles, handle[h].at = "dlock", handle[h].target # NoId
      PROVE  family'[handle[h].family].persisted_id = family[handle[h].family].persisted_id
  <2>1. owner = h /\ handle[h].family \in Families
    BY <1>0, <1>3, LockedConditions DEF OwnLock
  <2>2. family[handle[h].family].used
    <3>1. Locked!ContractHandle[h].family = handle[h].family /\ Locked!ContractHandle[h].at = "dlock"
      BY <1>0, <1>3, LockedFields DEF Locked!HandleStates
    <3>2. Locked!ContractFamily[handle[h].family].used
      BY <1>0, <3>1 DEF LockedContract!FullInv, LockedContract!IInv,
         LockedContract!HandlesAreSessions, LockedContract!Present
    <3> QED
      BY <2>1, <3>2, LockedFamilies
  <2>3. ~\E g \in Handles : handle[g].at = "wrote" /\ owner = g
    BY <1>3, <2>1
  <2> QED
    BY <2>1, <2>2, <2>3, LockedFamilySteps
<1>4. ASSUME NEW h \in Handles, handle'[h] = handle[h], handle[h].at = "dlock",
             handle[h].target # NoId
      PROVE  handle'[h].target = Locked!DeleteTarget(h)'
  BY <1>0, <1>3, <1>4 DEF TargetsAreCurrent, Locked!DeleteTarget, Locked!OriginConflict,
     Locked!FamilyOf
<1>5. CASE handle' = handle /\ owner' = owner
  BY <1>0, <1>1, <1>2, <1>4, <1>5 DEF LockedInv, OwnLock, TargetsAreCurrent
<1>6. ASSUME NEW g \in Handles, NEW x, LockedMove(g, x) PROVE LockedInv'
  <2>1. /\ handle' = [handle EXCEPT ![g] = x] /\ x \in Locked!HandleStates
        /\ ~x.uncertain_on_drop /\ (x.at \notin {"dlock", "delete"} => x.target = NoId)
        /\ x.at \in Owning => owner' = g
        /\ owner' = owner \/ owner = NoHandle \/ owner = g
        /\ x.at = "dlock" /\ x.target # NoId => Locked!PrepareDelete(g)
    BY <1>6 DEF LockedMove
  <2>2. OwnLock'
    BY <1>0, <1>2, <2>1, NoneAssumption DEF OwnLock, Owning
  <2>3. ASSUME x.at = "dlock", x.target # NoId
        PROVE  handle'[g].target = Locked!DeleteTarget(g)'
    <3>1. /\ handle[g].at = "dlock" /\ handle[g].family \in Families
          /\ handle' = [handle EXCEPT ![g].target = Locked!DeleteTarget(g)]
          /\ family' = [family EXCEPT ![handle[g].family].destroy = TRUE]
      BY <2>1, <2>3, LockedConditions DEF Locked!PrepareDelete
    <3>2. /\ family'[handle[g].family].persisted_id = family[handle[g].family].persisted_id
          /\ family'[handle[g].family].fresh = family[handle[g].family].fresh
          /\ family'[handle[g].family].creation_claimed = family[handle[g].family].creation_claimed
      BY <3>1 DEF LockedInv, Locked!FamilyStates
    <3>3. /\ handle'[g].family = handle[g].family /\ handle'[g].id = handle[g].id
          /\ handle'[g].rotation_from = handle[g].rotation_from
          /\ handle'[g].target = Locked!DeleteTarget(g)
      BY <1>0, <3>1 DEF Locked!HandleStates
    <3>4. Locked!OriginConflict(g)' <=> Locked!OriginConflict(g)
      BY <3>2, <3>3 DEF Locked!OriginConflict, Locked!FamilyOf
    <3> QED
      BY <3>2, <3>3, <3>4 DEF Locked!DeleteTarget, Locked!FamilyOf
  <2>4. TargetsAreCurrent'
    BY <1>0, <1>4, <2>1, <2>3 DEF TargetsAreCurrent
  <2>5. handle' \in [Handles -> Locked!HandleStates]
    BY <1>0, <2>1
  <2> QED
    BY <1>1, <1>2, <2>2, <2>4, <2>5 DEF LockedInv
<1> QED
  BY <1>5, <1>6, LockedMoves

\* The contract in LockedStore is the one that was proved.
LEMMA LockedContractSteps == LockedContract!Next <=> Locked!Contract!Next
  BY DEF LockedContract!Next, LockedContract!ApplicationStep, LockedContract!New,
      LockedContract!Clone, LockedContract!Regenerate, LockedContract!Destroy,
      LockedContract!DropHandle, LockedContract!BeginSave,
      LockedContract!RefuseSave, LockedContract!BeginBackendWrite,
      LockedContract!RefuseBackendWrite, LockedContract!BeginDelete,
      LockedContract!EnterDelete, LockedContract!RefuseDelete,
      LockedContract!history, LockedContract!FamilyOf,
      LockedContract!OriginConflict, LockedContract!DeleteTarget,
      LockedContract!CanCreate, LockedContract!Move, LockedContract!Discard,
      LockedContract!NoSession, LockedContract!ClaimsCreation,
      LockedContract!Superseded, LockedContract!AdmitsWrite,
      LockedContract!AdmitsDelete, LockedContract!Load, LockedContract!Put,
      LockedContract!RejectPut, LockedContract!AbandonSave,
      LockedContract!DiscardExpired, LockedContract!AbandonDiscard,
      LockedContract!CompleteSave, LockedContract!Compensate,
      LockedContract!CompleteDelete, LockedContract!AbandonDelete,
      LockedContract!ClearStore, LockedContract!Expire, LockedContract!LandLate,
      LockedContract!SaveRequest, LockedContract!Accepts, LockedContract!Replace,
      LockedContract!Replaced, LockedContract!EndRecords,
      LockedContract!ReleaseWrite, LockedContract!MarkPersisted,
      LockedContract!MayFly, LockedContract!AbandonWrite,
      LockedContract!DeleteRequest, LockedContract!CleansUp, LockedContract!vars,
      Locked!Contract!Next, Locked!Contract!ApplicationStep, Locked!Contract!New,
      Locked!Contract!Clone, Locked!Contract!Regenerate, Locked!Contract!Destroy,
      Locked!Contract!DropHandle, Locked!Contract!BeginSave,
      Locked!Contract!RefuseSave, Locked!Contract!BeginBackendWrite,
      Locked!Contract!RefuseBackendWrite, Locked!Contract!BeginDelete,
      Locked!Contract!EnterDelete, Locked!Contract!RefuseDelete,
      Locked!Contract!history, Locked!Contract!FamilyOf,
      Locked!Contract!OriginConflict, Locked!Contract!DeleteTarget,
      Locked!Contract!CanCreate, Locked!Contract!Move, Locked!Contract!Discard,
      Locked!Contract!NoSession, Locked!Contract!ClaimsCreation,
      Locked!Contract!Superseded, Locked!Contract!AdmitsWrite,
      Locked!Contract!AdmitsDelete, Locked!Contract!Load, Locked!Contract!Put,
      Locked!Contract!RejectPut, Locked!Contract!AbandonSave,
      Locked!Contract!DiscardExpired, Locked!Contract!AbandonDiscard,
      Locked!Contract!CompleteSave, Locked!Contract!Compensate,
      Locked!Contract!CompleteDelete, Locked!Contract!AbandonDelete,
      Locked!Contract!ClearStore, Locked!Contract!Expire, Locked!Contract!LandLate,
      Locked!Contract!SaveRequest, Locked!Contract!Accepts, Locked!Contract!Replace,
      Locked!Contract!Replaced, Locked!Contract!EndRecords,
      Locked!Contract!ReleaseWrite, Locked!Contract!MarkPersisted,
      Locked!Contract!MayFly, Locked!Contract!AbandonWrite,
      Locked!Contract!DeleteRequest, Locked!Contract!CleansUp, Locked!Contract!vars

-----------------------------------------------------------------------------
(* RedisStore: the commands implement the contract, so its invariant holds; *)
(* and as no removed ID comes back, what a scanning clear_store still owes  *)
(* can only shrink.                                                         *)

\* What was proved of the contract.
Server == INSTANCE ServerStoreProofs

\* The contract of RedisStore is the one that was proved.
LEMMA RedisSteps ==
  /\ Init => Server!Init
  /\ [Next]_vars => [Server!Next]_(Server!vars)
<1>1. Init => Server!Init
  BY DEF Init, NoSession, NewFamily, Server!Init, Server!NoSession,
     Server!NewFamily
<1>2. Next <=> Server!Next
  BY DEF Next, vars, ApplicationStep, New, Clone, Regenerate, Destroy, DropHandle,
     BeginSave, RefuseSave, BeginBackendWrite, RefuseBackendWrite, BeginDelete,
     EnterDelete, RefuseDelete, history, FamilyOf, OriginConflict, DeleteTarget,
     CanCreate, Move, Discard, NoSession, ClaimsCreation, Superseded, AdmitsWrite,
     AdmitsDelete, Load, Put, RejectPut, AbandonSave, DiscardExpired,
     AbandonDiscard, CompleteSave, Compensate, CompleteDelete, AbandonDelete,
     ClearStore, Expire, LandLate, SaveRequest, Accepts, Replace, Replaced,
     EndRecords, ReleaseWrite, MarkPersisted, MayFly, AbandonWrite, DeleteRequest,
     CleansUp, Server!Next, Server!vars, Server!ApplicationStep, Server!New,
     Server!Clone, Server!Regenerate, Server!Destroy, Server!DropHandle,
     Server!BeginSave, Server!RefuseSave, Server!BeginBackendWrite,
     Server!RefuseBackendWrite, Server!BeginDelete, Server!EnterDelete,
     Server!RefuseDelete, Server!history, Server!FamilyOf, Server!OriginConflict,
     Server!DeleteTarget, Server!CanCreate, Server!Move, Server!Discard,
     Server!NoSession, Server!ClaimsCreation, Server!Superseded,
     Server!AdmitsWrite, Server!AdmitsDelete, Server!Load, Server!Put,
     Server!RejectPut, Server!AbandonSave, Server!DiscardExpired,
     Server!AbandonDiscard, Server!CompleteSave, Server!Compensate,
     Server!CompleteDelete, Server!AbandonDelete, Server!ClearStore,
     Server!Expire, Server!LandLate, Server!SaveRequest, Server!Accepts,
     Server!Replace, Server!Replaced, Server!EndRecords, Server!ReleaseWrite,
     Server!MarkPersisted, Server!MayFly, Server!AbandonWrite,
     Server!DeleteRequest, Server!CleansUp
<1>3. UNCHANGED vars => UNCHANGED Server!vars
  BY DEF vars, history, Server!vars, Server!history
<1> QED
  BY <1>1, <1>2, <1>3

\* What an unfinished clear_store still has to remove.
ClearIsOwed ==
    /\ clear.at \in {"scan", "unlink", "done"} => clear.start \subseteq Server!Stored
    /\ clear.at \in {"scan", "unlink"} =>
         clear.start \cap records \subseteq clear.unseen \cup clear.keys
    /\ clear.at = "scan" => clear.keys = {} /\ ~clear.last
    /\ clear.at = "unlink" /\ clear.last => clear.unseen = {}

RedisInv == Server!IInv /\ clear \in ClearStates /\ ClearIsOwed /\ ClearIsThorough

\* Removing keys that are not there removes nothing.
LEMMA RedisClearKnown ==
  ASSUME NEW ids, ClearStore(ids)
  PROVE  \E known \in SUBSET records : ClearStore(known)
<1> WITNESS ids \cap records \in SUBSET records
<1>1. /\ records \ (ids \cap records) = records \ ids
      /\ (ids \cap records) \cap records = ids \cap records
  OBVIOUS
<1> QED
  BY <1>1 DEF ClearStore, EndRecords

\* NX, XX and the script check what the contract demands.
LEMMA RedisAdmits ==
  ASSUME Server!IInv, NEW h \in Handles, handle[h].at = "write"
  PROVE  Admits(h) <=> Accepts(handle[h].origin, handle[h].id)
<1>1. handle[h].id \in Ids /\ handle[h].id # NoId
  BY NoneAssumption DEF Server!IInv, Server!HandlesAreSessions, Server!Present
<1>2. CASE Rotates(h)
  BY <1>1, <1>2 DEF Rotates, Admits, ScriptAdmits, Accepts
<1>3. CASE ~Rotates(h)
  BY <1>1, <1>3 DEF Rotates, Admits, SetAdmits, Accepts
<1> QED
  BY <1>2, <1>3

LEMMA RedisSessionStep ==
  ASSUME Server!IInv, NEW h \in Handles, SessionStep(h)
  PROVE  Next
<1>1. CASE Store(h)
  <2>1. Put(h)
    BY <1>1, RedisAdmits DEF Store, Put
  <2> QED
    BY <2>1 DEF Next
<1>2. CASE Refuse(h)
  <2>1. RejectPut(h)
    BY <1>2, RedisAdmits DEF Refuse, RejectPut
  <2> QED
    BY <2>1 DEF Next
<1> QED
  BY <1>1, <1>2 DEF SessionStep, Next

LEMMA RedisStep == Server!IInv /\ [RedisNext]_redisVars => [Next]_vars
<1> SUFFICES ASSUME Server!IInv, [RedisNext]_redisVars PROVE [Next]_vars
  OBVIOUS
<1>1. ASSUME NEW ids, ClearStore(ids) PROVE Next
  BY <1>1, RedisClearKnown DEF Next
<1>2. ASSUME NEW i \in Ids, Expire(i) PROVE Next
  BY <1>2 DEF Next
<1>3. ASSUME NEW r \in flying, LandLate(r) PROVE Next
  BY <1>3 DEF Next
<1>4. CASE RedisNext
  BY <1>1, <1>2, <1>3, <1>4, RedisSessionStep
  DEF RedisNext, StartClear, Scan, Unlink, NextScan,
      EndClear, AbandonClear, LandUnlink
<1>5. CASE UNCHANGED redisVars
  BY <1>5 DEF redisVars
<1> QED
  BY <1>4, <1>5

LEMMA RedisInvStep ==
  ASSUME RedisInv, [RedisNext]_redisVars
  PROVE  RedisInv'
<1> USE DEF RedisInv
<1>1. [Next]_vars
  BY RedisStep
<1>2. Server!IInv'
  BY <1>1, RedisSteps, NoneAssumption, CanOutliveAssumption, Server!NextInv
<1>3. ASSUME NEW start, start \subseteq Server!Stored
      PROVE  start \subseteq Server!Stored' /\ start \cap records' \subseteq start \cap records
  BY <1>1, <1>2, <1>3, RedisSteps, NoneAssumption, CanOutliveAssumption, Server!NothingReturns
<1>4. records \in SUBSET Ids
  BY DEF Server!IInv, Server!TypeOK
<1>5. ASSUME clear' = [clear EXCEPT !.unseen = @ \cap records'] PROVE RedisInv'
  <2>1. clear' \in ClearStates
    BY <1>5 DEF ClearStates
  <2>2. ClearIsOwed'
    BY <1>3, <1>5 DEF ClearIsOwed, ClearStates
  <2>3. ClearIsThorough'
    BY <1>3, <1>5 DEF ClearIsThorough, ClearIsOwed, ClearStates
  <2> QED
    BY <1>2, <2>1, <2>2, <2>3
<1>6. CASE StartClear
  BY <1>2, <1>4, <1>6
  DEF StartClear, vars, ClearIsOwed, ClearIsThorough,
      ClearStates, Server!Stored, history
<1>7. ASSUME NEW keys \in SUBSET records, NEW last \in BOOLEAN, Scan(keys, last)
      PROVE  RedisInv'
  <2>1. clear' = [clear EXCEPT !.at = "unlink", !.keys = keys, !.last = last,
                               !.unseen = @ \ keys]
    BY <1>7 DEF Scan
  <2>2. clear' \in ClearStates
    BY <1>4, <2>1 DEF ClearStates
  <2>3. records' = records /\ gone' = gone
    BY <1>7 DEF Scan, vars, history
  <2> QED
    BY <1>2, <1>7, <2>1, <2>2, <2>3
    DEF Scan, ClearIsOwed, ClearIsThorough, ClearStates, Server!Stored
<1>8. ASSUME NEW batch \in Batches(clear.keys), Unlink(batch) PROVE RedisInv'
  <2>1. clear' = [clear EXCEPT !.keys = @ \ batch] /\ records' = records \ batch
    BY <1>8 DEF Unlink, ClearStore, EndRecords
  <2>2. clear' \in ClearStates
    BY <2>1 DEF ClearStates
  <2> QED
    BY <1>2, <1>3, <1>8, <2>1, <2>2
    DEF Unlink, ClearIsOwed, ClearIsThorough, ClearStates
<1>9. CASE NextScan \/ EndClear
  <2>1. records' = records /\ gone' = gone
    BY <1>9 DEF NextScan, EndClear, vars, history
  <2>2. CASE NextScan
    BY <1>2, <2>1, <2>2
    DEF NextScan, ClearIsOwed, ClearIsThorough, ClearStates,
        Server!Stored
  <2>3. CASE EndClear
    BY <1>2, <2>1, <2>3
    DEF EndClear, Finished, NoClear, ClearIsOwed,
        ClearIsThorough, ClearStates, Server!Stored
  <2> QED
    BY <1>9, <2>2, <2>3
<1>10. CASE AbandonClear \/ LandUnlink
  <2>1. clear' \in ClearStates /\ clear'.at \in {"idle", "lost"}
    <3>1. NoClear \in ClearStates /\ NoClear.at = "idle"
      BY DEF NoClear, ClearStates
    <3>2. CASE LandUnlink
      BY <3>1, <3>2 DEF LandUnlink
    <3>3. CASE AbandonClear
      <4>1. PICK batch \in {{}} \cup Batches(clear.keys) :
              clear' = IF batch = {} THEN NoClear
                       ELSE [NoClear EXCEPT !.at = "lost", !.keys = batch]
        BY <3>3 DEF AbandonClear
      <4>2. batch \in SUBSET Ids
        BY <4>1 DEF Batches, ClearStates
      <4>3. [NoClear EXCEPT !.at = "lost", !.keys = batch] \in ClearStates
        BY <4>2 DEF NoClear, ClearStates
      <4>4. [NoClear EXCEPT !.at = "lost", !.keys = batch].at = "lost"
        BY DEF NoClear
      <4> QED
        BY <3>1, <4>1, <4>3, <4>4
    <3> QED
      BY <1>10, <3>2, <3>3
  <2> QED
    BY <1>2, <2>1 DEF ClearIsOwed, ClearIsThorough
<1>11. CASE UNCHANGED redisVars
  BY <1>2, <1>11
  DEF redisVars, vars, history, ClearIsOwed, ClearIsThorough,
      Server!Stored
<1> QED
  BY <1>5, <1>6, <1>7, <1>8, <1>9, <1>10, <1>11 DEF RedisNext, Forget

LEMMA RedisInitInv == RedisInit => RedisInv
<1> SUFFICES ASSUME RedisInit PROVE RedisInv
  OBVIOUS
<1>1. Server!IInv
  BY RedisSteps, NoneAssumption, CanOutliveAssumption, Server!InitInv DEF RedisInit
<1> QED
  BY <1>1
  DEF RedisInit, RedisInv, NoClear, ClearStates, ClearIsOwed,
      ClearIsThorough

LEMMA RedisInvariant == RedisSpec => []RedisInv
<1>1. RedisInv /\ [RedisNext]_redisVars => RedisInv'
  BY RedisInvStep
<1> QED
  BY <1>1, RedisInitInv, PTL DEF RedisSpec

\* RedisStore's commands and its scanning clear_store implement the contract
\* of a server-side store, with everything that is proved of it.
THEOREM RedisImplementsContract == RedisSpec => CommandsImplementContract
<1>1. RedisInit => Init
  BY DEF RedisInit
<1>2. RedisInv /\ [RedisNext]_redisVars => [Next]_vars
  BY RedisStep DEF RedisInv
<1> QED
  BY <1>1, <1>2, RedisInvariant, PTL
  DEF RedisSpec, CommandsImplementContract, Spec

\* RedisStore's sessions survive their rotations, its families know their
\* records or are marked uncertain, and a successful destroy_session leaves
\* none, while keys are scanned and unlinked.
THEOREM RedisKeepsFamilies ==
  RedisSpec => [](RotationKeepsSession /\ KnownUnlessUncertain /\ RevokedFamilyHasNoRecord)
<1>1. RedisInit => Server!FullInv
  BY RedisSteps, NoneAssumption, CanOutliveAssumption, Server!InitFull DEF RedisInit
<1>2. RedisInv /\ Server!FullInv /\ [RedisNext]_redisVars => Server!FullInv'
  <2>1. RedisInv /\ [RedisNext]_redisVars => [Next]_vars
    BY RedisStep DEF RedisInv
  <2> QED
    BY <2>1, RedisSteps, NoneAssumption, CanOutliveAssumption, Server!NextFull
<1>3. Server!FullInv => RotationKeepsSession /\ KnownUnlessUncertain /\ RevokedFamilyHasNoRecord
  BY NoneAssumption, CanOutliveAssumption, Server!FullKnown
  DEF Server!FullInv, Server!Finality, Server!RotationKeepsSession,
      Server!KnownUnlessUncertain, Server!RevokedFamilyHasNoRecord, RotationKeepsSession,
      KnownUnlessUncertain, RevokedFamilyHasNoRecord
<1> QED
  BY <1>1, <1>2, <1>3, RedisInvariant, PTL DEF RedisSpec

\* A clear_store that returned Ok has removed every ID that was stored when
\* it started, for good.
THEOREM RedisClearIsThorough == RedisSpec => []ClearIsThorough
<1>1. RedisInv => ClearIsThorough
  BY DEF RedisInv
<1> QED
  BY <1>1, RedisInvariant, PTL

-----------------------------------------------------------------------------
(* MemoryStore: the lifecycle lock keeps the identity that a save took, so *)
(* what is read again under the store lock is the same.                    *)

MemoryContract == INSTANCE ServerStoreProofs WITH CanOutliveFuture <- FALSE

\* The proofs are about the same steps.
LEMMA MemorySteps == Memory!Next <=> MemoryContract!Next
  BY DEF Memory!Next, Memory!ApplicationStep, Memory!New, Memory!Clone,
      Memory!Regenerate, Memory!Destroy, Memory!DropHandle, Memory!BeginSave,
      Memory!RefuseSave, Memory!BeginBackendWrite, Memory!RefuseBackendWrite,
      Memory!BeginDelete, Memory!EnterDelete, Memory!RefuseDelete, Memory!history,
      Memory!FamilyOf, Memory!OriginConflict, Memory!DeleteTarget, Memory!CanCreate,
      Memory!Move, Memory!Discard, Memory!NoSession, Memory!ClaimsCreation,
      Memory!Superseded, Memory!AdmitsWrite, Memory!AdmitsDelete, Memory!Load,
      Memory!Put, Memory!RejectPut, Memory!AbandonSave, Memory!DiscardExpired,
      Memory!AbandonDiscard, Memory!CompleteSave, Memory!Compensate,
      Memory!CompleteDelete, Memory!AbandonDelete, Memory!ClearStore, Memory!Expire,
      Memory!LandLate, Memory!SaveRequest, Memory!Accepts, Memory!Replace,
      Memory!Replaced, Memory!EndRecords, Memory!ReleaseWrite, Memory!MarkPersisted,
      Memory!MayFly, Memory!AbandonWrite, Memory!DeleteRequest, Memory!CleansUp,
      Memory!vars, MemoryContract!Next, MemoryContract!ApplicationStep,
      MemoryContract!New, MemoryContract!Clone, MemoryContract!Regenerate,
      MemoryContract!Destroy, MemoryContract!DropHandle, MemoryContract!BeginSave,
      MemoryContract!RefuseSave, MemoryContract!BeginBackendWrite,
      MemoryContract!RefuseBackendWrite, MemoryContract!BeginDelete,
      MemoryContract!EnterDelete, MemoryContract!RefuseDelete,
      MemoryContract!history, MemoryContract!FamilyOf,
      MemoryContract!OriginConflict, MemoryContract!DeleteTarget,
      MemoryContract!CanCreate, MemoryContract!Move, MemoryContract!Discard,
      MemoryContract!NoSession, MemoryContract!ClaimsCreation,
      MemoryContract!Superseded, MemoryContract!AdmitsWrite,
      MemoryContract!AdmitsDelete, MemoryContract!Load, MemoryContract!Put,
      MemoryContract!RejectPut, MemoryContract!AbandonSave,
      MemoryContract!DiscardExpired, MemoryContract!AbandonDiscard,
      MemoryContract!CompleteSave, MemoryContract!Compensate,
      MemoryContract!CompleteDelete, MemoryContract!AbandonDelete,
      MemoryContract!ClearStore, MemoryContract!Expire, MemoryContract!LandLate,
      MemoryContract!SaveRequest, MemoryContract!Accepts, MemoryContract!Replace,
      MemoryContract!Replaced, MemoryContract!EndRecords,
      MemoryContract!ReleaseWrite, MemoryContract!MarkPersisted,
      MemoryContract!MayFly, MemoryContract!AbandonWrite,
      MemoryContract!DeleteRequest, MemoryContract!CleansUp, MemoryContract!vars

LEMMA MemoryStep ==
  ASSUME MemoryContract!FullInv, Memory!MemoryNext
  PROVE  Memory!Next
<1>1. ASSUME NEW h \in Handles, Memory!InsertLocked(h) PROVE Memory!Put(h)
  <2>1. Memory!CurrentOrigin(h) = handle[h].origin
    BY <1>1 DEF MemoryContract!FullInv, MemoryContract!Locking, MemoryContract!Locks,
       MemoryContract!WritesCurrent, MemoryContract!Writing, MemoryContract!FamilyOf,
       Memory!InsertLocked, Memory!CurrentOrigin, Memory!FamilyOf
  <2> QED
    BY <1>1, <2>1 DEF Memory!InsertLocked, Memory!Refused, Memory!Put
<1>2. ASSUME NEW h \in Handles, Memory!RefuseLocked(h) PROVE Memory!AbandonSave(h)
  BY <1>2 DEF Memory!RefuseLocked, Memory!AbandonSave, Memory!AbandonWrite, Memory!MayFly
<1>3. ASSUME NEW h \in Handles, Memory!AbandonWrite(h, "write", {}) PROVE Memory!AbandonSave(h)
  BY <1>3 DEF Memory!AbandonSave, Memory!AbandonWrite, Memory!MayFly
<1>4. ASSUME Memory!ClearStore(Ids) PROVE \E known \in SUBSET records : Memory!ClearStore(known)
  BY <1>4 DEF Memory!ClearStore, Memory!EndRecords, MemoryContract!FullInv, MemoryContract!IInv,
     MemoryContract!TypeOK
<1>5. ASSUME NEW h \in Handles, Memory!FinishLocked(h)
      PROVE  Memory!CompleteSave(h) \/ Memory!Compensate(h)
  BY <1>5 DEF Memory!FinishLocked
<1> QED
  BY <1>1, <1>2, <1>3, <1>4, <1>5 DEF Memory!MemoryNext, Memory!WithStoreLock, Memory!Next

LEMMA MemoryInvStep ==
  ASSUME MemoryContract!FullInv, Memory!MemoryNext
  PROVE  MemoryContract!FullInv'
  BY MemoryStep, MemorySteps, MemoryContract!NextFull, NoneAssumption

-----------------------------------------------------------------------------
(* CustomStore: a guard publishes its own save or none.                    *)

\* The contract of a store whose requests can outlive their futures.
Remote == INSTANCE ServerStoreProofs WITH CanOutliveFuture <- TRUE

LEMMA CustomSteps == Custom!Next <=> Remote!Next
  BY DEF Custom!Next, Custom!ApplicationStep, Custom!New, Custom!Clone,
      Custom!Regenerate, Custom!Destroy, Custom!DropHandle, Custom!BeginSave,
      Custom!RefuseSave, Custom!BeginBackendWrite, Custom!RefuseBackendWrite,
      Custom!BeginDelete, Custom!EnterDelete, Custom!RefuseDelete, Custom!history,
      Custom!FamilyOf, Custom!OriginConflict, Custom!DeleteTarget, Custom!CanCreate,
      Custom!Move, Custom!Discard, Custom!NoSession, Custom!ClaimsCreation,
      Custom!Superseded, Custom!AdmitsWrite, Custom!AdmitsDelete, Custom!Load,
      Custom!Put, Custom!RejectPut, Custom!AbandonSave, Custom!DiscardExpired,
      Custom!AbandonDiscard, Custom!CompleteSave, Custom!Compensate,
      Custom!CompleteDelete, Custom!AbandonDelete, Custom!ClearStore, Custom!Expire,
      Custom!LandLate, Custom!SaveRequest, Custom!Accepts, Custom!Replace,
      Custom!Replaced, Custom!EndRecords, Custom!ReleaseWrite, Custom!MarkPersisted,
      Custom!MayFly, Custom!AbandonWrite, Custom!DeleteRequest, Custom!CleansUp,
      Custom!vars, Remote!Next, Remote!ApplicationStep,
      Remote!New, Remote!Clone, Remote!Regenerate,
      Remote!Destroy, Remote!DropHandle, Remote!BeginSave,
      Remote!RefuseSave, Remote!BeginBackendWrite,
      Remote!RefuseBackendWrite, Remote!BeginDelete,
      Remote!EnterDelete, Remote!RefuseDelete,
      Remote!history, Remote!FamilyOf,
      Remote!OriginConflict, Remote!DeleteTarget,
      Remote!CanCreate, Remote!Move, Remote!Discard,
      Remote!NoSession, Remote!ClaimsCreation,
      Remote!Superseded, Remote!AdmitsWrite,
      Remote!AdmitsDelete, Remote!Load, Remote!Put,
      Remote!RejectPut, Remote!AbandonSave,
      Remote!DiscardExpired, Remote!AbandonDiscard,
      Remote!CompleteSave, Remote!Compensate,
      Remote!CompleteDelete, Remote!AbandonDelete,
      Remote!ClearStore, Remote!Expire, Remote!LandLate,
      Remote!SaveRequest, Remote!Accepts, Remote!Replace,
      Remote!Replaced, Remote!EndRecords,
      Remote!ReleaseWrite, Remote!MarkPersisted,
      Remote!MayFly, Remote!AbandonWrite,
      Remote!DeleteRequest, Remote!CleansUp, Remote!vars

LEMMA CustomStep ==
  ASSUME spent \subseteq Handles, Custom!CustomNext
  PROVE  [Custom!Next]_(Custom!vars)
<1>1. ASSUME NEW g \in Handles, NEW h \in Handles, Custom!CompleteWithGuard(g, h)
      PROVE  Custom!CompleteSave(h) \/ Custom!AbandonSave(h)
  <2>1. g = h /\ handle[h].at = "wrote"
    BY <1>1 DEF Custom!CompleteWithGuard, Custom!Matches
  <2>2. CASE Custom!Publish(h, h)
    BY <2>1, <2>2 DEF Custom!Publish, Custom!CompleteSave
  <2>3. CASE Custom!CompleteTooLate(h)
    <3>1. ASSUME NEW requests PROVE Custom!AbandonWrite(h, "wrote", requests)
      <4>1. {} \in Custom!MayFly(requests) /\ flying' = flying \cup {}
        BY <2>3 DEF Custom!CompleteTooLate, Custom!MayFly
      <4> QED
        BY <2>1, <2>3, <4>1 DEF Custom!CompleteTooLate, Custom!DropUnremoved, Custom!AbandonWrite
    <3> QED
      BY <3>1 DEF Custom!AbandonSave
  <2> QED
    BY <1>1, <2>1, <2>2, <2>3 DEF Custom!CompleteWithGuard
<1>2. ASSUME NEW h \in Handles, Custom!RefuseCurrent(h) PROVE Custom!AbandonSave(h)
  BY <1>2 DEF Custom!RefuseCurrent, Custom!AbandonSave, Custom!AbandonWrite, Custom!MayFly
<1>3. ASSUME NEW g \in Handles, NEW h \in Handles, Custom!ForeignGuard(g, h)
      PROVE  Custom!AbandonSave(h)
  BY <1>3 DEF Custom!ForeignGuard
<1>4. ASSUME NEW h \in Handles, Custom!CompleteStarted(h) PROVE UNCHANGED Custom!vars
  BY <1>4 DEF Custom!CompleteStarted
<1>5. ASSUME NEW h \in Handles, Custom!DropHandle(h) PROVE Custom!ApplicationStep(h)
  BY <1>5 DEF Custom!ApplicationStep
<1>6. ASSUME NEW h \in Handles,
             \/ Custom!ApplicationStep(h)
             \/ \E f \in Families, i \in Ids : Custom!Load(h, f, i)
             \/ Custom!Put(h) \/ Custom!RejectPut(h) \/ Custom!Compensate(h)
             \/ Custom!CompleteDelete(h) \/ Custom!AbandonDelete(h)
             \/ Custom!AbandonSave(h) \/ Custom!CompleteSave(h)
      PROVE  Custom!Next
  BY <1>6 DEF Custom!Next
<1>7. CASE \/ \E ids \in SUBSET records : Custom!ClearStore(ids)
           \/ \E i \in Ids : Custom!Expire(i)
           \/ \E r \in flying : Custom!LandLate(r)
  BY <1>7 DEF Custom!Next
<1>8. CASE \/ \E h \in Handles \ spent :
                \/ Custom!ApplicationStep(h)
                \/ \E f \in Families, i \in Ids : Custom!Load(h, f, i)
                \/ Custom!Put(h) \/ Custom!RejectPut(h) \/ Custom!Compensate(h)
                \/ Custom!CompleteDelete(h) \/ Custom!AbandonDelete(h)
           \/ \E h \in spent : Custom!DropHandle(h)
           \/ \E h \in Handles : Custom!AbandonSave(h)
  BY <1>5, <1>6, <1>8
<1> QED
  BY <1>1, <1>2, <1>3, <1>4, <1>6, <1>7, <1>8 DEF Custom!CustomNext

LEMMA SpentStep ==
  ASSUME spent \subseteq Handles, Custom!CustomNext
  PROVE  spent' \subseteq Handles
<1>1. \E consumed \in SUBSET Handles : Custom!Spend(consumed)
  BY DEF Custom!CustomNext, Custom!CompleteWithGuard, Custom!ForeignGuard,
     Custom!RefuseCurrent, Custom!CompleteStarted
<1> QED
  BY <1>1 DEF Custom!Spend

LEMMA CustomInvStep ==
  ASSUME Remote!FullInv, spent \subseteq Handles, Custom!CustomNext
  PROVE  Remote!FullInv' /\ spent' \subseteq Handles
<1>1. [Remote!Next]_(Remote!vars)
  BY CustomStep, CustomSteps DEF Custom!vars, Remote!vars, Custom!history,
     Remote!history
<1> QED
  BY <1>1, SpentStep, Remote!NextFull, NoneAssumption

\* Initially every store shows the contract its initial state.
LEMMA InitContracts ==
  ASSUME Init, owner = NoHandle
  PROVE  /\ MemoryContract!Init /\ Remote!Init /\ LockedContract!Init
         /\ MongoContract!Init
         /\ handle = [h \in Handles |-> NoSession] /\ family = [f \in Families |-> NewFamily]
<1>1. /\ handle = [h \in Handles |-> NoSession] /\ family = [f \in Families |-> NewFamily]
      /\ maker = [i \in Ids |-> NoFamily] /\ records = {} /\ flying = {}
      /\ lineage = [i \in Ids |-> NoId] /\ gone = {} /\ ended = {} /\ deleted = {} /\ revoked = {}
  BY DEF Init
<1>2. NoSession.at = "absent" /\ NewFamily.holder = NoHandle
  BY DEF NoSession, NewFamily
<1>3. MemoryContract!Init
  BY <1>1 DEF MemoryContract!Init, MemoryContract!NoSession, MemoryContract!NewFamily,
     NoSession, NewFamily
<1>4. Remote!Init
  BY <1>1 DEF Remote!Init, Remote!NoSession, Remote!NewFamily,
     NoSession, NewFamily
<1>5. MongoHandle = handle /\ Locked!ContractHandle = handle
  BY <1>1, <1>2 DEF MongoHandle, Locked!ContractHandle
<1>6. Locked!ContractFamily = family
  <2>1. \A h \in Handles : handle[h].at = "absent"
    BY <1>1, <1>2
  <2> QED
    BY <1>1, <2>1 DEF Locked!ContractFamily
<1>7. LockedContract!Init
  BY <1>1, <1>5, <1>6 DEF LockedContract!Init, LockedContract!NoSession,
     LockedContract!NewFamily, NoSession, NewFamily
<1>8. Pending = {}
  BY <1>1, <1>2 DEF Pending, Inserting
<1>9. MongoRecords = {} /\ MongoFlying = {} /\ MongoEnded = {}
  BY <1>1, <1>8 DEF MongoRecords, MongoFlying, MongoEnded
<1>10. MongoContract!Init
  BY <1>1, <1>5, <1>9 DEF MongoContract!Init, MongoContract!NoSession,
     MongoContract!NewFamily, NoSession, NewFamily
<1> QED
  BY <1>1, <1>3, <1>4, <1>7, <1>7, <1>10

-----------------------------------------------------------------------------
(* The SQL stores: what SqlStoreProofs shows of them.                       *)

CONSTANTS PoolSize, Record, Owner, Home  \* as in SqlPool
VARIABLE connections                     \* as in SqlPool

SqlProofs == INSTANCE SqlStoreProofs WITH CanOutliveFuture <- TRUE

LEMMA SqlSteps == Sql!SqlNext <=> SqlProofs!SqlNext
<1>1. /\ \A h : /\ Sql!ApplicationStep(h) <=> SqlProofs!ApplicationStep(h)
                /\ \A f, i : Sql!Load(h, f, i) <=> SqlProofs!Load(h, f, i)
                /\ Sql!Execute(h) <=> SqlProofs!Execute(h)
                /\ Sql!DeleteSource(h) <=> SqlProofs!DeleteSource(h)
                /\ Sql!Commit(h) <=> SqlProofs!Commit(h)
                /\ Sql!Reject(h) <=> SqlProofs!Reject(h)
                /\ Sql!Abandon(h) <=> SqlProofs!Abandon(h)
                /\ Sql!CompleteSave(h) <=> SqlProofs!CompleteSave(h)
                /\ Sql!Compensate(h) <=> SqlProofs!Compensate(h)
                /\ Sql!CompleteDelete(h) <=> SqlProofs!CompleteDelete(h)
                /\ Sql!AbandonDelete(h) <=> SqlProofs!AbandonDelete(h)
      /\ \A i : /\ Sql!Unlocked(i) <=> SqlProofs!Unlocked(i)
                /\ Sql!Expire(i) <=> SqlProofs!Expire(i)
      /\ \A r : Sql!LandUnlocked(r) <=> SqlProofs!LandUnlocked(r)
      /\ \A ids : Sql!ClearStore(ids) <=> SqlProofs!ClearStore(ids)
      /\ Sql!LockedRows = SqlProofs!LockedRows
  BY DEF SqlProofs!ApplicationStep, SqlProofs!New, SqlProofs!Clone, SqlProofs!Regenerate,
     SqlProofs!Destroy, SqlProofs!DropHandle, SqlProofs!BeginSave, SqlProofs!RefuseSave,
     SqlProofs!BeginBackendWrite, SqlProofs!RefuseBackendWrite, SqlProofs!BeginDelete,
     SqlProofs!EnterDelete, SqlProofs!RefuseDelete, SqlProofs!history, SqlProofs!FamilyOf,
     SqlProofs!OriginConflict, SqlProofs!DeleteTarget, SqlProofs!CanCreate, SqlProofs!Move,
     SqlProofs!Discard, SqlProofs!NoSession, SqlProofs!ClaimsCreation, SqlProofs!Superseded,
     SqlProofs!AdmitsWrite, SqlProofs!AdmitsDelete, SqlProofs!Load, SqlProofs!Put,
     SqlProofs!RejectPut, SqlProofs!AbandonSave, SqlProofs!CompleteSave,
     SqlProofs!Compensate, SqlProofs!CompleteDelete, SqlProofs!AbandonDelete,
     SqlProofs!ClearStore, SqlProofs!Expire, SqlProofs!LandLate, SqlProofs!SaveRequest,
     SqlProofs!Accepts, SqlProofs!Replace, SqlProofs!Replaced, SqlProofs!EndRecords,
     SqlProofs!ReleaseWrite, SqlProofs!MarkPersisted, SqlProofs!MayFly,
     SqlProofs!AbandonWrite, SqlProofs!DeleteRequest, SqlProofs!CleansUp,
     SqlProofs!LandUnlocked, SqlProofs!LockedRows, SqlProofs!Unlocked, SqlProofs!Rotates,
     SqlProofs!Execute, SqlProofs!DeleteSource, SqlProofs!SourceFound, SqlProofs!Commit,
     SqlProofs!Reject, SqlProofs!Abandon, Sql!ApplicationStep, Sql!New,
     Sql!Clone, Sql!Regenerate, Sql!Destroy, Sql!DropHandle, Sql!BeginSave, Sql!RefuseSave,
     Sql!BeginBackendWrite, Sql!RefuseBackendWrite, Sql!BeginDelete, Sql!EnterDelete,
     Sql!RefuseDelete, Sql!history, Sql!FamilyOf, Sql!OriginConflict, Sql!DeleteTarget,
     Sql!CanCreate, Sql!Move, Sql!Discard, Sql!NoSession, Sql!ClaimsCreation, Sql!Superseded,
     Sql!AdmitsWrite, Sql!AdmitsDelete, Sql!Load, Sql!Put, Sql!RejectPut, Sql!AbandonSave,
     Sql!CompleteSave, Sql!Compensate, Sql!CompleteDelete, Sql!AbandonDelete, Sql!ClearStore,
     Sql!Expire, Sql!LandLate, Sql!SaveRequest, Sql!Accepts, Sql!Replace, Sql!Replaced,
     Sql!EndRecords, Sql!ReleaseWrite, Sql!MarkPersisted, Sql!MayFly, Sql!AbandonWrite,
     Sql!DeleteRequest, Sql!CleansUp, Sql!LandUnlocked, Sql!LockedRows, Sql!Unlocked,
     Sql!Rotates, Sql!Execute, Sql!DeleteSource, Sql!SourceFound, Sql!Commit, Sql!Reject,
     Sql!Abandon
<1> QED
  BY <1>1 DEF Sql!SqlNext, SqlProofs!SqlNext

LEMMA SqlContractSteps == Sql!Contract!Next <=> SqlProofs!Contract!Next
<1>1. /\ Sql!ContractHandle = SqlProofs!ContractHandle
      /\ Sql!ContractHandle' = SqlProofs!ContractHandle'
  BY DEF Sql!ContractHandle, SqlProofs!ContractHandle
<1> QED
  BY <1>1 DEF SqlProofs!Contract!ApplicationStep, SqlProofs!Contract!New, SqlProofs!Contract!Clone,
     SqlProofs!Contract!Regenerate, SqlProofs!Contract!Destroy,
     SqlProofs!Contract!DropHandle, SqlProofs!Contract!BeginSave,
     SqlProofs!Contract!RefuseSave, SqlProofs!Contract!BeginBackendWrite,
     SqlProofs!Contract!RefuseBackendWrite, SqlProofs!Contract!BeginDelete,
     SqlProofs!Contract!EnterDelete, SqlProofs!Contract!RefuseDelete,
     SqlProofs!Contract!history, SqlProofs!Contract!FamilyOf,
     SqlProofs!Contract!OriginConflict, SqlProofs!Contract!DeleteTarget,
     SqlProofs!Contract!CanCreate, SqlProofs!Contract!Move, SqlProofs!Contract!Discard,
     SqlProofs!Contract!NoSession, SqlProofs!Contract!ClaimsCreation,
     SqlProofs!Contract!Superseded, SqlProofs!Contract!AdmitsWrite,
     SqlProofs!Contract!AdmitsDelete, SqlProofs!Contract!Load, SqlProofs!Contract!Put,
     SqlProofs!Contract!RejectPut, SqlProofs!Contract!AbandonSave,
     SqlProofs!Contract!CompleteSave, SqlProofs!Contract!Compensate,
     SqlProofs!Contract!CompleteDelete, SqlProofs!Contract!AbandonDelete,
     SqlProofs!Contract!ClearStore, SqlProofs!Contract!Expire, SqlProofs!Contract!LandLate,
     SqlProofs!Contract!SaveRequest, SqlProofs!Contract!Accepts, SqlProofs!Contract!Replace,
     SqlProofs!Contract!Replaced, SqlProofs!Contract!EndRecords,
     SqlProofs!Contract!ReleaseWrite, SqlProofs!Contract!MarkPersisted,
     SqlProofs!Contract!MayFly, SqlProofs!Contract!AbandonWrite,
     SqlProofs!Contract!DeleteRequest, SqlProofs!Contract!CleansUp,
     SqlProofs!Contract!DiscardExpired, SqlProofs!Contract!AbandonDiscard,
     SqlProofs!Contract!Next, SqlProofs!Contract!vars, Sql!Contract!ApplicationStep,
     Sql!Contract!New, Sql!Contract!Clone, Sql!Contract!Regenerate, Sql!Contract!Destroy,
     Sql!Contract!DropHandle, Sql!Contract!BeginSave, Sql!Contract!RefuseSave,
     Sql!Contract!BeginBackendWrite, Sql!Contract!RefuseBackendWrite,
     Sql!Contract!BeginDelete, Sql!Contract!EnterDelete, Sql!Contract!RefuseDelete,
     Sql!Contract!history, Sql!Contract!FamilyOf, Sql!Contract!OriginConflict,
     Sql!Contract!DeleteTarget, Sql!Contract!CanCreate, Sql!Contract!Move,
     Sql!Contract!Discard, Sql!Contract!NoSession, Sql!Contract!ClaimsCreation,
     Sql!Contract!Superseded, Sql!Contract!AdmitsWrite, Sql!Contract!AdmitsDelete,
     Sql!Contract!Load, Sql!Contract!Put, Sql!Contract!RejectPut, Sql!Contract!AbandonSave,
     Sql!Contract!CompleteSave, Sql!Contract!Compensate, Sql!Contract!CompleteDelete,
     Sql!Contract!AbandonDelete, Sql!Contract!ClearStore, Sql!Contract!Expire,
     Sql!Contract!LandLate, Sql!Contract!SaveRequest, Sql!Contract!Accepts,
     Sql!Contract!Replace, Sql!Contract!Replaced, Sql!Contract!EndRecords,
     Sql!Contract!ReleaseWrite, Sql!Contract!MarkPersisted, Sql!Contract!MayFly,
     Sql!Contract!AbandonWrite, Sql!Contract!DeleteRequest, Sql!Contract!CleansUp,
     Sql!Contract!DiscardExpired, Sql!Contract!AbandonDiscard, Sql!Contract!Next,
     Sql!Contract!vars

LEMMA SqlImplements ==
  /\ Init => SqlProofs!SqlInv /\ Sql!Contract!Init
  /\ SqlProofs!SqlInv /\ (Sql!SqlNext \/ UNCHANGED vars) =>
       SqlProofs!SqlInv' /\ [Sql!Contract!Next]_(Sql!Contract!vars)
<1>1. /\ SqlProofs!Init => SqlProofs!SqlInv /\ SqlProofs!Contract!Init
      /\ SqlProofs!SqlInv /\ [SqlProofs!SqlNext]_(SqlProofs!vars) =>
           /\ SqlProofs!SqlInv'
           /\ [SqlProofs!Contract!Next]_(SqlProofs!Contract!vars)
  BY NoneAssumption, SqlProofs!SqlImplements
<1>2. /\ Init => SqlProofs!Init
      /\ SqlProofs!Contract!Init => Sql!Contract!Init
  <2>1. Sql!ContractHandle = SqlProofs!ContractHandle
    BY DEF Sql!ContractHandle, SqlProofs!ContractHandle
  <2> QED
    BY <2>1 DEF Init, NoSession, NewFamily, SqlProofs!Init, SqlProofs!NoSession,
       SqlProofs!NewFamily, SqlProofs!Contract!Init, SqlProofs!Contract!NoSession,
       SqlProofs!Contract!NewFamily, Sql!Contract!Init, Sql!Contract!NoSession,
       Sql!Contract!NewFamily
<1>3. /\ UNCHANGED vars => UNCHANGED SqlProofs!vars
      /\ UNCHANGED SqlProofs!Contract!vars => UNCHANGED Sql!Contract!vars
  <2>1. Sql!ContractHandle = SqlProofs!ContractHandle
    BY DEF Sql!ContractHandle, SqlProofs!ContractHandle
  <2>2. Sql!ContractHandle' = SqlProofs!ContractHandle'
    BY DEF Sql!ContractHandle, SqlProofs!ContractHandle
  <2> QED
    BY <2>1, <2>2 DEF vars, history, SqlProofs!vars, SqlProofs!history, SqlProofs!Contract!vars,
       SqlProofs!Contract!history, Sql!Contract!vars, Sql!Contract!history
<1> QED
  BY <1>1, <1>2, <1>3, SqlSteps, SqlContractSteps

-----------------------------------------------------------------------------
(* All stores.                                                              *)

StoresInv ==
    /\ kind \in {"memory", "custom", "locked", "sql", "mongo"}
    /\ kind = "memory" => MemoryContract!FullInv
    /\ kind = "custom" => Remote!FullInv /\ spent \subseteq Handles
    /\ kind = "locked" => LockedInv
    /\ kind = "sql" => SqlProofs!SqlInv
    /\ kind = "mongo" => MongoInv

LEMMA InitStores == StoresInit => StoresInv
<1> SUFFICES ASSUME StoresInit PROVE StoresInv
  OBVIOUS
<1>0. Init /\ owner = NoHandle /\ spent = {}
  BY DEF StoresInit
<1>1. /\ MemoryContract!Init /\ Remote!Init /\ LockedContract!Init
      /\ MongoContract!Init
      /\ handle = [h \in Handles |-> NoSession] /\ family = [f \in Families |-> NewFamily]
  BY <1>0, InitContracts
<1>2. /\ MemoryContract!FullInv /\ Remote!FullInv /\ LockedContract!FullInv
      /\ MongoContract!FullInv
  BY <1>1, NoneAssumption, MemoryContract!InitFull, Remote!InitFull,
     LockedContract!InitFull, MongoContract!InitFull
<1>3. /\ NoSession.at = "absent" /\ NoSession.target = NoId /\ ~NoSession.uncertain_on_drop
      /\ NoSession.rotation_from = NoId
      /\ NewFamily.holder = NoHandle /\ ~NewFamily.uncertain /\ NewFamily.persisted_id = NoId
      /\ NoSession \in HandleStates /\ NewFamily \in FamilyStates
  BY DEF NoSession, NewFamily, HandleStates, FamilyStates, Stages
<1>4. /\ HandleStates = Locked!HandleStates /\ HandleStates = Mongo!HandleStates
      /\ FamilyStates = Locked!FamilyStates
  BY DEF HandleStates, Stages, FamilyStates, Locked!HandleStates, Locked!Stages,
     Mongo!HandleStates, Mongo!Stages, Locked!FamilyStates
<1>5. \A h \in Handles : handle[h] = NoSession
  BY <1>1
<1>6. \A f \in Families : family[f] = NewFamily
  BY <1>1
<1>7. handle \in [Handles -> HandleStates] /\ family \in [Families -> FamilyStates]
  BY <1>1, <1>3
<1>8. SqlProofs!SqlInv
  BY <1>0, SqlImplements
<1>9. LockedInv
  BY <1>2, <1>3, <1>4, <1>5, <1>6, <1>7 DEF LockedInv, OwnLock, TargetsAreCurrent
<1>10. MongoInv
  <2>1. records = {} /\ gone = {} /\ flying = {} /\ ended = {}
    BY <1>0 DEF Init
  <2>2. PendingIsPrivate
    <3>1. Pending = {}
      BY <1>3, <1>5, <2>1 DEF Pending, Inserting
    <3> QED
      BY <1>3, <1>5, <1>6, <2>1, <3>1 DEF PendingIsPrivate, HandleIsPrivate
  <2>3. MongoTypes /\ PendingIsFenced /\ ended \subseteq MongoEnded /\ Mongo!LossIsFenced
    BY <1>4, <1>7, <2>1 DEF MongoTypes, PendingIsFenced, Mongo!LossIsFenced
  <2> QED
    BY <1>2, <2>2, <2>3 DEF MongoInv
<1> QED
  BY <1>0, <1>2, <1>8, <1>9, <1>10 DEF StoresInit, StoresInv

LEMMA StoresUnchanged ==
  ASSUME StoresInv, UNCHANGED storesVars
  PROVE  StoresInv'
<1>1. /\ UNCHANGED <<family, handle, maker, records, flying, lineage, gone, ended, deleted, revoked>>
      /\ UNCHANGED <<kind, owner, spent>>
  BY DEF storesVars, vars, history
<1>2. /\ MongoHandle' = MongoHandle
      /\ Locked!ContractHandle' = Locked!ContractHandle
      /\ Locked!ContractFamily' = Locked!ContractFamily
      /\ Pending' = Pending
  BY <1>1 DEF MongoHandle, Locked!ContractHandle, Locked!ContractFamily,
     Pending, Inserting, Overdue
<1>3. MongoRecords' = MongoRecords /\ MongoFlying' = MongoFlying /\ MongoEnded' = MongoEnded
  BY <1>1, <1>2 DEF MongoRecords, MongoFlying, MongoEnded, Overdue
<1>4. /\ UNCHANGED MemoryContract!vars /\ UNCHANGED Remote!vars
      /\ UNCHANGED LockedContract!vars
      /\ UNCHANGED MongoContract!vars
  BY <1>1, <1>2, <1>3 DEF MemoryContract!vars, Remote!vars,
     LockedContract!vars, MongoContract!vars, MemoryContract!history, Remote!history,
     LockedContract!history, MongoContract!history
<1>5. CASE kind = "memory"
  BY <1>1, <1>4, <1>5, NoneAssumption, MemoryContract!NextFull DEF StoresInv
<1>6. CASE kind = "custom"
  BY <1>1, <1>4, <1>6, NoneAssumption, Remote!NextFull DEF StoresInv
<1>7. CASE kind = "sql"
  <2>1. UNCHANGED vars
    BY <1>1 DEF vars, history
  <2> QED
    BY <1>1, <1>7, <2>1, SqlImplements DEF StoresInv
<1>8. CASE kind = "locked"
  <2>1. LockedContract!FullInv'
    BY <1>4, <1>8, NoneAssumption, LockedContract!NextFull DEF StoresInv, LockedInv
  <2> QED
    BY <1>1, <1>8, <2>1 DEF StoresInv, LockedInv, OwnLock, TargetsAreCurrent,
       Locked!DeleteTarget, Locked!OriginConflict, Locked!FamilyOf
<1>9. CASE kind = "mongo"
  <2>1. MongoContract!FullInv'
    BY <1>4, <1>9, NoneAssumption, MongoContract!NextFull DEF StoresInv, MongoInv
  <2> QED
    BY <1>1, <1>2, <1>3, <1>9, <2>1 DEF StoresInv, MongoInv, MongoTypes, PendingIsPrivate,
       HandleIsPrivate, Harmless, Dead, Real, PendingIsFenced, Mongo!LossIsFenced,
       Mongo!Rotates
<1> QED
  BY <1>5, <1>6, <1>7, <1>8, <1>9 DEF StoresInv

LEMMA NextStores == StoresInv /\ [StoresNext]_storesVars => StoresInv'
<1> SUFFICES ASSUME StoresInv, [StoresNext]_storesVars PROVE StoresInv'
  OBVIOUS
<1>1. CASE UNCHANGED storesVars
  BY <1>1, StoresUnchanged
<1>2. CASE StoresNext
  <2>0. kind' = kind
    BY <1>2 DEF StoresNext
  <2>1. CASE kind = "memory"
    BY <1>2, <2>0, <2>1, MemoryInvStep DEF StoresNext, StoresInv
  <2>2. CASE kind = "custom"
    BY <1>2, <2>0, <2>2, CustomInvStep DEF StoresNext, StoresInv
  <2>3. CASE kind = "locked"
    BY <1>2, <2>0, <2>3, LockedInvStep DEF StoresNext, StoresInv
  <2>4. CASE kind = "sql"
    BY <1>2, <2>0, <2>4, SqlImplements DEF StoresNext, StoresInv
  <2>5. CASE kind = "mongo"
    BY <1>2, <2>0, <2>5, MongoInvStep DEF StoresNext, StoresInv
  <2> QED
    BY <2>1, <2>2, <2>3, <2>4, <2>5 DEF StoresInv
<1> QED
  BY <1>1, <1>2

-----------------------------------------------------------------------------
(* The theorems.                                                           *)

\* Every store keeps the invariant of the contract in what it shows of its
\* state, and what ties the rest of its state to that.
THEOREM StoresInvariant == StoresSpec => []StoresInv
  BY InitStores, NextStores, PTL DEF StoresSpec

LEMMA InitImplements ==
  ASSUME StoresInit
  PROVE  Memory!Init /\ Custom!Init /\ Locked!Contract!Init /\ Sql!Contract!Init
<1>1. MemoryContract!Init /\ Remote!Init /\ LockedContract!Init
  BY InitContracts DEF StoresInit
<1>2. Memory!Init
  BY <1>1 DEF Memory!Init, Memory!NoSession, Memory!NewFamily, MemoryContract!Init,
     MemoryContract!NoSession, MemoryContract!NewFamily
<1>3. Custom!Init
  BY <1>1 DEF Custom!Init, Custom!NoSession, Custom!NewFamily, Remote!Init,
     Remote!NoSession, Remote!NewFamily
<1>4. Locked!Contract!Init
  BY <1>1 DEF Locked!Contract!Init, Locked!Contract!NoSession, Locked!Contract!NewFamily,
     LockedContract!Init, LockedContract!NoSession, LockedContract!NewFamily
<1>5. Sql!Contract!Init
  BY SqlImplements DEF StoresInit
<1> QED
  BY <1>2, <1>3, <1>4, <1>5

LEMMA NextImplements ==
  ASSUME StoresInv, StoresNext
  PROVE  ContractStep
<1>1. CASE kind = "memory"
  <2>1. [Memory!Next]_(Memory!vars)
    BY <1>1, MemoryStep DEF StoresNext, StoresInv
  <2> QED
    BY <1>1, <2>1 DEF ContractStep
<1>2. CASE kind = "custom"
  <2>1. [Custom!Next]_(Custom!vars)
    BY <1>2, CustomStep DEF StoresNext, StoresInv
  <2> QED
    BY <1>2, <2>1 DEF ContractStep
<1>3. CASE kind = "locked"
  <2>1. LockedContract!Next \/ UNCHANGED LockedContract!vars
    BY <1>3, LockedStep DEF StoresNext, StoresInv
  <2>2. UNCHANGED LockedContract!vars => UNCHANGED Locked!Contract!vars
    BY DEF LockedContract!vars, LockedContract!history, Locked!Contract!vars,
       Locked!Contract!history
  <2>3. [Locked!Contract!Next]_(Locked!Contract!vars)
    BY <2>1, <2>2, LockedContractSteps
  <2> QED
    BY <1>3, <2>3 DEF ContractStep
<1>4. CASE kind = "sql"
  <2>1. [Sql!Contract!Next]_(Sql!Contract!vars)
    BY <1>4, SqlImplements DEF StoresNext, StoresInv
  <2> QED
    BY <1>4, <2>1 DEF ContractStep
<1>5. CASE kind = "mongo"
  <2>1. \A i \in records' \ records : maker[i] \notin deleted
    BY <1>5, MongoCreations DEF StoresNext, StoresInv
  <2> QED
    BY <1>5, <2>1 DEF ContractStep
<1> QED
  BY <1>1, <1>2, <1>3, <1>4, <1>5 DEF StoresInv

\* The critical section of MemoryStore, the transactions of the SQL stores, a
\* lock of a store's own and SessionSave are steps of the contract; MongoDB
\* creates no record of a family in which destroy_session succeeded.
THEOREM StoresImplementContract == StoresSpec => ImplementsContract
<1>1. StoresInv /\ [StoresNext]_storesVars => [ContractStep]_storesVars
  BY NextImplements
<1> QED
  BY <1>1, InitImplements, StoresInvariant, PTL DEF StoresSpec, ImplementsContract

\* Whenever the locks are free a family knows every record that it made, or
\* is marked uncertain, which a store whose requests end with their futures
\* never needs.
THEOREM StoresKnowTheirRecords == StoresSpec => []RecordsAreKnown
<1>1. StoresInv => RecordsAreKnown
  <2> SUFFICES ASSUME StoresInv, NEW i \in records
               PROVE  LET f == family[maker[i]] IN
                      \/ f.persisted_id = i \/ f.holder # NoHandle \/ owner # NoHandle
                      \/ kind \notin {"memory", "locked"} /\ f.uncertain
    BY DEF RecordsAreKnown
  <2> DEFINE f == family[maker[i]]
  <2>1. CASE kind = "memory"
    <3>0. MemoryContract!FullInv
      BY <2>1 DEF StoresInv
    <3>1. f.uncertain \/ f.holder # NoHandle \/ f.persisted_id = i
      BY <3>0, NoneAssumption, MemoryContract!FullKnown DEF MemoryContract!KnownUnlessUncertain
    <3>2. maker[i] \in Families
      BY <3>0 DEF MemoryContract!FullInv, MemoryContract!IInv, MemoryContract!TypeOK,
         MemoryContract!DrawnIds, MemoryContract!Stored, MemoryContract!Fence,
         MemoryContract!MakersAreUsed
    <3>3. ~f.uncertain
      BY <3>0, <3>2 DEF MemoryContract!FullInv, MemoryContract!Fence,
         MemoryContract!LateWritesAreFenced
    <3> QED
      BY <3>1, <3>3
  <2>2. CASE kind = "locked"
    <3>0. LockedContract!FullInv /\ OwnLock
      BY <2>2 DEF StoresInv, LockedInv
    <3> DEFINE c == Locked!ContractFamily[maker[i]]
    <3>1. c.uncertain \/ c.holder # NoHandle \/ c.persisted_id = i
      BY <3>0, NoneAssumption, LockedContract!FullKnown DEF LockedContract!KnownUnlessUncertain
    <3>2. maker[i] \in Families
      BY <3>0 DEF LockedContract!FullInv, LockedContract!IInv, LockedContract!TypeOK,
         LockedContract!DrawnIds, LockedContract!Stored, LockedContract!Fence,
         LockedContract!MakersAreUsed
    <3>3. /\ c.uncertain = f.uncertain /\ c.persisted_id = f.persisted_id
          /\ c = IF Working(maker[i]) THEN [f EXCEPT !.holder = owner] ELSE f
      BY <3>2, LockedFamilies
    <3>4. ~f.uncertain /\ f.holder = NoHandle
      BY <3>0, <3>2 DEF OwnLock
    <3>5. Working(maker[i]) => owner # NoHandle
      BY NoneAssumption DEF Working
    <3> QED
      BY <3>1, <3>3, <3>4, <3>5
  <2>3. CASE kind = "custom"
    BY <2>3, NoneAssumption, Remote!FullKnown
    DEF StoresInv, Remote!KnownUnlessUncertain
  <2>4. CASE kind = "sql"
    BY <2>4, NoneAssumption, SqlProofs!SqlPromises
    DEF StoresInv, SqlProofs!KnownUnlessUncertain
  <2>5. CASE kind = "mongo"
    BY <2>5, NoneAssumption, MongoContract!FullKnown
    DEF StoresInv, MongoInv, MongoContract!KnownUnlessUncertain, MongoRecords
  <2> QED
    BY <2>1, <2>2, <2>3, <2>4, <2>5 DEF StoresInv
<1> QED
  BY <1>1, StoresInvariant, PTL

\* MongoDB's two writes leave all of the contract that revokes: removed IDs
\* stay removed, sessions neither split nor outlive their end, and a
\* successful destroy_session leaves no record.
THEOREM MongoRevocationHolds == StoresSpec => []MongoRevokes
<1>1. StoresInv => MongoRevokes
  <2> SUFFICES ASSUME StoresInv, kind = "mongo"
               PROVE  NoResurrection /\ NoFork /\ EndedStaysEnded /\ RevokedFamilyHasNoRecord
    BY DEF MongoRevokes
  <2>1. MongoInv /\ records \subseteq MongoRecords /\ ended \subseteq MongoEnded
    BY DEF StoresInv, MongoInv, MongoRecords
  <2>2. /\ MongoContract!NoResurrection /\ MongoContract!NoFork
        /\ MongoContract!EndedStaysEnded /\ MongoContract!RevokedFamilyHasNoRecord
    BY <2>1 DEF MongoInv, MongoContract!FullInv, MongoContract!IInv, MongoContract!Finality
  <2>3. NoResurrection /\ NoFork
    BY <2>1, <2>2 DEF NoResurrection, NoFork, MongoContract!NoResurrection, MongoContract!NoFork
  <2>4. EndedStaysEnded /\ RevokedFamilyHasNoRecord
    BY <2>1, <2>2 DEF EndedStaysEnded, RevokedFamilyHasNoRecord, MongoContract!EndedStaysEnded,
       MongoContract!RevokedFamilyHasNoRecord
  <2> QED
    BY <2>3, <2>4
<1> QED
  BY <1>1, StoresInvariant, PTL

\* A session whose old ID is revoked and that is not stored under a new one
\* was ended, is between the two writes of a rotation, or was last held by a
\* family that is uncertain: a rotation is lost no other way.
THEOREM MongoLossesAreFenced == StoresSpec => []MongoLossIsFenced
<1>1. StoresInv => MongoLossIsFenced
  BY DEF StoresInv, MongoInv, MongoLossIsFenced
<1> QED
  BY <1>1, StoresInvariant, PTL

=============================================================================
