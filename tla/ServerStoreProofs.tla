------------------------- MODULE ServerStoreProofs --------------------------
(***************************************************************************)
(* Proofs about ServerStore, for every number of handles, families and     *)
(* IDs, and whether or not requests can outlive their futures.             *)
(*                                                                         *)
(* Identities (IInv): a record is created either by the one insertion a    *)
(* fresh family is allowed (a ticket), or by a rotation.  A ticket's       *)
(* lineage has never been stored.  All rotations to one ID have one        *)
(* source, and once the ID has been stored that source is gone, so no      *)
(* second one succeeds.                                                    *)
(*                                                                         *)
(* Locks (Locking): backend calls are made under the family's lifecycle    *)
(* lock, so the persisted identity a save took is still the one it writes  *)
(* from.  The fence (Fence): a creation that can still land has made its   *)
(* family uncertain, and every record is known to the family that made it. *)
(* Deletion (Finality): a deletion that succeeds held the lock, after      *)
(* destruction was marked and with no uncertainty, so nothing of its       *)
(* family is left that could create a record.                              *)
(***************************************************************************)
EXTENDS ServerStore, TLAPS

\* IDs that are, or have been, stored.
Stored == records \cup gone

Present(h) == handle[h].at # "absent"

\* A handle that was consumed or dropped has no session; the others have one,
\* of a family in use and with an ID that was drawn; a deletion has a target.
HandlesAreSessions ==
    \A h \in Handles :
        /\ ~Present(h) => handle[h] = NoSession
        /\ Present(h) => /\ handle[h].family \in Families
                         /\ family[handle[h].family].used
                         /\ handle[h].id \in Ids
                         /\ lineage[handle[h].id] # NoId
        /\ handle[h].at = "delete" => handle[h].target \in Ids

\* Drawn IDs descend from drawn IDs, and only drawn IDs are in use.
DrawnIds ==
    /\ \A i \in Ids : lineage[i] # NoId =>
         maker[i] # NoFamily /\ maker[lineage[i]] # NoFamily
    /\ \A i \in Stored : lineage[i] # NoId
    /\ \A r \in flying : r.op # "delete" => lineage[r.id] # NoId

\* Only Session::new makes a family fresh.
FreshIsUsed == \A f \in Families : family[f].fresh => family[f].used

\* The identity a family takes for persisted has been stored.
PersistedIsStored ==
    \A f \in Families : family[f].persisted_id # NoId => family[f].persisted_id \in Stored

\* A rotation keeps the lineage, and its source is gone if it was done.
RotationOf(source, id) ==
    /\ source \in Stored
    /\ lineage[source] = lineage[id]
    /\ id \in Stored => source \in gone

RotationsAreSound ==
    /\ \A h \in Handles : handle[h].rotation_from # NoId =>
         RotationOf(handle[h].rotation_from, handle[h].id)
    /\ \A r \in flying : r.op = "rotate" =>
         r.source # NoId /\ r.source # r.id /\ RotationOf(r.source, r.id)
    /\ \A r \in flying : r.op = "insert" => r.source = NoId

\* All rotations to one ID have the same source.
OneSource ==
    /\ \A g, h \in Handles :
         /\ handle[g].rotation_from # NoId /\ handle[h].rotation_from # NoId
         /\ handle[g].id = handle[h].id
         => handle[g].rotation_from = handle[h].rotation_from
    /\ \A h \in Handles, r \in flying :
         /\ handle[h].rotation_from # NoId /\ r.op = "rotate" /\ handle[h].id = r.id
         => handle[h].rotation_from = r.source
    /\ \A q, r \in flying :
         q.op = "rotate" /\ r.op = "rotate" /\ q.id = r.id => q.source = r.source

\* What a save works with is what the handle says.
OriginsAreOwn ==
    \A h \in Handles :
        /\ handle[h].at \in {"lock", "write"} =>
             \/ handle[h].origin = NoId
             \/ handle[h].origin = handle[h].id
             \/ handle[h].origin = handle[h].rotation_from
        /\ handle[h].at = "wrote" => handle[h].id \in Stored

\* All handles of a fresh family descend from the ID it was made with.
Fresh(h) == Present(h) /\ FamilyOf(h).fresh

FreshLineage ==
    \A h \in Handles : Fresh(h) =>
        /\ maker[lineage[handle[h].id]] = handle[h].family
        /\ \A g \in Handles : Present(g) /\ handle[g].family = handle[h].family =>
             lineage[handle[g].id] = lineage[handle[h].id]

\* The right to insert is used once: a fresh session that was ever stored has
\* been claimed or is known to be persisted.
NeverStored(id) == \A j \in Stored : lineage[j] # lineage[id]

ClaimedOnceStored ==
    \A h \in Handles : Fresh(h) =>
        \/ FamilyOf(h).creation_claimed
        \/ FamilyOf(h).persisted_id # NoId
        \/ NeverStored(handle[h].id)

\* Saves and requests that may insert the first record of a lineage.
HasTicket(h) == handle[h].at \in {"lock", "write"} /\ handle[h].origin = NoId

TicketsAreUnique ==
    /\ \A h \in Handles : HasTicket(h) =>
         /\ FamilyOf(h).fresh /\ FamilyOf(h).creation_claimed
         /\ NeverStored(handle[h].id)
         /\ \A g \in Handles : HasTicket(g) /\ lineage[handle[g].id] = lineage[handle[h].id]
                                 => g = h
         /\ \A r \in flying : r.op = "insert" => lineage[r.id] # lineage[handle[h].id]
    /\ \A r \in flying : r.op = "insert" =>
         /\ family[maker[lineage[r.id]]].creation_claimed
         /\ NeverStored(r.id)
         /\ \A q \in flying : q.op = "insert" /\ lineage[q.id] = lineage[r.id] => q = r

\* A session that ended was stored before.
EndedWasStored == \A l \in ended : \E j \in gone : lineage[j] = l

IInv ==
    /\ TypeOK /\ HandlesAreSessions /\ DrawnIds /\ FreshIsUsed
    /\ PersistedIsStored /\ RotationsAreSound /\ OneSource /\ OriginsAreOwn
    /\ FreshLineage /\ ClaimedOnceStored /\ TicketsAreUnique /\ EndedWasStored
    /\ NoResurrection /\ NoFork /\ EndedStaysEnded

-----------------------------------------------------------------------------
(* Types.                                                                  *)

LEMMA NoSessionType == NoSession \in HandleStates
  BY DEF NoSession, HandleStates, Stages

\* Initially there are no sessions and no records.
LEMMA InitInv == Init => IInv
<1> SUFFICES ASSUME Init PROVE IInv
  OBVIOUS
<1>1. TypeOK
  <2>1. NewFamily \in FamilyStates
    BY DEF NewFamily, FamilyStates
  <2> QED
    BY <2>1, NoSessionType DEF Init, TypeOK
<1>2. \A h \in Handles : handle[h] = NoSession /\ ~Present(h) /\ ~HasTicket(h) /\ ~Fresh(h)
  BY DEF Init, NoSession, Present, HasTicket, Fresh
<1>3. Stored = {} /\ flying = {}
  BY DEF Init, Stored
<1>4. HandlesAreSessions /\ DrawnIds
  BY <1>2, <1>3 DEF HandlesAreSessions, DrawnIds, Init, NoSession
<1>5. PersistedIsStored /\ FreshIsUsed
  BY DEF PersistedIsStored, FreshIsUsed, Init, NewFamily
<1>6. RotationsAreSound /\ OneSource /\ OriginsAreOwn
  BY <1>2, <1>3 DEF RotationsAreSound, OneSource, OriginsAreOwn, NoSession
<1>7. FreshLineage /\ ClaimedOnceStored /\ TicketsAreUnique
  BY <1>2, <1>3 DEF FreshLineage, ClaimedOnceStored, TicketsAreUnique
<1>8. EndedWasStored /\ NoResurrection /\ NoFork /\ EndedStaysEnded
  BY DEF Init, EndedWasStored, NoResurrection, NoFork, EndedStaysEnded
<1> QED
  BY <1>1, <1>4, <1>5, <1>6, <1>7, <1>8 DEF IInv

\* A change of one family or of one handle keeps the types when the new value
\* has its type.
LEMMA FamilyTypes ==
  ASSUME TypeOK, NEW f, NEW x \in FamilyStates, family' = [family EXCEPT ![f] = x]
  PROVE  family' \in [Families -> FamilyStates]
  BY DEF TypeOK

LEMMA HandleTypes ==
  ASSUME TypeOK, NEW h \in Handles, NEW x \in HandleStates, handle' = [handle EXCEPT ![h] = x]
  PROVE  handle' \in [Handles -> HandleStates]
  BY DEF TypeOK

\* Discarding a handle keeps the types.
LEMMA DiscardTypes ==
  ASSUME TypeOK, NEW h \in Handles, Discard(h)
  PROVE  handle' \in [Handles -> HandleStates]
  BY NoSessionType, HandleTypes DEF Discard

\* A family's shared state stays a family's state when a flag goes up, the
\* lock changes hands or an identity is persisted.
LEMMA FlagTypes ==
  ASSUME NEW x \in FamilyStates, NEW b, NEW g \in Handles \cup {NoHandle},
         NEW i \in Ids \cup {NoId}
  PROVE  /\ [x EXCEPT !.creation_claimed = @ \/ b] \in FamilyStates
         /\ [x EXCEPT !.uncertain = @ \/ b] \in FamilyStates
         /\ [x EXCEPT !.destroy = TRUE] \in FamilyStates
         /\ [x EXCEPT !.holder = g] \in FamilyStates
         /\ [x EXCEPT !.holder = g, !.uncertain = @ \/ b] \in FamilyStates
         /\ [x EXCEPT !.persisted_id = i, !.holder = g] \in FamilyStates
         /\ [x EXCEPT !.used = TRUE, !.fresh = TRUE] \in FamilyStates
         /\ [x EXCEPT !.used = TRUE, !.persisted_id = i] \in FamilyStates
<1>1. [x EXCEPT !.creation_claimed = @ \/ b] \in FamilyStates
  BY DEF FamilyStates
<1>2. [x EXCEPT !.uncertain = @ \/ b] \in FamilyStates
  BY DEF FamilyStates
<1>3. [x EXCEPT !.holder = g, !.uncertain = @ \/ b] \in FamilyStates
  BY DEF FamilyStates
<1>4. /\ [x EXCEPT !.destroy = TRUE] \in FamilyStates
      /\ [x EXCEPT !.holder = g] \in FamilyStates
      /\ [x EXCEPT !.persisted_id = i, !.holder = g] \in FamilyStates
  BY DEF FamilyStates
<1>5. /\ [x EXCEPT !.used = TRUE, !.fresh = TRUE] \in FamilyStates
      /\ [x EXCEPT !.used = TRUE, !.persisted_id = i] \in FamilyStates
  BY DEF FamilyStates
<1> QED
  BY <1>1, <1>2, <1>3, <1>4, <1>5

\* A handle's state stays a handle's state when some fields change.
LEMMA FieldTypes ==
  ASSUME NEW x \in HandleStates, NEW s \in Stages, NEW b \in BOOLEAN,
         NEW f \in Families, NEW i \in Ids \cup {NoId}, NEW j \in Ids \cup {NoId}
  PROVE  /\ [x EXCEPT !.at = s] \in HandleStates
         /\ [x EXCEPT !.at = s, !.origin = i] \in HandleStates
         /\ [x EXCEPT !.at = s, !.target = i] \in HandleStates
         /\ [x EXCEPT !.at = s, !.uncertain_on_drop = b] \in HandleStates
         /\ [x EXCEPT !.at = s, !.family = f, !.id = i] \in HandleStates
         /\ [x EXCEPT !.rotation_from = j, !.id = i] \in HandleStates
  BY DEF HandleStates

\* The steps of the application keep the types.
LEMMA ApplicationTypes ==
  ASSUME TypeOK, HandlesAreSessions, NEW h \in Handles, ApplicationStep(h)
  PROVE  TypeOK'
<1> DEFINE f == handle[h].family
           p == FamilyOf(h).persisted_id
<1>0. Present(h) => /\ f \in Families /\ handle[h].id \in Ids
                    /\ family[f] \in FamilyStates /\ p \in Ids \cup {NoId}
  BY DEF HandlesAreSessions, TypeOK, FamilyOf, FamilyStates
<1>a. handle[h] \in HandleStates /\ handle[h].rotation_from \in Ids \cup {NoId}
  BY DEF TypeOK, HandleStates
<1>b. {"live", "lock", "write", "dlock", "delete"} \subseteq Stages
  BY DEF Stages
<1>c. TRUE \in BOOLEAN /\ FALSE \in BOOLEAN
  OBVIOUS
<1>1. ASSUME NEW e \in Families, NEW i \in Ids, New(h, e, i) PROVE TypeOK'
  <2>1. [handle[h] EXCEPT !.at = "live", !.family = e, !.id = i] \in HandleStates
    BY <1>a, <1>b, <1>c, FieldTypes
  <2>2. handle' = [handle EXCEPT ![h].at = "live", ![h].family = e, ![h].id = i]
    BY <1>1 DEF New
  <2>3. handle' \in [Handles -> HandleStates]
    BY <2>1, <2>2 DEF TypeOK
  <2>4. [family[e] EXCEPT !.used = TRUE, !.fresh = TRUE] \in FamilyStates
    BY FlagTypes, <1>1 DEF TypeOK
  <2>5. family' = [family EXCEPT ![e].used = TRUE, ![e].fresh = TRUE]
    BY <1>1 DEF New
  <2>6. family' \in [Families -> FamilyStates]
    BY <2>4, <2>5 DEF TypeOK
  <2> QED
    BY <1>1, <2>3, <2>6 DEF New, TypeOK
<1>2. ASSUME NEW g \in Handles, Clone(h, g) PROVE TypeOK'
  BY <1>2, <1>a, HandleTypes DEF Clone, TypeOK, history
<1>3. ASSUME NEW i \in Ids, Regenerate(h, i) PROVE TypeOK'
  <2> DEFINE s == IF p = handle[h].id \/ handle[h].rotation_from = p
                  THEN p ELSE handle[h].rotation_from
  <2>0. Present(h)
    BY <1>3 DEF Regenerate, Present
  <2>1. s \in Ids \cup {NoId}
    BY <1>0, <1>a, <2>0
  <2>2. [handle[h] EXCEPT !.rotation_from = s, !.id = i] \in HandleStates
    BY <1>0, <2>0, <1>a, <1>b, <1>c, <2>1, FieldTypes
  <2>3. handle' = [handle EXCEPT ![h].rotation_from = s, ![h].id = i]
    BY <1>3 DEF Regenerate
  <2>4. handle' \in [Handles -> HandleStates]
    BY <2>2, <2>3 DEF TypeOK
  <2> QED
    BY <1>0, <1>3, <2>0, <2>4 DEF Regenerate, TypeOK
<1>4. CASE Destroy(h)
  <2>1. Present(h)
    BY <1>4 DEF Destroy, Present
  <2>2. [family[f] EXCEPT !.destroy = TRUE] \in FamilyStates
    BY <2>1, <1>0, FlagTypes
  <2> QED
    BY <2>2, <1>4 DEF Destroy, TypeOK, history
<1>5. CASE DropHandle(h)
  BY <1>5, DiscardTypes DEF DropHandle, TypeOK, history
<1>6. CASE BeginSave(h)
  <2>1. Present(h)
    BY <1>6 DEF BeginSave, Present
  <2>2. [handle[h] EXCEPT !.at = "lock", !.origin = p] \in HandleStates
    BY <1>0, <2>1, <1>a, <1>b, <1>c, FieldTypes
  <2>3. handle' = [handle EXCEPT ![h].at = "lock", ![h].origin = p]
    BY <1>6 DEF BeginSave
  <2>4. handle' \in [Handles -> HandleStates]
    BY <2>2, <2>3 DEF TypeOK
  <2>5. [family[f] EXCEPT !.creation_claimed = @ \/ ClaimsCreation(p)] \in FamilyStates
    BY <1>0, <2>1, FlagTypes
  <2>6. family' = [family EXCEPT ![f].creation_claimed = @ \/ ClaimsCreation(p)]
    BY <1>6 DEF BeginSave
  <2>7. family' \in [Families -> FamilyStates]
    BY <2>5, <2>6 DEF TypeOK
  <2> QED
    BY <1>6, <2>4, <2>7 DEF BeginSave, TypeOK, history
<1>7. CASE RefuseSave(h)
  BY <1>7, DiscardTypes DEF RefuseSave, TypeOK, history
<1>8. CASE BeginBackendWrite(h)
  <2> DEFINE b == CanCreate(h) /\ CanOutliveFuture
  <2>1. Present(h) /\ b \in BOOLEAN
    BY <1>8 DEF BeginBackendWrite, Present
  <2>2. [handle[h] EXCEPT !.at = "write", !.uncertain_on_drop = b] \in HandleStates
    BY <1>0, <2>1, <1>a, <1>b, FieldTypes
  <2>3. handle' = [handle EXCEPT ![h].at = "write", ![h].uncertain_on_drop = b]
    BY <1>8 DEF BeginBackendWrite
  <2>4. handle' \in [Handles -> HandleStates]
    BY <2>2, <2>3 DEF TypeOK
  <2>5. [family[f] EXCEPT !.holder = h] \in FamilyStates
    BY <1>0, <2>1, FlagTypes
  <2>6. family' \in [Families -> FamilyStates]
    BY <1>8, <2>5 DEF TypeOK, BeginBackendWrite
  <2> QED
    BY <1>8, <2>4, <2>6 DEF BeginBackendWrite, TypeOK, history
<1>9. CASE RefuseBackendWrite(h)
  <2> DEFINE b == CanCreate(h) /\ CanOutliveFuture
  <2>1. Present(h)
    BY <1>9 DEF RefuseBackendWrite, Present
  <2>2. [family[f] EXCEPT !.uncertain = @ \/ b] \in FamilyStates
    BY <1>0, <2>1, FlagTypes
  <2>3. \/ family' = family
        \/ family' = [family EXCEPT ![f].uncertain = @ \/ b]
    BY <1>9 DEF RefuseBackendWrite
  <2>4. family' \in [Families -> FamilyStates]
    BY <2>2, <2>3 DEF TypeOK
  <2> QED
    BY <1>9, <2>4, DiscardTypes DEF RefuseBackendWrite, TypeOK, history
<1>10. CASE BeginDelete(h)
  <2>1. Present(h)
    BY <1>10 DEF BeginDelete, Present
  <2>2. [family[f] EXCEPT !.destroy = TRUE] \in FamilyStates
    BY <2>1, <1>0, FlagTypes
  <2>3. [handle[h] EXCEPT !.at = "dlock"] \in HandleStates
    BY <1>0, <2>1, <1>a, <1>b, <1>c, FieldTypes
  <2> QED
    BY <2>2, <2>3, <1>10 DEF BeginDelete, Move, TypeOK, history
<1>11. CASE EnterDelete(h)
  <2>1. Present(h)
    BY <1>11 DEF EnterDelete, Present
  <2>2. DeleteTarget(h) \in Ids \cup {NoId}
    BY <2>1, <1>0 DEF DeleteTarget
  <2>3. [handle[h] EXCEPT !.at = "delete", !.target = DeleteTarget(h)] \in HandleStates
    BY <1>0, <2>1, <2>2, <1>a, <1>b, <1>c, FieldTypes
  <2>4. handle' = [handle EXCEPT ![h].at = "delete", ![h].target = DeleteTarget(h)]
    BY <1>11 DEF EnterDelete
  <2>5. handle' \in [Handles -> HandleStates]
    BY <2>3, <2>4 DEF TypeOK
  <2>6. [family[f] EXCEPT !.holder = h] \in FamilyStates
    BY <1>0, <2>1, FlagTypes
  <2> QED
    BY <1>11, <2>5, <2>6 DEF EnterDelete, TypeOK, history
<1>12. CASE RefuseDelete(h)
  BY <1>12, DiscardTypes DEF RefuseDelete, TypeOK, history
<1> QED
  BY <1>1, <1>2, <1>3, <1>4, <1>5, <1>6, <1>7, <1>8, <1>9, <1>10, <1>11, <1>12
  DEF ApplicationStep

\* Removing records keeps their types: only drawn IDs end.
LEMMA EndTypes ==
  ASSUME TypeOK, DrawnIds, NEW ids, ids \subseteq Ids, EndRecords(ids)
  PROVE  records' \in SUBSET Ids /\ gone' \in SUBSET Ids /\ ended' \in SUBSET Ids
<1>1. \A i \in records : lineage[i] \in Ids
  BY DEF TypeOK, DrawnIds, Stored
<1> QED
  BY <1>1 DEF TypeOK, EndRecords

\* Releasing a write guard keeps the family's type.
LEMMA ReleaseTypes ==
  ASSUME TypeOK, HandlesAreSessions, NEW h \in Handles, Present(h), NEW settled,
         ReleaseWrite(h, settled)
  PROVE  family' \in [Families -> FamilyStates]
<1> DEFINE f == handle[h].family
           b == ~settled /\ handle[h].uncertain_on_drop
<1>1. f \in Families /\ family[f] \in FamilyStates
  BY DEF TypeOK, HandlesAreSessions
<1>2. [family[f] EXCEPT !.holder = NoHandle, !.uncertain = @ \/ b] \in FamilyStates
  BY <1>1, FlagTypes
<1>3. family' = [family EXCEPT ![f].holder = NoHandle, ![f].uncertain = @ \/ b]
  BY DEF ReleaseWrite
<1> QED
  BY <1>2, <1>3 DEF TypeOK

\* What a save or a deletion sends is a request.
LEMMA RequestTypes ==
  ASSUME TypeOK, HandlesAreSessions, NEW h \in Handles, Present(h)
  PROVE  /\ SaveRequest(h) \in Requests
         /\ DeleteRequest(handle[h].id) \in Requests
         /\ DeleteRequest(Replaced(h)) \in Requests
         /\ Replaced(h) \in Ids
<1>1. handle[h].id \in Ids /\ handle[h].origin \in Ids \cup {NoId}
  BY DEF TypeOK, HandlesAreSessions, HandleStates
<1>2. Replaced(h) \in Ids
  BY <1>1 DEF Replaced
<1> QED
  BY <1>1, <1>2 DEF SaveRequest, DeleteRequest, Requests

\* An abandoned save keeps the types.
LEMMA AbandonTypes ==
  ASSUME TypeOK, HandlesAreSessions, NEW h \in Handles, NEW s, s # "absent",
         NEW R \in SUBSET Requests, AbandonWrite(h, s, R)
  PROVE  TypeOK'
<1>1. Present(h)
  BY DEF AbandonWrite, Present
<1>2. family' \in [Families -> FamilyStates]
  BY <1>1, ReleaseTypes DEF AbandonWrite
<1>3. handle' \in [Handles -> HandleStates]
  BY DiscardTypes DEF AbandonWrite
<1>4. flying' \in SUBSET Requests
  BY DEF AbandonWrite, MayFly, TypeOK
<1> QED
  BY <1>2, <1>3, <1>4 DEF AbandonWrite, TypeOK, history

\* Every step keeps the types.
LEMMA NextTypes ==
  ASSUME TypeOK, HandlesAreSessions, DrawnIds, Next
  PROVE  TypeOK'
<1>1. ASSUME NEW h \in Handles, ApplicationStep(h) PROVE TypeOK'
  BY <1>1, ApplicationTypes
<1>2. ASSUME NEW h \in Handles, NEW f \in Families, NEW i \in Ids, Load(h, f, i) PROVE TypeOK'
  <2>1. handle[h] \in HandleStates /\ family[f] \in FamilyStates /\ "live" \in Stages
    BY DEF TypeOK, Stages
  <2>2. [handle[h] EXCEPT !.at = "live", !.family = f, !.id = i] \in HandleStates
    BY <2>1, FieldTypes
  <2>3. handle' = [handle EXCEPT ![h].at = "live", ![h].family = f, ![h].id = i]
    BY <1>2 DEF Load
  <2>4. handle' \in [Handles -> HandleStates]
    BY <2>2, <2>3 DEF TypeOK
  <2>5. [family[f] EXCEPT !.used = TRUE, !.persisted_id = i] \in FamilyStates
    BY <2>1, FlagTypes
  <2>6. family' = [family EXCEPT ![f].used = TRUE, ![f].persisted_id = i]
    BY <1>2 DEF Load
  <2>7. family' \in [Families -> FamilyStates]
    BY <2>5, <2>6 DEF TypeOK
  <2> QED
    BY <1>2, <2>4, <2>7 DEF Load, TypeOK, history
<1>3. ASSUME NEW h \in Handles, Put(h) PROVE TypeOK'
  <2>1. handle[h].id \in Ids /\ handle[h].family \in Families
    BY <1>3 DEF HandlesAreSessions, Put, Present
  <2>2. [handle[h] EXCEPT !.at = "wrote"] \in HandleStates
    BY DEF TypeOK, HandleStates, Stages
  <2>3. handle' \in [Handles -> HandleStates]
    BY <1>3, <2>2 DEF Put, Move, TypeOK
  <2>4. handle[h].origin \in Ids \cup {NoId}
    BY DEF TypeOK, HandleStates
  <2>5. records' \in SUBSET Ids /\ gone' \in SUBSET Ids /\ ended' = ended
    BY <1>3, <2>1, <2>4 DEF Put, Replace, TypeOK
  <2> QED
    BY <1>3, <2>3, <2>5 DEF Put, TypeOK
<1>4. ASSUME NEW h \in Handles, RejectPut(h) PROVE TypeOK'
  <2>1. Present(h)
    BY <1>4 DEF RejectPut, Present
  <2> QED
    BY <1>4, <2>1, ReleaseTypes, DiscardTypes DEF RejectPut, TypeOK, history
<1>5. ASSUME NEW h \in Handles, AbandonSave(h) PROVE TypeOK'
  <2>1. Present(h)
    BY <1>5 DEF AbandonSave, AbandonWrite, Present
  <2> DEFINE W == IF CanCreate(h) THEN {SaveRequest(h)} ELSE {}
             D == IF FamilyOf(h).destroy THEN {DeleteRequest(handle[h].id)} ELSE {}
  <2>2. W \in SUBSET Requests /\ D \in SUBSET Requests
    BY <2>1, RequestTypes
  <2>3. AbandonWrite(h, "write", W) \/ AbandonWrite(h, "wrote", D)
    BY <1>5 DEF AbandonSave
  <2> QED
    BY <2>2, <2>3, AbandonTypes
<1>6. ASSUME NEW h \in Handles, DiscardExpired(h) PROVE TypeOK'
  <2>1. Present(h)
    BY <1>6 DEF DiscardExpired, Present
  <2>2. records' \in SUBSET Ids /\ gone' \in SUBSET Ids /\ ended' \in SUBSET Ids
    BY <1>6, <2>1, RequestTypes, EndTypes DEF DiscardExpired
  <2> QED
    BY <1>6, <2>1, <2>2, ReleaseTypes, DiscardTypes DEF DiscardExpired, TypeOK
<1>7. ASSUME NEW h \in Handles, AbandonDiscard(h) PROVE TypeOK'
  <2>1. Present(h)
    BY <1>7 DEF AbandonDiscard, AbandonWrite, Present
  <2> QED
    BY <1>7, <2>1, RequestTypes, AbandonTypes DEF AbandonDiscard
<1>8. ASSUME NEW h \in Handles, CompleteSave(h) PROVE TypeOK'
  <2> DEFINE f == handle[h].family
  <2>1. handle[h].id \in Ids /\ f \in Families /\ family[f] \in FamilyStates
    BY <1>8 DEF HandlesAreSessions, CompleteSave, Present, TypeOK
  <2>2. MarkPersisted(h) \in Ids \cup {NoId}
    BY <2>1 DEF MarkPersisted, FamilyOf, FamilyStates
  <2>3. [family[f] EXCEPT !.persisted_id = MarkPersisted(h), !.holder = NoHandle] \in FamilyStates
    BY <2>1, <2>2, FlagTypes
  <2>4. family' = [family EXCEPT ![f].persisted_id = MarkPersisted(h), ![f].holder = NoHandle]
    BY <1>8 DEF CompleteSave
  <2>5. family' \in [Families -> FamilyStates]
    BY <2>3, <2>4 DEF TypeOK
  <2> QED
    BY <1>8, <2>5, DiscardTypes DEF CompleteSave, TypeOK, history
<1>9. ASSUME NEW h \in Handles, Compensate(h) PROVE TypeOK'
  <2>1. Present(h) /\ {handle[h].id} \subseteq Ids
    BY <1>9 DEF Compensate, Present, HandlesAreSessions
  <2>2. records' \in SUBSET Ids /\ gone' \in SUBSET Ids /\ ended' \in SUBSET Ids
    BY <1>9, <2>1, EndTypes DEF Compensate, CleansUp
  <2> QED
    BY <1>9, <2>1, <2>2, ReleaseTypes, DiscardTypes DEF Compensate, TypeOK
<1>10. ASSUME NEW h \in Handles, CompleteDelete(h) PROVE TypeOK'
  <2> DEFINE f == handle[h].family
  <2>1. f \in Families /\ family[f] \in FamilyStates /\ {handle[h].target} \subseteq Ids
    BY <1>10 DEF CompleteDelete, Present, HandlesAreSessions, TypeOK
  <2>2. records' \in SUBSET Ids /\ gone' \in SUBSET Ids /\ ended' \in SUBSET Ids
    BY <1>10, <2>1, EndTypes DEF CompleteDelete
  <2>3. [family[f] EXCEPT !.holder = NoHandle] \in FamilyStates
    BY <2>1, FlagTypes
  <2>4. family' \in [Families -> FamilyStates]
    BY <1>10, <2>3 DEF CompleteDelete, TypeOK
  <2> QED
    BY <1>10, <2>1, <2>2, <2>4, DiscardTypes DEF CompleteDelete, TypeOK
<1>11. ASSUME NEW h \in Handles, AbandonDelete(h) PROVE TypeOK'
  <2> DEFINE f == handle[h].family
  <2>1. f \in Families /\ family[f] \in FamilyStates /\ handle[h].target \in Ids
    BY <1>11 DEF AbandonDelete, Present, HandlesAreSessions, TypeOK
  <2>2. [family[f] EXCEPT !.holder = NoHandle] \in FamilyStates
    BY <2>1, FlagTypes
  <2>3. family' \in [Families -> FamilyStates]
    BY <1>11, <2>2 DEF AbandonDelete, TypeOK
  <2>4. DeleteRequest(handle[h].target) \in Requests
    BY <2>1 DEF DeleteRequest, Requests
  <2>5. flying' \in SUBSET Requests
    BY <1>11, <2>4 DEF AbandonDelete, MayFly, TypeOK
  <2> QED
    BY <1>11, <2>3, <2>5, DiscardTypes DEF AbandonDelete, TypeOK, history
<1>12. ASSUME NEW ids \in SUBSET records, ClearStore(ids) PROVE TypeOK'
  BY <1>12, EndTypes DEF ClearStore, TypeOK
<1>13. ASSUME NEW i \in Ids, Expire(i) PROVE TypeOK'
  BY <1>13, EndTypes DEF Expire, TypeOK
<1>14. ASSUME NEW r \in flying, LandLate(r) PROVE TypeOK'
  <2>1. r.id \in Ids /\ r.source \in Ids \cup {NoId}
    BY DEF TypeOK, Requests
  <2>2. records' \in SUBSET Ids /\ gone' \in SUBSET Ids /\ ended' \in SUBSET Ids
    <3>1. CASE r.op = "delete"
      BY <1>14, <2>1, <3>1, EndTypes DEF LandLate
    <3>2. CASE r.op # "delete"
      BY <1>14, <2>1, <3>2 DEF LandLate, Replace, TypeOK
    <3> QED
      BY <3>1, <3>2
  <2> QED
    BY <1>14, <2>2 DEF LandLate, TypeOK
<1> QED
  BY <1>1, <1>2, <1>3, <1>4, <1>5, <1>6, <1>7, <1>8, <1>9, <1>10, <1>11, <1>12, <1>13, <1>14
  DEF Next

-----------------------------------------------------------------------------
(* What most steps have in common: identities stay, saves move on or end.  *)

KeepsIdentity(h) ==
    /\ Present(h) /\ handle'[h].at # "absent"
    /\ handle'[h].family = handle[h].family
    /\ handle'[h].id = handle[h].id
    /\ handle'[h].rotation_from = handle[h].rotation_from
    /\ handle'[h].at = "delete" => handle'[h].target \in Ids

\* The family's claims and knowledge only grow.
KeepsFamily(f) ==
    /\ family'[f].used = family[f].used /\ family'[f].fresh = family[f].fresh
    /\ family[f].creation_claimed => family'[f].creation_claimed
    /\ \/ family'[f].persisted_id = family[f].persisted_id
       \/ family'[f].persisted_id \in Stored'

\* A request gets under way when the save that made it is abandoned.
FromAbandoned(r) ==
    \E h \in Handles : /\ handle[h].at = "write" /\ CanCreate(h)
                       /\ r = SaveRequest(h) /\ handle'[h] = NoSession

IdentitiesStay ==
    /\ lineage' = lineage /\ maker' = maker
    /\ Stored \subseteq Stored' /\ gone \subseteq gone'
    /\ \A h \in Handles : handle'[h] = NoSession \/ KeepsIdentity(h)
    /\ \A f \in Families : KeepsFamily(f)
    /\ \A r \in flying' : r \in flying \/ r.op = "delete" \/ FromAbandoned(r)

\* An ID is stored for the first time only if that was never done for its
\* rotations' sources, and with the authority of its family.
NewRecordsAllowed ==
    \A i \in Stored' \ Stored :
        /\ lineage[i] # NoId
        /\ \A h \in Handles : handle[h].rotation_from # NoId /\ handle[h].id = i =>
             handle[h].rotation_from \in gone'
        /\ \A r \in flying : r.op = "rotate" /\ r.id = i => r.source \in gone'
        /\ \A h \in Handles : Fresh(h) /\ lineage[handle[h].id] = lineage[i] =>
             FamilyOf(h).creation_claimed \/ FamilyOf(h).persisted_id # NoId

\* A save keeps its origin, and has written when its record is stored.
MovesOn(h) ==
    /\ handle'[h].at \in {"lock", "write"} =>
         handle[h].at \in {"lock", "write"} /\ handle'[h].origin = handle[h].origin
    /\ handle'[h].at = "wrote" => handle'[h].id \in Stored'

\* Saves move on, and none is a ticket for what is now stored.
SavesStay ==
    /\ \A h \in Handles : handle'[h] # NoSession => MovesOn(h)
    /\ \A i \in Stored' \ Stored :
         /\ \A h \in Handles : HasTicket(h) /\ lineage[handle[h].id] = lineage[i] =>
              handle'[h].at \notin {"lock", "write"}
         /\ \A r \in flying' : r.op = "insert" => lineage[r.id] # lineage[i]

\* Everything IInv says of handles, families and requests.
Identities ==
    /\ HandlesAreSessions /\ DrawnIds /\ FreshIsUsed /\ PersistedIsStored
    /\ RotationsAreSound /\ OneSource /\ FreshLineage /\ ClaimedOnceStored

Saves == OriginsAreOwn /\ TicketsAreUnique

\* Facts about an abandoned save's request.
LEMMA AbandonedRequest ==
  ASSUME IInv, NEW r, NEW h \in Handles, handle[h].at = "write", CanCreate(h),
         r = SaveRequest(h)
  PROVE  /\ r.id = handle[h].id /\ r.op # "delete" /\ lineage[r.id] # NoId
         /\ r.op = "insert" => HasTicket(h) /\ r.source = NoId
         /\ r.op = "rotate" => /\ r.source = handle[h].rotation_from
                               /\ r.source # NoId /\ r.source # r.id
<1>1. r.id = handle[h].id /\ r.op # "delete" /\ r.source = handle[h].origin
  BY DEF SaveRequest
<1>2. lineage[r.id] # NoId
  BY <1>1 DEF IInv, HandlesAreSessions, Present
<1>3. r.op = "insert" => handle[h].origin = NoId
  BY DEF SaveRequest
<1>4. r.op = "rotate" => handle[h].origin # NoId
  BY DEF SaveRequest
<1>5. r.op = "rotate" => handle[h].origin = handle[h].rotation_from
  BY <1>4 DEF IInv, OriginsAreOwn, CanCreate
<1> QED
  BY <1>1, <1>2, <1>3, <1>4, <1>5 DEF HasTicket, CanCreate

\* Steps of this kind keep what is known of identities.
LEMMA IdentitiesFrame ==
  ASSUME IInv, TypeOK', IdentitiesStay, NewRecordsAllowed
  PROVE  Identities'
<1> USE DEF IInv, IdentitiesStay
<1>1. HandlesAreSessions'
  <2> SUFFICES ASSUME NEW h \in Handles
               PROVE  /\ ~Present(h)' => handle'[h] = NoSession
                      /\ Present(h)' => /\ handle'[h].family \in Families
                                        /\ family'[handle'[h].family].used
                                        /\ handle'[h].id \in Ids
                                        /\ lineage'[handle'[h].id] # NoId
                      /\ handle'[h].at = "delete" => handle'[h].target \in Ids
    BY DEF HandlesAreSessions
  <2>1. CASE handle'[h] = NoSession
    BY <2>1 DEF Present, NoSession
  <2>2. CASE KeepsIdentity(h)
    BY <2>2 DEF HandlesAreSessions, KeepsIdentity, KeepsFamily, Present
  <2> QED
    BY <2>1, <2>2
<1>2. ASSUME NEW r \in flying', r.op # "delete"
      PROVE  r \in flying \/ FromAbandoned(r)
  BY <1>2
<1>3. DrawnIds'
  <2>1. \A i \in Stored' : lineage[i] # NoId
    BY DEF DrawnIds, NewRecordsAllowed
  <2>2. ASSUME NEW r \in flying', r.op # "delete" PROVE lineage[r.id] # NoId
    BY <2>2, <1>2, AbandonedRequest DEF DrawnIds, FromAbandoned
  <2> QED
    BY <2>1, <2>2 DEF DrawnIds
<1>4. PersistedIsStored' /\ FreshIsUsed'
  BY DEF PersistedIsStored, FreshIsUsed, KeepsFamily
<1>5. ASSUME NEW q, NEW i, RotationOf(q, i),
             i \in Stored' \ Stored => q \in gone'
      PROVE  RotationOf(q, i)'
  BY <1>5 DEF RotationOf
<1>6. ASSUME NEW h \in Handles, NEW q, NEW i, q # NoId,
             q = handle[h].rotation_from, i = handle[h].id
      PROVE  RotationOf(q, i)'
  BY <1>6, <1>5 DEF RotationsAreSound, NewRecordsAllowed
<1>7. ASSUME NEW h \in Handles, handle'[h].rotation_from # NoId
      PROVE  /\ handle'[h].rotation_from = handle[h].rotation_from
             /\ handle'[h].id = handle[h].id
  BY <1>7 DEF KeepsIdentity, NoSession
<1>8. ASSUME NEW r \in flying', r.op = "rotate"
      PROVE  \/ r \in flying
             \/ \E h \in Handles : /\ handle[h].rotation_from # NoId
                                   /\ r.source = handle[h].rotation_from
                                   /\ r.id = handle[h].id /\ r.source # r.id
  BY <1>8, <1>2, AbandonedRequest DEF FromAbandoned
<1>9. RotationsAreSound'
  <2>1. ASSUME NEW h \in Handles, handle'[h].rotation_from # NoId
        PROVE  RotationOf(handle[h].rotation_from, handle[h].id)'
    BY <2>1, <1>6, <1>7
  <2>2. ASSUME NEW r \in flying', r.op = "rotate"
        PROVE  r.source # NoId /\ r.source # r.id /\ RotationOf(r.source, r.id)'
    <3>1. CASE r \in flying
      BY <2>2, <3>1, <1>5 DEF RotationsAreSound, NewRecordsAllowed
    <3>2. CASE r \notin flying
      BY <2>2, <3>2, <1>8, <1>6
    <3> QED
      BY <3>1, <3>2
  <2>3. ASSUME NEW r \in flying', r.op = "insert" PROVE r.source = NoId
    BY <2>3, <1>2, AbandonedRequest DEF RotationsAreSound, FromAbandoned
  <2> QED
    BY <2>1, <2>2, <2>3, <1>7 DEF RotationsAreSound
<1>10. OneSource'
  <2>1. ASSUME NEW g \in Handles, NEW h \in Handles,
               handle'[g].rotation_from # NoId, handle'[h].rotation_from # NoId,
               handle'[g].id = handle'[h].id
        PROVE  handle'[g].rotation_from = handle'[h].rotation_from
    BY <2>1, <1>7 DEF OneSource
  <2>2. ASSUME NEW h \in Handles, NEW r \in flying',
               handle'[h].rotation_from # NoId, r.op = "rotate", handle'[h].id = r.id
        PROVE  handle'[h].rotation_from = r.source
    BY <2>2, <1>7, <1>8 DEF OneSource
  <2>3. ASSUME NEW q \in flying', NEW r \in flying', q.op = "rotate", r.op = "rotate", q.id = r.id
        PROVE  q.source = r.source
    BY <2>3, <1>8 DEF OneSource
  <2> QED
    BY <2>1, <2>2, <2>3 DEF OneSource
<1>11. ASSUME NEW h \in Handles, Fresh(h)'
       PROVE  Fresh(h) /\ handle'[h].family = handle[h].family /\ handle'[h].id = handle[h].id
  <2>1. KeepsIdentity(h)
    BY <1>11 DEF Fresh, Present, NoSession
  <2>2. handle[h].family \in Families
    BY <2>1 DEF KeepsIdentity, HandlesAreSessions
  <2> QED
    BY <1>11, <2>1, <2>2 DEF Fresh, FamilyOf, KeepsIdentity, KeepsFamily
<1>12. FreshLineage'
  <2>1. ASSUME NEW g \in Handles, Present(g)' PROVE KeepsIdentity(g)
    BY <2>1 DEF Present, NoSession
  <2> QED
    BY <2>1, <1>11 DEF FreshLineage, KeepsIdentity
<1>13. ClaimedOnceStored'
  <2> SUFFICES ASSUME NEW h \in Handles, Fresh(h)'
               PROVE  \/ FamilyOf(h).creation_claimed'
                      \/ FamilyOf(h).persisted_id' # NoId
                      \/ NeverStored(handle[h].id)'
    BY DEF ClaimedOnceStored
  <2>1. Fresh(h) /\ handle'[h].family = handle[h].family /\ handle'[h].id = handle[h].id
    BY <1>11
  <2>2. handle[h].family \in Families
    BY <2>1 DEF Fresh, HandlesAreSessions
  <2>3. FamilyOf(h).creation_claimed => FamilyOf(h).creation_claimed'
    BY <2>1, <2>2 DEF FamilyOf, KeepsFamily
  <2>4. NoId \notin Stored'
    BY NoneAssumption DEF Stored, TypeOK
  <2>5. FamilyOf(h).persisted_id # NoId => FamilyOf(h).persisted_id' # NoId
    BY <2>1, <2>2, <2>4 DEF FamilyOf, KeepsFamily
  <2>6. CASE NeverStored(handle[h].id)
    BY <2>1, <2>3, <2>5, <2>6 DEF NeverStored, NewRecordsAllowed
  <2> QED
    BY <2>1, <2>3, <2>5, <2>6 DEF ClaimedOnceStored
<1> QED
  BY <1>1, <1>3, <1>4, <1>9, <1>10, <1>12, <1>13 DEF Identities

\* The lineage of a request that may insert belongs to a family.
LEMMA RootFamily ==
  ASSUME IInv, NEW i \in Ids, lineage[i] # NoId
  PROVE  maker[lineage[i]] \in Families
  BY DEF IInv, TypeOK, DrawnIds

\* Steps of this kind keep what is known of saves.
LEMMA SavesFrame ==
  ASSUME IInv, TypeOK', IdentitiesStay, SavesStay
  PROVE  Saves'
<1> USE DEF IInv, IdentitiesStay
<1>1. OriginsAreOwn'
  BY DEF OriginsAreOwn, SavesStay, MovesOn, KeepsIdentity, NoSession
<1>2. ASSUME NEW h \in Handles, HasTicket(h)'
      PROVE  /\ HasTicket(h) /\ KeepsIdentity(h) /\ handle'[h] # NoSession
             /\ handle'[h].at \in {"lock", "write"} /\ handle[h].family \in Families
  <2>1. handle'[h] # NoSession
    BY <1>2 DEF HasTicket, NoSession
  <2> QED
    BY <1>2, <2>1 DEF HasTicket, SavesStay, MovesOn, KeepsIdentity, HandlesAreSessions
<1>3. ASSUME NEW r \in flying', r.op = "insert"
      PROVE  \/ r \in flying
             \/ \E h \in Handles : /\ HasTicket(h) /\ r = SaveRequest(h)
                                   /\ r.id = handle[h].id /\ handle'[h] = NoSession
  BY <1>3, AbandonedRequest DEF FromAbandoned
<1>4. ASSUME NEW h \in Handles, HasTicket(h)'
      PROVE  /\ FamilyOf(h).fresh' /\ FamilyOf(h).creation_claimed'
             /\ NeverStored(handle[h].id)'
             /\ \A g \in Handles : HasTicket(g)' /\ lineage'[handle'[g].id] = lineage'[handle'[h].id]
                                     => g = h
             /\ \A r \in flying' : r.op = "insert" => lineage'[r.id] # lineage'[handle'[h].id]
  <2>1. /\ HasTicket(h) /\ KeepsIdentity(h) /\ handle[h].family \in Families
        /\ handle'[h].at \in {"lock", "write"} /\ handle'[h] # NoSession
    BY <1>4, <1>2
  <2>2. FamilyOf(h).fresh' /\ FamilyOf(h).creation_claimed'
    BY <2>1 DEF TicketsAreUnique, FamilyOf, KeepsIdentity, KeepsFamily
  <2>3. NeverStored(handle[h].id)'
    BY <2>1 DEF NeverStored, TicketsAreUnique, SavesStay, KeepsIdentity
  <2>4. ASSUME NEW g \in Handles, HasTicket(g)', lineage'[handle'[g].id] = lineage'[handle'[h].id]
        PROVE  g = h
    BY <2>1, <2>4, <1>2 DEF TicketsAreUnique, KeepsIdentity
  <2>5. ASSUME NEW r \in flying', r.op = "insert"
        PROVE  lineage'[r.id] # lineage'[handle'[h].id]
    BY <2>1, <2>5, <1>3 DEF TicketsAreUnique, KeepsIdentity
  <2> QED
    BY <2>2, <2>3, <2>4, <2>5
<1>5. ASSUME NEW r \in flying', r.op = "insert"
      PROVE  /\ family'[maker[lineage[r.id]]].creation_claimed
             /\ NeverStored(r.id)'
             /\ \A q \in flying' : q.op = "insert" /\ lineage'[q.id] = lineage'[r.id] => q = r
  <2>1. family[maker[lineage[r.id]]].creation_claimed /\ NeverStored(r.id)
    <3>1. CASE r \in flying
      BY <1>5, <3>1 DEF TicketsAreUnique
    <3>2. CASE r \notin flying
      <4>1. PICK h \in Handles : HasTicket(h) /\ r.id = handle[h].id
        BY <1>5, <3>2, <1>3
      <4>2. Fresh(h)
        BY <4>1 DEF TicketsAreUnique, Fresh, HasTicket, Present
      <4> QED
        BY <4>1, <4>2 DEF TicketsAreUnique, FreshLineage, FamilyOf
    <3> QED
      BY <3>1, <3>2
  <2>2. r.id \in Ids /\ lineage[r.id] # NoId
    <3>1. r.id \in Ids
      BY DEF TypeOK, Requests
    <3>2. CASE r \in flying
      BY <1>5, <3>1, <3>2 DEF DrawnIds
    <3>3. CASE r \notin flying
      <4>1. PICK h \in Handles : HasTicket(h) /\ r.id = handle[h].id
        BY <1>5, <3>3, <1>3
      <4> QED
        BY <4>1 DEF HandlesAreSessions, HasTicket, Present
    <3> QED
      BY <3>1, <3>2, <3>3
  <2>3. family'[maker[lineage[r.id]]].creation_claimed
    BY <2>1, <2>2, RootFamily DEF KeepsFamily
  <2>4. NeverStored(r.id)'
    BY <2>1, <1>5 DEF NeverStored, SavesStay
  <2>5. ASSUME NEW q \in flying', q.op = "insert", lineage[q.id] = lineage[r.id]
        PROVE  q = r
    BY <2>5, <1>3, <1>5 DEF TicketsAreUnique
  <2> QED
    BY <2>3, <2>4, <2>5
<1>6. TicketsAreUnique'
  BY <1>4, <1>5 DEF TicketsAreUnique
<1> QED
  BY <1>1, <1>6 DEF Saves

-----------------------------------------------------------------------------
(* The records.                                                            *)

Records == EndedWasStored /\ NoResurrection /\ NoFork /\ EndedStaysEnded

\* The parts of the invariant.
LEMMA InvParts == IInv <=> TypeOK /\ Identities /\ Saves /\ Records
  BY DEF IInv, Identities, Saves, Records

\* A step that leaves the records alone keeps what is known of them.
LEMMA RecordsFrame ==
  ASSUME IInv, UNCHANGED <<records, gone, ended>>,
         \A i \in Stored : lineage'[i] = lineage[i]
  PROVE  Records' /\ Stored' = Stored
  BY DEF IInv, Records, Stored, EndedWasStored, NoResurrection, NoFork, EndedStaysEnded

\* Removing records ends their lineages, which have no other record.
LEMMA RecordsEnd ==
  ASSUME IInv, NEW ids, EndRecords(ids), lineage' = lineage
  PROVE  Records' /\ Stored' = Stored /\ gone \subseteq gone'
<1>1. Stored' = Stored /\ gone \subseteq gone'
  BY DEF EndRecords, Stored
<1>2. EndedWasStored'
  BY DEF IInv, EndedWasStored, EndRecords
<1>3. NoResurrection'
  BY DEF IInv, NoResurrection, EndRecords
<1>4. NoFork'
  BY DEF IInv, NoFork, EndRecords
<1>5. EndedStaysEnded'
  BY DEF IInv, NoFork, EndedStaysEnded, EndRecords
<1> QED
  BY <1>1, <1>2, <1>3, <1>4, <1>5 DEF Records

\* Creating a record keeps lineages apart, if the new ID was never stored and
\* its lineage has no record but the one that is replaced.
LEMMA RecordsCreate ==
  ASSUME IInv, NEW source, NEW id, source # id, Replace(source, id), lineage' = lineage,
         id \notin Stored,
         source = NoId => NeverStored(id),
         source # NoId => source \in records /\ lineage[source] = lineage[id]
  PROVE  Records' /\ Stored' = Stored \cup {id} /\ gone \subseteq gone'
<1>0. NoId \notin Stored
  BY NoneAssumption DEF IInv, TypeOK, Stored
<1>1. records' = (records \ {source}) \cup {id} /\ ended' = ended
  BY DEF Replace
<1>2. gone' = IF source = NoId THEN gone ELSE gone \cup {source}
  BY DEF Replace
<1>3. Stored' = Stored \cup {id} /\ gone \subseteq gone'
  BY <1>0, <1>1, <1>2 DEF Stored
<1>4. \A j \in records' : j # id => lineage[j] # lineage[id]
  BY <1>1 DEF IInv, NoFork, NeverStored, Stored
<1>5. EndedWasStored'
  BY <1>1, <1>3 DEF IInv, EndedWasStored
<1>6. NoResurrection'
  BY <1>0, <1>1, <1>2 DEF IInv, NoResurrection, Stored
<1>7. NoFork'
  BY <1>1, <1>4 DEF IInv, NoFork
<1>8. lineage[id] \notin ended
  BY DEF IInv, EndedStaysEnded, EndedWasStored, NeverStored, Stored
<1>9. EndedStaysEnded'
  BY <1>1, <1>8 DEF IInv, EndedStaysEnded
<1> QED
  BY <1>3, <1>5, <1>6, <1>7, <1>9 DEF Records

-----------------------------------------------------------------------------
(* The steps.                                                              *)

\* A step of one handle leaves the others as they are.
LEMMA HandleFrame ==
  ASSUME IInv, NEW h \in Handles, Stored \subseteq Stored',
         \A g \in Handles \ {h} : handle'[g] = handle[g],
         handle'[h] = NoSession \/ (KeepsIdentity(h) /\ MovesOn(h))
  PROVE  /\ \A g \in Handles : handle'[g] = NoSession \/ KeepsIdentity(g)
         /\ \A g \in Handles : handle'[g] # NoSession => MovesOn(g)
<1>1. ASSUME NEW g \in Handles, handle'[g] = handle[g]
      PROVE  handle'[g] = NoSession \/ (KeepsIdentity(g) /\ MovesOn(g))
  <2>1. CASE ~Present(g)
    BY <1>1, <2>1 DEF IInv, HandlesAreSessions
  <2>2. CASE Present(g)
    BY <1>1, <2>2 DEF IInv, HandlesAreSessions, OriginsAreOwn, KeepsIdentity, MovesOn, Present
  <2> QED
    BY <2>1, <2>2
<1> QED
  BY <1>1

\* The same for a handle that is discarded.
LEMMA DiscardFrame ==
  ASSUME IInv, NEW h \in Handles, Stored \subseteq Stored', Discard(h)
  PROVE  /\ handle'[h] = NoSession
         /\ \A g \in Handles : handle'[g] = NoSession \/ KeepsIdentity(g)
         /\ \A g \in Handles : handle'[g] # NoSession => MovesOn(g)
<1>1. handle'[h] = NoSession /\ \A g \in Handles \ {h} : handle'[g] = handle[g]
  BY DEF Discard, IInv, TypeOK
<1> QED
  BY <1>1, HandleFrame

\* A step that keeps identities, saves and the set of stored IDs.
LEMMA QuietStep ==
  ASSUME IInv, TypeOK', Records', lineage' = lineage, maker' = maker,
         Stored' = Stored, gone \subseteq gone',
         \A h \in Handles : handle'[h] = NoSession \/ KeepsIdentity(h),
         \A h \in Handles : handle'[h] # NoSession => MovesOn(h),
         \A f \in Families : KeepsFamily(f),
         \A r \in flying' : r \in flying \/ r.op = "delete" \/ FromAbandoned(r)
  PROVE  IInv'
<1>1. IdentitiesStay
  BY DEF IdentitiesStay
<1>2. NewRecordsAllowed /\ SavesStay
  BY DEF NewRecordsAllowed, SavesStay
<1>3. Identities' /\ Saves'
  BY <1>1, <1>2, IdentitiesFrame, SavesFrame
<1> QED
  BY <1>3 DEF IInv, Identities, Saves, Records

\* Flags and the lock are not what the invariant is about.
LEMMA LockFrame ==
  ASSUME IInv, NEW f \in Families, NEW b, NEW g,
         \/ family' = family
         \/ family' = [family EXCEPT ![f].destroy = TRUE]
         \/ family' = [family EXCEPT ![f].holder = g]
         \/ family' = [family EXCEPT ![f].uncertain = @ \/ b]
         \/ family' = [family EXCEPT ![f].holder = g, ![f].uncertain = @ \/ b]
  PROVE  \A e \in Families : KeepsFamily(e)
<1> SUFFICES ASSUME NEW e \in Families PROVE KeepsFamily(e)
  OBVIOUS
<1>1. /\ family'[e].used = family[e].used
      /\ family'[e].fresh = family[e].fresh
      /\ family'[e].creation_claimed = family[e].creation_claimed
      /\ family'[e].persisted_id = family[e].persisted_id
  BY DEF IInv, TypeOK, FamilyStates
<1> QED
  BY <1>1 DEF KeepsFamily

LEMMA ReleaseFrame ==
  ASSUME IInv, NEW h \in Handles, Present(h), NEW settled, ReleaseWrite(h, settled)
  PROVE  \A e \in Families : KeepsFamily(e)
<1> DEFINE f == handle[h].family
           b == ~settled /\ handle[h].uncertain_on_drop
<1>1. f \in Families
  BY DEF IInv, HandlesAreSessions
<1>2. family' = [family EXCEPT ![f].holder = NoHandle, ![f].uncertain = @ \/ b]
  BY DEF ReleaseWrite
<1> QED
  BY <1>1, <1>2, LockFrame

\* A step that draws an ID: nothing refers to it yet, and the others stay.
LEMMA DrawFrame ==
  ASSUME IInv, NEW i \in Ids, NEW e, NEW l, maker[i] = NoFamily,
         maker' = [maker EXCEPT ![i] = e], lineage' = [lineage EXCEPT ![i] = l],
         UNCHANGED <<records, gone>>
  PROVE  /\ \A j \in Ids : j # i => lineage'[j] = lineage[j] /\ maker'[j] = maker[j]
         /\ lineage'[i] = l /\ maker'[i] = e /\ lineage[i] = NoId
         /\ \A j \in Ids : lineage[j] # i
         /\ Stored' = Stored /\ i \notin Stored
         /\ \A j \in Stored : j \in Ids /\ lineage'[j] = lineage[j]
         /\ \A g \in Handles : Present(g) =>
              /\ handle[g].id \in Ids /\ handle[g].id # i
              /\ lineage'[handle[g].id] = lineage[handle[g].id]
         /\ \A r \in flying : r.op # "delete" =>
              r.id \in Ids /\ r.id # i /\ lineage'[r.id] = lineage[r.id]
<1>1. /\ \A j \in Ids : j # i => lineage'[j] = lineage[j] /\ maker'[j] = maker[j]
      /\ lineage'[i] = l /\ maker'[i] = e
  BY DEF IInv, TypeOK
<1>2. lineage[i] = NoId
  BY DEF IInv, DrawnIds
<1>3. \A j \in Ids : lineage[j] # i
  BY NoneAssumption DEF IInv, DrawnIds
<1>4. Stored' = Stored /\ Stored \subseteq Ids
  BY DEF IInv, TypeOK, Stored
<1>5. i \notin Stored
  BY <1>2 DEF IInv, DrawnIds
<1>6. \A j \in Stored : j \in Ids /\ lineage'[j] = lineage[j]
  BY <1>1, <1>4, <1>5
<1>7. \A g \in Handles : Present(g) =>
        /\ handle[g].id \in Ids /\ handle[g].id # i
        /\ lineage'[handle[g].id] = lineage[handle[g].id]
  BY <1>1, <1>2 DEF IInv, HandlesAreSessions
<1>8. \A r \in flying : r.op # "delete" =>
        r.id \in Ids /\ r.id # i /\ lineage'[r.id] = lineage[r.id]
  BY <1>1, <1>2 DEF IInv, DrawnIds, TypeOK, Requests
<1> QED
  BY <1>1, <1>2, <1>3, <1>4, <1>5, <1>6, <1>7, <1>8

\* Session::new starts a lineage that nobody else has.
LEMMA NewStep ==
  ASSUME IInv, TypeOK', NEW h \in Handles, NEW e \in Families, NEW i \in Ids, New(h, e, i)
  PROVE  IInv'
<1>1. /\ handle[h] = NoSession /\ ~family[e].used /\ maker[i] = NoFamily
      /\ \A g \in Handles : Present(g) => handle[g].family # e
  BY DEF New, IInv, HandlesAreSessions, Present
<1>0. /\ maker[i] = NoFamily /\ UNCHANGED <<records, gone>>
      /\ maker' = [maker EXCEPT ![i] = e] /\ lineage' = [lineage EXCEPT ![i] = i]
  BY DEF New
<1>2. /\ \A j \in Ids : j # i => lineage'[j] = lineage[j] /\ maker'[j] = maker[j]
      /\ lineage'[i] = i /\ maker'[i] = e /\ lineage[i] = NoId
      /\ \A j \in Ids : lineage[j] # i
  <2>1. lineage'[i] = i /\ maker'[i] = e
    BY <1>0 DEF IInv, TypeOK
  <2>2. lineage[i] = NoId /\ \A j \in Ids : lineage[j] # i
    BY <1>0, DrawFrame
  <2>3. \A j \in Ids : j # i => lineage'[j] = lineage[j] /\ maker'[j] = maker[j]
    BY <1>0, DrawFrame
  <2> QED
    BY <2>1, <2>2, <2>3
<1>3. UNCHANGED <<records, flying, gone, ended>> /\ Stored' = Stored
  BY DEF New, Stored
<1>4. /\ handle'[h].at = "live" /\ handle'[h].family = e /\ handle'[h].id = i
      /\ handle'[h].rotation_from = NoId
      /\ \A g \in Handles \ {h} : handle'[g] = handle[g]
  BY <1>1 DEF New, IInv, TypeOK, NoSession
<1>5. /\ family'[e].used /\ family'[e].fresh
      /\ \A f \in Families \ {e} : family'[f] = family[f]
      /\ \A f \in Families : /\ family'[f].persisted_id = family[f].persisted_id
                             /\ family'[f].creation_claimed = family[f].creation_claimed
  BY DEF New, IInv, TypeOK, FamilyStates
<1>6. i \notin Stored /\ \A j \in Stored : j \in Ids /\ lineage'[j] = lineage[j]
  BY <1>0, DrawFrame
<1>7. \A g \in Handles : Present(g) /\ g # h =>
        handle[g].id # i /\ lineage'[handle[g].id] = lineage[handle[g].id]
  BY <1>0, DrawFrame
<1>8. \A r \in flying : r.op # "delete" =>
        r.id \in Ids /\ r.id # i /\ lineage'[r.id] = lineage[r.id]
  BY <1>0, DrawFrame
<1>9. HandlesAreSessions'
  <2> SUFFICES ASSUME NEW g \in Handles
               PROVE  /\ ~Present(g)' => handle'[g] = NoSession
                      /\ Present(g)' => /\ handle'[g].family \in Families
                                        /\ family'[handle'[g].family].used
                                        /\ handle'[g].id \in Ids
                                        /\ lineage'[handle'[g].id] # NoId
                      /\ handle'[g].at = "delete" => handle'[g].target \in Ids
    BY DEF HandlesAreSessions
  <2>1. CASE g = h
    BY <2>1, <1>2, <1>4, <1>5, NoneAssumption DEF Present
  <2>2. CASE g # h
    BY <2>2, <1>4, <1>5, <1>7 DEF IInv, HandlesAreSessions, Present
  <2> QED
    BY <2>1, <2>2
<1>10. DrawnIds'
  <2>1. ASSUME NEW j \in Ids, lineage'[j] # NoId
        PROVE  maker'[j] # NoFamily /\ maker'[lineage'[j]] # NoFamily
    BY <2>1, <1>2, NoneAssumption DEF IInv, DrawnIds, TypeOK
  <2> QED
    BY <2>1, <1>3, <1>6, <1>8 DEF IInv, DrawnIds
<1>11. FreshIsUsed' /\ PersistedIsStored'
  BY <1>3, <1>5 DEF IInv, FreshIsUsed, PersistedIsStored
<1>12. ASSUME NEW q, NEW j \in Ids, j # i, RotationOf(q, j) PROVE RotationOf(q, j)'
  BY <1>12, <1>2, <1>3, <1>6 DEF RotationOf
<1>13. ASSUME NEW g \in Handles, handle'[g].rotation_from # NoId
       PROVE  /\ g # h /\ handle'[g] = handle[g] /\ handle[g].id # i /\ handle[g].id \in Ids
  BY <1>13, <1>4, <1>7 DEF IInv, HandlesAreSessions, NoSession
<1>14. RotationsAreSound'
  <2>1. ASSUME NEW g \in Handles, handle'[g].rotation_from # NoId, NEW q, NEW j,
               q = handle'[g].rotation_from, j = handle'[g].id
        PROVE  RotationOf(q, j)'
    BY <2>1, <1>12, <1>13 DEF IInv, RotationsAreSound
  <2>2. ASSUME NEW r \in flying, r.op = "rotate"
        PROVE  r.source # NoId /\ r.source # r.id /\ RotationOf(r.source, r.id)'
    BY <2>2, <1>8, <1>12 DEF IInv, RotationsAreSound
  <2> QED
    BY <2>1, <2>2, <1>3 DEF IInv, RotationsAreSound
<1>15. OneSource'
  BY <1>3, <1>13 DEF IInv, OneSource
<1>16. OriginsAreOwn'
  BY <1>3, <1>4 DEF IInv, OriginsAreOwn
<1>17. ASSUME NEW g \in Handles, Fresh(g)', g # h
       PROVE  /\ Fresh(g) /\ handle'[g] = handle[g] /\ handle[g].family # e
              /\ handle[g].family \in Families
  <2>1. Present(g) /\ handle'[g] = handle[g]
    BY <1>17, <1>4 DEF Fresh, Present
  <2> QED
    BY <2>1, <1>1, <1>5, <1>17 DEF Fresh, FamilyOf, IInv, HandlesAreSessions
<1>18. FreshLineage'
  <2>1. ASSUME NEW g \in Handles, Fresh(g)', g # h
        PROVE  /\ maker'[lineage'[handle'[g].id]] = handle'[g].family
               /\ \A k \in Handles : Present(k)' /\ handle'[k].family = handle'[g].family =>
                    lineage'[handle'[k].id] = lineage'[handle'[g].id]
    <3>1. Fresh(g) /\ handle'[g] = handle[g] /\ Present(g) /\ handle[g].family # e
      BY <2>1, <1>17 DEF Fresh
    <3>2. lineage[handle[g].id] \in Ids /\ lineage[handle[g].id] # i
      BY <3>1, <1>2 DEF IInv, HandlesAreSessions, TypeOK
    <3>3. maker'[lineage'[handle'[g].id]] = handle'[g].family
      BY <2>1, <3>1, <3>2, <1>2, <1>7 DEF IInv, FreshLineage
    <3>4. ASSUME NEW k \in Handles, Present(k)', handle'[k].family = handle'[g].family
          PROVE  lineage'[handle'[k].id] = lineage'[handle'[g].id]
      <4>1. k # h /\ handle'[k] = handle[k] /\ Present(k)
        BY <3>1, <3>4, <1>4 DEF Present
      <4> QED
        BY <4>1, <2>1, <3>1, <3>4, <1>7 DEF IInv, FreshLineage
    <3> QED
      BY <3>3, <3>4
  <2>2. /\ maker'[lineage'[handle'[h].id]] = handle'[h].family
        /\ \A k \in Handles : Present(k)' /\ handle'[k].family = handle'[h].family =>
             lineage'[handle'[k].id] = lineage'[handle'[h].id]
    BY <1>1, <1>2, <1>4 DEF Present
  <2> QED
    BY <2>1, <2>2 DEF FreshLineage
<1>19. ASSUME NEW j \in Ids, j # i, NeverStored(j) PROVE NeverStored(j)'
  BY <1>19, <1>2, <1>3, <1>6 DEF NeverStored
<1>20. ClaimedOnceStored'
  <2>1. \A j \in Stored' : lineage'[j] # i
    BY <1>2, <1>3, <1>6
  <2>2. NeverStored(handle[h].id)'
    BY <2>1, <1>2, <1>4 DEF NeverStored
  <2>3. ASSUME NEW g \in Handles, Fresh(g)', g # h
        PROVE  \/ FamilyOf(g).creation_claimed'
               \/ FamilyOf(g).persisted_id' # NoId
               \/ NeverStored(handle[g].id)'
    <3>1. Fresh(g) /\ handle'[g] = handle[g] /\ handle[g].family \in Families /\ Present(g)
      BY <2>3, <1>17 DEF Fresh
    <3>2. handle[g].id \in Ids /\ handle[g].id # i
      BY <2>3, <3>1, <1>7 DEF IInv, HandlesAreSessions
    <3>3. NeverStored(handle[g].id) => NeverStored(handle[g].id)'
      BY <3>1, <3>2, <1>19
    <3> QED
      BY <3>1, <3>3, <1>5 DEF IInv, ClaimedOnceStored, FamilyOf
  <2> QED
    BY <2>2, <2>3 DEF ClaimedOnceStored
<1>21. ASSUME NEW g \in Handles, HasTicket(g)'
       PROVE  /\ g # h /\ handle'[g] = handle[g] /\ HasTicket(g) /\ Present(g)
              /\ handle[g].id \in Ids /\ handle[g].id # i
              /\ handle[g].family \in Families /\ handle[g].family # e
  BY <1>21, <1>1, <1>4, <1>7 DEF HasTicket, Present, IInv, HandlesAreSessions
<1>22. TicketsAreUnique'
  <2>1. ASSUME NEW g \in Handles, HasTicket(g)'
        PROVE  /\ FamilyOf(g).fresh' /\ FamilyOf(g).creation_claimed'
               /\ NeverStored(handle[g].id)'
               /\ \A k \in Handles : HasTicket(k)' /\ lineage'[handle'[k].id] = lineage'[handle'[g].id]
                                       => k = g
               /\ \A r \in flying : r.op = "insert" => lineage'[r.id] # lineage'[handle'[g].id]
    <3>1. FamilyOf(g).fresh' /\ FamilyOf(g).creation_claimed'
      BY <2>1, <1>5, <1>21 DEF IInv, TicketsAreUnique, FamilyOf
    <3>2. NeverStored(handle[g].id)'
      BY <2>1, <1>19, <1>21 DEF IInv, TicketsAreUnique
    <3>3. ASSUME NEW k \in Handles, HasTicket(k)', lineage'[handle'[k].id] = lineage'[handle'[g].id]
          PROVE  k = g
      BY <2>1, <3>3, <1>7, <1>21 DEF IInv, TicketsAreUnique
    <3>4. ASSUME NEW r \in flying, r.op = "insert"
          PROVE  lineage'[r.id] # lineage'[handle'[g].id]
      BY <2>1, <3>4, <1>7, <1>8, <1>21 DEF IInv, TicketsAreUnique
    <3> QED
      BY <3>1, <3>2, <3>3, <3>4
  <2>2. ASSUME NEW r \in flying, r.op = "insert"
        PROVE  /\ family'[maker'[lineage'[r.id]]].creation_claimed
               /\ NeverStored(r.id)'
               /\ \A q \in flying : q.op = "insert" /\ lineage'[q.id] = lineage'[r.id] => q = r
    <3>1. r.id \in Ids /\ r.id # i /\ lineage'[r.id] = lineage[r.id] /\ lineage[r.id] # NoId
      BY <2>2, <1>8 DEF IInv, DrawnIds
    <3>2. /\ lineage[r.id] \in Ids /\ lineage[r.id] # i
          /\ maker[lineage[r.id]] \in Families
      BY <3>1, <1>2, RootFamily DEF IInv, TypeOK
    <3>3. family'[maker'[lineage'[r.id]]].creation_claimed
      BY <2>2, <3>1, <3>2, <1>2, <1>5 DEF IInv, TicketsAreUnique
    <3> QED
      BY <2>2, <3>1, <3>3, <1>8, <1>19 DEF IInv, TicketsAreUnique
  <2> QED
    BY <2>1, <2>2, <1>3 DEF TicketsAreUnique
<1>23. Records'
  BY <1>3, <1>6, RecordsFrame
<1> QED
  BY <1>9, <1>10, <1>11, <1>14, <1>15, <1>16, <1>18, <1>20, <1>22, <1>23 DEF IInv, Records

\* A step after which every handle of a fresh family descends from what a
\* handle of that family descended from, and no save has begun.
LEMMA LineagesFrame ==
  ASSUME IInv, TypeOK', UNCHANGED flying, Stored' = Stored,
         \A j \in Ids : maker[j] # NoFamily =>
           lineage'[j] = lineage[j] /\ maker'[j] = maker[j],
         \A f \in Families : /\ family'[f].fresh = family[f].fresh
                             /\ family'[f].creation_claimed = family[f].creation_claimed
                             /\ family[f].fresh => family'[f] = family[f],
         \A g \in Handles : Fresh(g)' => \E k \in Handles :
           /\ Fresh(k) /\ handle'[g].family = handle[k].family
           /\ lineage'[handle'[g].id] = lineage[handle[k].id],
         \A g \in Handles : HasTicket(g)' => handle'[g] = handle[g]
  PROVE  FreshLineage' /\ ClaimedOnceStored' /\ TicketsAreUnique'
<1>1. \A j \in Stored : j \in Ids /\ lineage[j] # NoId /\ lineage'[j] = lineage[j]
  BY DEF IInv, DrawnIds, TypeOK, Stored
<1>2. ASSUME NEW k \in Handles, Present(k)
      PROVE  /\ lineage[handle[k].id] \in Ids /\ handle[k].family \in Families
             /\ lineage'[handle[k].id] = lineage[handle[k].id]
             /\ maker'[lineage[handle[k].id]] = maker[lineage[handle[k].id]]
  <2>1. /\ handle[k].id \in Ids /\ lineage[handle[k].id] # NoId
        /\ handle[k].family \in Families
    BY <1>2 DEF IInv, HandlesAreSessions
  <2>2. lineage[handle[k].id] \in Ids /\ maker[lineage[handle[k].id]] # NoFamily
    BY <2>1 DEF IInv, TypeOK, DrawnIds
  <2>3. maker[handle[k].id] # NoFamily
    BY <2>1 DEF IInv, DrawnIds
  <2> QED
    BY <2>1, <2>2, <2>3
<1>3. ASSUME NEW r \in flying, r.op = "insert"
      PROVE  /\ r.id \in Ids /\ lineage'[r.id] = lineage[r.id]
             /\ maker'[lineage[r.id]] = maker[lineage[r.id]]
             /\ maker[lineage[r.id]] \in Families
  <2>1. r.id \in Ids /\ lineage[r.id] # NoId
    BY <1>3 DEF IInv, TypeOK, DrawnIds, Requests
  <2>2. maker[r.id] # NoFamily /\ lineage[r.id] \in Ids
    BY <2>1 DEF IInv, TypeOK, DrawnIds
  <2>3. maker[lineage[r.id]] \in Families
    BY <2>1, RootFamily
  <2> QED
    BY <2>1, <2>2, <2>3, NoneAssumption
<1>4. FreshLineage'
  <2>1. ASSUME NEW g \in Handles, Fresh(g)'
        PROVE  maker'[lineage'[handle'[g].id]] = handle'[g].family
    BY <2>1, <1>2 DEF IInv, FreshLineage, Fresh
  <2>2. ASSUME NEW g \in Handles, Fresh(g)', NEW q \in Handles, Present(q)',
               handle'[q].family = handle'[g].family
        PROVE  lineage'[handle'[q].id] = lineage'[handle'[g].id]
    <3>1. Fresh(q)'
      BY <2>2 DEF Fresh, FamilyOf
    <3> QED
      BY <2>2, <3>1 DEF IInv, FreshLineage, Fresh
  <2> QED
    BY <2>1, <2>2 DEF FreshLineage
<1>5. ASSUME NEW j, NEW k, lineage'[j] = lineage[k], NeverStored(k) PROVE NeverStored(j)'
  BY <1>1, <1>5 DEF NeverStored
<1>6. ClaimedOnceStored'
  <2> SUFFICES ASSUME NEW g \in Handles, Fresh(g)'
               PROVE  \/ FamilyOf(g).creation_claimed'
                      \/ FamilyOf(g).persisted_id' # NoId
                      \/ NeverStored(handle[g].id)'
    BY DEF ClaimedOnceStored
  <2>1. PICK k \in Handles : /\ Fresh(k) /\ handle'[g].family = handle[k].family
                             /\ lineage'[handle'[g].id] = lineage[handle[k].id]
    OBVIOUS
  <2>2. family'[handle'[g].family] = family[handle[k].family]
    BY <2>1, <1>2 DEF Fresh, FamilyOf
  <2>3. NeverStored(handle[k].id) => NeverStored(handle[g].id)'
    BY <2>1, <1>1 DEF NeverStored
  <2> QED
    BY <2>1, <2>2, <2>3 DEF IInv, ClaimedOnceStored, FamilyOf
<1>7. ASSUME NEW g \in Handles, HasTicket(g)'
      PROVE  /\ HasTicket(g) /\ handle'[g] = handle[g] /\ Present(g)
             /\ lineage'[handle'[g].id] = lineage[handle[g].id]
             /\ handle[g].family \in Families
  BY <1>7, <1>2 DEF HasTicket, Present
<1>8. TicketsAreUnique'
  <2>1. ASSUME NEW g \in Handles, HasTicket(g)'
        PROVE  /\ FamilyOf(g).fresh' /\ FamilyOf(g).creation_claimed'
               /\ NeverStored(handle[g].id)'
               /\ \A k \in Handles : HasTicket(k)' /\ lineage'[handle'[k].id] = lineage'[handle'[g].id]
                                       => k = g
               /\ \A r \in flying : r.op = "insert" => lineage'[r.id] # lineage'[handle'[g].id]
    <3>1. FamilyOf(g).fresh' /\ FamilyOf(g).creation_claimed'
      BY <2>1, <1>7 DEF IInv, TicketsAreUnique, FamilyOf
    <3>2. NeverStored(handle[g].id)'
      <4>1. NeverStored(handle[g].id)
        BY <2>1, <1>7 DEF IInv, TicketsAreUnique
      <4> QED
        BY <2>1, <4>1, <1>1, <1>7 DEF NeverStored
    <3>3. ASSUME NEW k \in Handles, HasTicket(k)', lineage'[handle'[k].id] = lineage'[handle'[g].id]
          PROVE  k = g
      BY <2>1, <3>3, <1>7 DEF IInv, TicketsAreUnique
    <3>4. ASSUME NEW r \in flying, r.op = "insert"
          PROVE  lineage'[r.id] # lineage'[handle'[g].id]
      BY <2>1, <3>4, <1>3, <1>7 DEF IInv, TicketsAreUnique
    <3> QED
      BY <3>1, <3>2, <3>3, <3>4
  <2>2. ASSUME NEW r \in flying, r.op = "insert"
        PROVE  /\ family'[maker'[lineage'[r.id]]].creation_claimed
               /\ NeverStored(r.id)'
               /\ \A q \in flying : q.op = "insert" /\ lineage'[q.id] = lineage'[r.id] => q = r
    BY <2>2, <1>3, <1>5 DEF IInv, TicketsAreUnique
  <2> QED
    BY <2>1, <2>2 DEF TicketsAreUnique
<1> QED
  BY <1>4, <1>6, <1>8

\* Session::clone copies a handle, and with it only what the family knows.
LEMMA CloneStep ==
  ASSUME IInv, TypeOK', NEW h \in Handles, NEW g \in Handles, Clone(h, g)
  PROVE  IInv'
<1>1. /\ UNCHANGED <<family, maker, records, flying, lineage, gone, ended>> /\ Stored' = Stored
      /\ handle[h].at = "live" /\ Present(h)
  BY DEF Clone, history, Stored, Present
<1>2. \A k \in Handles : handle'[k] = IF k = g THEN handle[h] ELSE handle[k]
  BY DEF Clone, IInv, TypeOK
<1>3. HandlesAreSessions'
  BY <1>1, <1>2 DEF IInv, HandlesAreSessions, Present
<1>4. DrawnIds' /\ FreshIsUsed' /\ PersistedIsStored'
  BY <1>1 DEF IInv, DrawnIds, FreshIsUsed, PersistedIsStored
<1>5. \A q, j : RotationOf(q, j) => RotationOf(q, j)'
  BY <1>1 DEF RotationOf
<1>6. RotationsAreSound'
  <2>1. ASSUME NEW k \in Handles, handle'[k].rotation_from # NoId, NEW q, NEW j,
               q = handle'[k].rotation_from, j = handle'[k].id
        PROVE  RotationOf(q, j)'
    BY <2>1, <1>2, <1>5 DEF IInv, RotationsAreSound
  <2> QED
    BY <2>1, <1>1, <1>5 DEF IInv, RotationsAreSound
<1>7. OneSource'
  BY <1>1, <1>2 DEF IInv, OneSource
<1>8. OriginsAreOwn'
  BY <1>1, <1>2 DEF IInv, OriginsAreOwn
<1>9. ASSUME NEW k \in Handles, Fresh(k)'
      PROVE  \E q \in Handles : /\ Fresh(q) /\ handle'[k].family = handle[q].family
                                /\ lineage'[handle'[k].id] = lineage[handle[q].id]
  <2> DEFINE q == IF k = g THEN h ELSE k
  <2>1. q \in Handles /\ handle'[k] = handle[q]
    BY <1>2
  <2> QED
    BY <2>1, <1>1, <1>9 DEF Fresh, FamilyOf, Present
<1>10. \A k \in Handles : HasTicket(k)' => handle'[k] = handle[k]
  BY <1>1, <1>2 DEF HasTicket
<1>11. FreshLineage' /\ ClaimedOnceStored' /\ TicketsAreUnique'
  BY <1>1, <1>9, <1>10, LineagesFrame
<1>12. Records'
  BY <1>1, RecordsFrame
<1> QED
  BY <1>3, <1>4, <1>6, <1>7, <1>8, <1>11, <1>12 DEF IInv, Records

\* A loaded session is the first of a family that may not insert.
LEMMA LoadStep ==
  ASSUME IInv, TypeOK', NEW h \in Handles, NEW e \in Families, NEW i \in Ids, Load(h, e, i)
  PROVE  IInv'
<1>1. /\ UNCHANGED <<maker, records, flying, lineage, gone, ended>> /\ Stored' = Stored
      /\ handle[h] = NoSession /\ ~family[e].used /\ ~family[e].fresh
      /\ i \in Stored /\ lineage[i] # NoId
  BY DEF Load, history, Stored, IInv, HandlesAreSessions, Present, FreshIsUsed, DrawnIds
<1>2. /\ handle'[h].at = "live" /\ handle'[h].family = e /\ handle'[h].id = i
      /\ handle'[h].rotation_from = NoId
      /\ \A g \in Handles \ {h} : handle'[g] = handle[g]
  BY <1>1 DEF Load, IInv, TypeOK, NoSession
<1>3. /\ family'[e].used /\ family'[e].persisted_id = i
      /\ \A f \in Families : /\ family'[f].fresh = family[f].fresh
                             /\ family'[f].creation_claimed = family[f].creation_claimed
                             /\ f # e => family'[f] = family[f]
  BY DEF Load, IInv, TypeOK, FamilyStates
<1>4. HandlesAreSessions'
  BY <1>1, <1>2, <1>3 DEF IInv, HandlesAreSessions, Present
<1>5. DrawnIds' /\ FreshIsUsed' /\ PersistedIsStored'
  BY <1>1, <1>3 DEF IInv, DrawnIds, FreshIsUsed, PersistedIsStored
<1>6. \A q, j : RotationOf(q, j) => RotationOf(q, j)'
  BY <1>1 DEF RotationOf
<1>7. RotationsAreSound'
  <2>1. ASSUME NEW k \in Handles, handle'[k].rotation_from # NoId, NEW q, NEW j,
               q = handle'[k].rotation_from, j = handle'[k].id
        PROVE  RotationOf(q, j)'
    BY <2>1, <1>2, <1>6 DEF IInv, RotationsAreSound
  <2> QED
    BY <2>1, <1>1, <1>6 DEF IInv, RotationsAreSound
<1>8. OneSource'
  BY <1>1, <1>2 DEF IInv, OneSource
<1>9. OriginsAreOwn'
  BY <1>1, <1>2 DEF IInv, OriginsAreOwn
<1>10. ASSUME NEW k \in Handles, Fresh(k)'
       PROVE  Fresh(k) /\ handle'[k] = handle[k]
  <2>1. k # h
    BY <1>1, <1>2, <1>3, <1>10 DEF Fresh, FamilyOf
  <2>2. handle'[k] = handle[k] /\ Present(k) /\ handle[k].family \in Families
    BY <2>1, <1>2, <1>10 DEF Fresh, Present, IInv, HandlesAreSessions
  <2> QED
    BY <2>2, <1>3, <1>10 DEF Fresh, FamilyOf
<1>11. \A k \in Handles : HasTicket(k)' => handle'[k] = handle[k]
  BY <1>2 DEF HasTicket
<1>12. FreshLineage' /\ ClaimedOnceStored' /\ TicketsAreUnique'
  BY <1>1, <1>3, <1>10, <1>11, LineagesFrame
<1>13. Records'
  BY <1>1, RecordsFrame
<1> QED
  BY <1>4, <1>5, <1>7, <1>8, <1>9, <1>12, <1>13 DEF IInv, Records

\* Session::regenerate keeps the lineage; it becomes a rotation only of an
\* identity that was stored.
LEMMA RegenerateStep ==
  ASSUME IInv, TypeOK', NEW h \in Handles, NEW i \in Ids, Regenerate(h, i)
  PROVE  IInv'
<1> DEFINE f == handle[h].family
           p == FamilyOf(h).persisted_id
           l == lineage[handle[h].id]
           s == IF p = handle[h].id \/ handle[h].rotation_from = p
                THEN p ELSE handle[h].rotation_from
<1>1. /\ Present(h) /\ handle[h].at = "live" /\ f \in Families
      /\ handle[h].id \in Ids /\ l \in Ids /\ l # NoId /\ maker[l] # NoFamily
      /\ family[f].used
  BY DEF Regenerate, Present, IInv, HandlesAreSessions, DrawnIds, TypeOK
<1>2. /\ maker[i] = NoFamily /\ UNCHANGED <<family, records, flying, gone, ended>>
      /\ maker' = [maker EXCEPT ![i] = f] /\ lineage' = [lineage EXCEPT ![i] = l]
      /\ handle' = [handle EXCEPT ![h].rotation_from = s, ![h].id = i]
  BY DEF Regenerate
<1>3. /\ handle'[h].at = "live" /\ handle'[h].family = f
      /\ handle'[h].rotation_from = s /\ handle'[h].id = i
      /\ \A g \in Handles \ {h} : handle'[g] = handle[g]
  BY <1>1, <1>2 DEF IInv, TypeOK, HandleStates
<1>4. lineage'[i] = l /\ maker'[i] = f /\ l # i
  BY <1>1, <1>2 DEF IInv, TypeOK
<1>5. /\ \A j \in Ids : j # i => lineage'[j] = lineage[j] /\ maker'[j] = maker[j]
      /\ lineage[i] = NoId /\ Stored' = Stored /\ i \notin Stored
      /\ \A j \in Stored : j \in Ids /\ lineage'[j] = lineage[j]
  BY <1>2, DrawFrame
<1>6. \A g \in Handles : Present(g) =>
        /\ handle[g].id \in Ids /\ handle[g].id # i
        /\ lineage'[handle[g].id] = lineage[handle[g].id]
  BY <1>2, DrawFrame
<1>7. \A r \in flying : r.op # "delete" =>
        r.id \in Ids /\ r.id # i /\ lineage'[r.id] = lineage[r.id]
  BY <1>2, DrawFrame
<1>8. HandlesAreSessions'
  <2> SUFFICES ASSUME NEW g \in Handles
               PROVE  /\ ~Present(g)' => handle'[g] = NoSession
                      /\ Present(g)' => /\ handle'[g].family \in Families
                                        /\ family'[handle'[g].family].used
                                        /\ handle'[g].id \in Ids
                                        /\ lineage'[handle'[g].id] # NoId
                      /\ handle'[g].at = "delete" => handle'[g].target \in Ids
    BY DEF HandlesAreSessions
  <2>1. CASE g = h
    BY <2>1, <1>1, <1>2, <1>3, <1>4 DEF Present
  <2>2. CASE g # h
    <3>1. handle'[g] = handle[g] /\ UNCHANGED family
      BY <2>2, <1>2, <1>3
    <3> QED
      BY <3>1, <1>6 DEF IInv, HandlesAreSessions, Present
  <2> QED
    BY <2>1, <2>2
<1>9. DrawnIds'
  <2>1. ASSUME NEW j \in Ids, lineage'[j] # NoId
        PROVE  maker'[j] # NoFamily /\ maker'[lineage'[j]] # NoFamily
    <3>1. CASE j = i
      BY <3>1, <1>1, <1>4, <1>5, NoneAssumption
    <3>2. CASE j # i
      BY <2>1, <3>2, <1>2, <1>5 DEF IInv, DrawnIds, TypeOK
    <3> QED
      BY <3>1, <3>2
  <2> QED
    BY <2>1, <1>2, <1>5, <1>7 DEF IInv, DrawnIds
<1>10. FreshIsUsed' /\ PersistedIsStored'
  BY <1>2, <1>5 DEF IInv, FreshIsUsed, PersistedIsStored
<1>11. ASSUME NEW q, NEW j \in Ids, j # i, RotationOf(q, j) PROVE RotationOf(q, j)'
  BY <1>11, <1>2, <1>5 DEF RotationOf
<1>12. s # NoId => s \in Stored /\ lineage[s] = l
  <2>1. CASE p = handle[h].id
    BY <2>1, <1>1 DEF IInv, PersistedIsStored, FamilyOf
  <2>2. CASE p # handle[h].id
    BY <2>2, <1>1 DEF IInv, RotationsAreSound, RotationOf
  <2> QED
    BY <2>1, <2>2
<1>13. ASSUME NEW g \in Handles, handle'[g].rotation_from # NoId, NEW q, NEW j,
              q = handle'[g].rotation_from, j = handle'[g].id
       PROVE  RotationOf(q, j)'
  <2>1. CASE g = h
    BY <2>1, <1>13, <1>3, <1>4, <1>5, <1>12 DEF RotationOf
  <2>2. CASE g # h
    <3>1. handle'[g] = handle[g] /\ Present(g)
      BY <2>2, <1>3, <1>13 DEF IInv, HandlesAreSessions, NoSession
    <3> QED
      BY <3>1, <1>6, <1>11, <1>13 DEF IInv, RotationsAreSound
  <2> QED
    BY <2>1, <2>2
<1>14. RotationsAreSound'
  <2>1. ASSUME NEW r \in flying, r.op = "rotate"
        PROVE  r.source # NoId /\ r.source # r.id /\ RotationOf(r.source, r.id)'
    BY <2>1, <1>7, <1>11 DEF IInv, RotationsAreSound
  <2> QED
    BY <2>1, <1>2, <1>13 DEF IInv, RotationsAreSound
<1>15. OneSource'
  <2>1. ASSUME NEW g \in Handles, g # h, handle'[g].rotation_from # NoId
        PROVE  handle'[g] = handle[g] /\ handle'[g].id # i
    BY <2>1, <1>3, <1>6 DEF IInv, HandlesAreSessions, NoSession
  <2>2. ASSUME NEW g \in Handles, NEW k \in Handles,
               handle'[g].rotation_from # NoId, handle'[k].rotation_from # NoId,
               handle'[g].id = handle'[k].id
        PROVE  handle'[g].rotation_from = handle'[k].rotation_from
    BY <2>1, <2>2, <1>3 DEF IInv, OneSource
  <2>3. ASSUME NEW g \in Handles, NEW r \in flying,
               handle'[g].rotation_from # NoId, r.op = "rotate", handle'[g].id = r.id
        PROVE  handle'[g].rotation_from = r.source
    BY <2>1, <2>3, <1>3, <1>7 DEF IInv, OneSource
  <2> QED
    BY <2>2, <2>3, <1>2 DEF IInv, OneSource
<1>16. OriginsAreOwn'
  BY <1>3, <1>5 DEF IInv, OriginsAreOwn
<1>17. ASSUME NEW g \in Handles, Fresh(g)'
       PROVE  /\ Fresh(g) /\ handle'[g].family = handle[g].family
              /\ lineage'[handle'[g].id] = lineage[handle[g].id]
  <2>1. handle'[g].family = handle[g].family /\ Present(g) /\ Fresh(g)
    BY <1>17, <1>1, <1>2, <1>3 DEF Fresh, Present, FamilyOf
  <2> QED
    BY <2>1, <1>3, <1>4, <1>6
<1>18. \A g \in Handles : HasTicket(g)' => handle'[g] = handle[g]
  BY <1>3 DEF HasTicket
<1>19. FreshLineage' /\ ClaimedOnceStored' /\ TicketsAreUnique'
  <2>1. \A j \in Ids : maker[j] # NoFamily => lineage'[j] = lineage[j] /\ maker'[j] = maker[j]
    BY <1>2, <1>5
  <2> QED
    BY <2>1, <1>2, <1>5, <1>17, <1>18, LineagesFrame
<1>20. Records'
  BY <1>2, <1>5, RecordsFrame
<1> QED
  BY <1>8, <1>9, <1>10, <1>14, <1>15, <1>16, <1>19, <1>20 DEF IInv, Records

\* A save that begins with nothing persisted holds the lineage's only ticket:
\* the family had not been claimed before.
LEMMA BeginSaveStep ==
  ASSUME IInv, TypeOK', NEW h \in Handles, BeginSave(h)
  PROVE  IInv'
<1> DEFINE f == handle[h].family
           p == FamilyOf(h).persisted_id
<1>1. /\ Present(h) /\ f \in Families /\ ~OriginConflict(h)
      /\ handle[h].at = "live"
  BY DEF BeginSave, Present, IInv, HandlesAreSessions
<1>2. /\ UNCHANGED <<maker, records, flying, lineage, gone, ended>> /\ Stored' = Stored
      /\ family' = [family EXCEPT ![f].creation_claimed = @ \/ ClaimsCreation(p)]
      /\ handle' = [handle EXCEPT ![h].at = "lock", ![h].origin = p]
  BY DEF BeginSave, history, Stored
<1>3. /\ handle'[h].at = "lock" /\ handle'[h].origin = p
      /\ handle'[h].family = f /\ handle'[h].id = handle[h].id
      /\ handle'[h].rotation_from = handle[h].rotation_from
      /\ \A g \in Handles \ {h} : handle'[g] = handle[g]
  BY <1>2 DEF IInv, TypeOK, HandleStates
<1>4. /\ \A e \in Families : /\ family'[e].used = family[e].used
                             /\ family'[e].fresh = family[e].fresh
                             /\ family'[e].persisted_id = family[e].persisted_id
                             /\ family[e].creation_claimed => family'[e].creation_claimed
      /\ p = NoId => family'[f].creation_claimed
  BY <1>1, <1>2 DEF IInv, TypeOK, FamilyStates, ClaimsCreation
<1>5. Identities'
  <2>1. \A g \in Handles : handle'[g] = NoSession \/ KeepsIdentity(g)
    BY <1>1, <1>3 DEF IInv, HandlesAreSessions, KeepsIdentity, Present
  <2>2. \A e \in Families : KeepsFamily(e)
    BY <1>4 DEF KeepsFamily
  <2>3. IdentitiesStay /\ NewRecordsAllowed
    BY <2>1, <2>2, <1>2 DEF IdentitiesStay, NewRecordsAllowed
  <2> QED
    BY <2>3, IdentitiesFrame
<1>6. OriginsAreOwn'
  <2>1. p = NoId \/ p = handle[h].id \/ p = handle[h].rotation_from
    BY <1>1 DEF OriginConflict
  <2> SUFFICES ASSUME NEW g \in Handles
               PROVE  /\ handle'[g].at \in {"lock", "write"} =>
                           \/ handle'[g].origin = NoId
                           \/ handle'[g].origin = handle'[g].id
                           \/ handle'[g].origin = handle'[g].rotation_from
                      /\ handle'[g].at = "wrote" => handle'[g].id \in Stored'
    BY DEF OriginsAreOwn
  <2>2. CASE g = h
    BY <2>1, <2>2, <1>3
  <2>3. CASE g # h
    <3>1. handle'[g] = handle[g] /\ Stored' = Stored
      BY <2>3, <1>2, <1>3
    <3> QED
      BY <3>1 DEF IInv, OriginsAreOwn
  <2> QED
    BY <2>2, <2>3
<1>7. ASSUME p = NoId
      PROVE  /\ Fresh(h) /\ ~family[f].creation_claimed /\ NeverStored(handle[h].id)
             /\ maker[lineage[handle[h].id]] = f
  <2>1. Fresh(h) /\ ~family[f].creation_claimed
    BY <1>1, <1>7 DEF OriginConflict, Fresh, FamilyOf
  <2> QED
    BY <2>1, <1>7 DEF IInv, ClaimedOnceStored, FreshLineage, FamilyOf
<1>8. ASSUME NEW g \in Handles, HasTicket(g)
      PROVE  /\ g # h /\ family[handle[g].family].creation_claimed
             /\ handle[g].family \in Families
             /\ maker[lineage[handle[g].id]] = handle[g].family
  BY <1>1, <1>8 DEF IInv, TicketsAreUnique, FreshLineage, Fresh, Present, HasTicket,
                    HandlesAreSessions, FamilyOf
<1>9. p = NoId => /\ \A g \in Handles : HasTicket(g) =>
                       lineage[handle[g].id] # lineage[handle[h].id]
                  /\ \A r \in flying : r.op = "insert" =>
                       lineage[r.id] # lineage[handle[h].id]
  BY <1>7, <1>8 DEF IInv, TicketsAreUnique
<1>10. ASSUME NEW g \in Handles, HasTicket(g)'
       PROVE  \/ HasTicket(g) /\ handle'[g] = handle[g]
              \/ g = h /\ p = NoId
  BY <1>10, <1>3 DEF HasTicket
<1>11. \A g \in Handles : handle'[g].id = handle[g].id /\ handle'[g].family = handle[g].family
  BY <1>3
<1>12. \A j : NeverStored(j) => NeverStored(j)'
  BY <1>2 DEF NeverStored
<1>13. TicketsAreUnique'
  <2>1. ASSUME NEW g \in Handles, HasTicket(g)'
        PROVE  /\ FamilyOf(g).fresh' /\ FamilyOf(g).creation_claimed'
               /\ NeverStored(handle[g].id)'
    <3>1. CASE HasTicket(g)
      BY <3>1, <1>4, <1>8, <1>11, <1>12 DEF IInv, TicketsAreUnique, FamilyOf
    <3>2. CASE g = h /\ p = NoId
      BY <3>2, <1>1, <1>4, <1>7, <1>11, <1>12 DEF Fresh, FamilyOf
    <3> QED
      BY <2>1, <1>10, <3>1, <3>2
  <2>2. ASSUME NEW g \in Handles, HasTicket(g)', NEW k \in Handles, HasTicket(k)',
               lineage'[handle'[k].id] = lineage'[handle'[g].id]
        PROVE  k = g
    <3>1. lineage[handle[k].id] = lineage[handle[g].id]
      BY <2>2, <1>2, <1>11
    <3>2. CASE HasTicket(g) /\ HasTicket(k)
      BY <3>1, <3>2 DEF IInv, TicketsAreUnique
    <3>3. CASE ~(HasTicket(g) /\ HasTicket(k))
      BY <2>2, <3>1, <3>3, <1>9, <1>10
    <3> QED
      BY <3>2, <3>3
  <2>3. ASSUME NEW g \in Handles, HasTicket(g)', NEW r \in flying', r.op = "insert"
        PROVE  lineage'[r.id] # lineage'[handle'[g].id]
    <3>1. lineage[r.id] # lineage[handle[g].id]
      <4>1. CASE HasTicket(g)
        BY <2>3, <4>1, <1>2 DEF IInv, TicketsAreUnique
      <4>2. CASE g = h /\ p = NoId
        BY <2>3, <4>2, <1>2, <1>9
      <4> QED
        BY <2>3, <4>1, <4>2, <1>10
    <3> QED
      BY <3>1, <1>2, <1>11
  <2>4. ASSUME NEW r \in flying', r.op = "insert"
        PROVE  /\ family'[maker'[lineage'[r.id]]].creation_claimed
               /\ NeverStored(r.id)'
               /\ \A q \in flying' : q.op = "insert" /\ lineage'[q.id] = lineage'[r.id] => q = r
    <3>1. r.id \in Ids /\ lineage[r.id] # NoId
      BY <2>4, <1>2 DEF IInv, TypeOK, Requests, DrawnIds
    <3>2. maker[lineage[r.id]] \in Families
      BY <3>1, RootFamily
    <3> QED
      BY <2>4, <3>2, <1>2, <1>4, <1>12 DEF IInv, TicketsAreUnique
  <2> QED
    BY <2>1, <2>2, <2>3, <2>4 DEF TicketsAreUnique
<1>14. Records'
  BY <1>2, RecordsFrame
<1> QED
  BY <1>5, <1>6, <1>13, <1>14 DEF IInv, Identities, Records

\* The other steps of the application change flags, the lock or the stage.
LEMMA ApplicationSteps ==
  ASSUME IInv, TypeOK', NEW h \in Handles, ApplicationStep(h)
  PROVE  IInv'
<1> DEFINE f == handle[h].family
<1>0. Present(h) => f \in Families
  BY DEF IInv, HandlesAreSessions
<1>1. ASSUME UNCHANGED <<maker, records, flying, history>>,
             \A e \in Families : KeepsFamily(e),
             \A g \in Handles : handle'[g] = NoSession \/ KeepsIdentity(g),
             \A g \in Handles : handle'[g] # NoSession => MovesOn(g)
      PROVE  IInv'
  <2>1. UNCHANGED <<records, gone, ended, lineage, flying, maker>>
    BY <1>1 DEF history
  <2>2. Records' /\ Stored' = Stored
    BY <2>1, RecordsFrame
  <2> QED
    BY <1>1, <2>1, <2>2, QuietStep
<1>2. ASSUME UNCHANGED <<maker, records, flying, history>>,
             \A e \in Families : KeepsFamily(e), Discard(h)
      PROVE  IInv'
  <2>1. Stored' = Stored
    BY <1>2 DEF history, Stored
  <2> QED
    BY <1>1, <1>2, <2>1, DiscardFrame
<1>3. ASSUME UNCHANGED <<maker, records, flying, history>>,
             \A e \in Families : KeepsFamily(e),
             \A g \in Handles \ {h} : handle'[g] = handle[g],
             KeepsIdentity(h) /\ MovesOn(h)
      PROVE  IInv'
  <2>1. Stored' = Stored
    BY <1>3 DEF history, Stored
  <2> QED
    BY <1>1, <1>3, <2>1, HandleFrame
<1>4. ASSUME UNCHANGED family PROVE \A e \in Families : KeepsFamily(e)
  BY <1>4 DEF KeepsFamily
<1>5. CASE Destroy(h)
  <2>1. /\ Present(h) /\ UNCHANGED <<handle, maker, records, flying, history>>
        /\ family' = [family EXCEPT ![f].destroy = TRUE]
    BY <1>5 DEF Destroy, Present
  <2>2. \A e \in Families : KeepsFamily(e)
    BY <2>1, <1>0, LockFrame
  <2>3. KeepsIdentity(h) /\ MovesOn(h)
    BY <2>1, <1>5 DEF Destroy, KeepsIdentity, MovesOn, Present
  <2> QED
    BY <2>1, <2>2, <2>3, <1>3
<1>6. CASE DropHandle(h)
  BY <1>6, <1>2, <1>4 DEF DropHandle
<1>7. CASE RefuseSave(h)
  BY <1>7, <1>2, <1>4 DEF RefuseSave
<1>8. CASE BeginBackendWrite(h)
  <2>1. /\ handle[h].at = "lock" /\ UNCHANGED <<maker, records, flying, history>>
        /\ family' = [family EXCEPT ![f].holder = h]
        /\ handle' = [handle EXCEPT
             ![h].at = "write", ![h].uncertain_on_drop = CanCreate(h) /\ CanOutliveFuture]
    BY <1>8 DEF BeginBackendWrite
  <2>2. \A e \in Families : KeepsFamily(e)
    BY <2>1, <1>0, LockFrame DEF Present
  <2>3. /\ \A g \in Handles \ {h} : handle'[g] = handle[g]
        /\ handle'[h].at = "write" /\ handle'[h].origin = handle[h].origin
        /\ handle'[h].family = handle[h].family /\ handle'[h].id = handle[h].id
        /\ handle'[h].rotation_from = handle[h].rotation_from
    BY <2>1 DEF IInv, TypeOK, HandleStates
  <2>4. KeepsIdentity(h) /\ MovesOn(h)
    BY <2>1, <2>3 DEF KeepsIdentity, MovesOn, Present
  <2> QED
    BY <2>1, <2>2, <2>3, <2>4, <1>3
<1>9. CASE RefuseBackendWrite(h)
  <2>1. Present(h) /\ Discard(h) /\ UNCHANGED <<maker, records, flying, history>>
    BY <1>9 DEF RefuseBackendWrite, Present
  <2>2. \/ family' = family
        \/ family' = [family EXCEPT ![f].uncertain = @ \/ (CanCreate(h) /\ CanOutliveFuture)]
    BY <1>9 DEF RefuseBackendWrite
  <2>3. \A e \in Families : KeepsFamily(e)
    BY <2>1, <2>2, <1>0, LockFrame
  <2> QED
    BY <2>1, <2>3, <1>2
<1>10. CASE BeginDelete(h)
  <2>1. /\ handle[h].at = "live" /\ UNCHANGED <<maker, records, flying, history>>
        /\ family' = [family EXCEPT ![f].destroy = TRUE]
        /\ handle' = [handle EXCEPT ![h].at = "dlock"]
    BY <1>10 DEF BeginDelete, Move
  <2>2. \A e \in Families : KeepsFamily(e)
    BY <2>1, <1>0, LockFrame DEF Present
  <2>3. /\ \A g \in Handles \ {h} : handle'[g] = handle[g]
        /\ handle'[h].at = "dlock"
        /\ handle'[h].family = handle[h].family /\ handle'[h].id = handle[h].id
        /\ handle'[h].rotation_from = handle[h].rotation_from
    BY <2>1 DEF IInv, TypeOK, HandleStates
  <2>4. KeepsIdentity(h) /\ MovesOn(h)
    BY <2>1, <2>3 DEF KeepsIdentity, MovesOn, Present
  <2> QED
    BY <2>1, <2>2, <2>3, <2>4, <1>3
<1>11. CASE EnterDelete(h)
  <2>1. /\ handle[h].at = "dlock" /\ UNCHANGED <<maker, records, flying, history>>
        /\ family' = [family EXCEPT ![f].holder = h]
        /\ handle' = [handle EXCEPT ![h].at = "delete", ![h].target = DeleteTarget(h)]
    BY <1>11 DEF EnterDelete
  <2>2. \A e \in Families : KeepsFamily(e)
    BY <2>1, <1>0, LockFrame DEF Present
  <2>3. /\ \A g \in Handles \ {h} : handle'[g] = handle[g]
        /\ handle'[h].at = "delete" /\ handle'[h].target = DeleteTarget(h)
        /\ handle'[h].family = handle[h].family /\ handle'[h].id = handle[h].id
        /\ handle'[h].rotation_from = handle[h].rotation_from
    BY <2>1 DEF IInv, TypeOK, HandleStates
  <2>4. handle[h].id \in Ids /\ family[f].persisted_id \in Ids \cup {NoId}
    BY <2>1, <1>0 DEF IInv, HandlesAreSessions, Present, TypeOK, FamilyStates
  <2>5. DeleteTarget(h) \in Ids
    BY <2>4 DEF DeleteTarget, FamilyOf
  <2>6. KeepsIdentity(h) /\ MovesOn(h)
    BY <2>1, <2>3, <2>5 DEF KeepsIdentity, MovesOn, Present
  <2> QED
    BY <2>1, <2>2, <2>3, <2>6, <1>3
<1>12. CASE RefuseDelete(h)
  BY <1>12, <1>2, <1>4 DEF RefuseDelete
<1> QED
  BY NewStep, CloneStep, RegenerateStep, BeginSaveStep,
     <1>5, <1>6, <1>7, <1>8, <1>9, <1>10, <1>11, <1>12 DEF ApplicationStep

\* The steps that end a save or a deletion without creating a record.
LEMMA EndingSteps ==
  ASSUME IInv, TypeOK', NEW h \in Handles,
         \/ RejectPut(h) \/ AbandonSave(h) \/ DiscardExpired(h) \/ AbandonDiscard(h)
         \/ CompleteSave(h) \/ Compensate(h) \/ CompleteDelete(h) \/ AbandonDelete(h)
  PROVE  IInv'
<1> DEFINE f == handle[h].family
<1>0. /\ Present(h) => f \in Families
      /\ UNCHANGED <<records, gone, ended, lineage>> => Records' /\ Stored' = Stored
  BY RecordsFrame DEF IInv, HandlesAreSessions
<1>1. ASSUME Discard(h), UNCHANGED <<lineage, maker>>, Records', Stored' = Stored,
             gone \subseteq gone', \A e \in Families : KeepsFamily(e),
             \A r \in flying' : r \in flying \/ r.op = "delete" \/ FromAbandoned(r)
      PROVE  IInv'
  BY <1>1, DiscardFrame, QuietStep
<1>2. ASSUME NEW ids, EndRecords(ids), Discard(h), UNCHANGED <<lineage, maker, flying>>,
             \A e \in Families : KeepsFamily(e)
      PROVE  IInv'
  <2>1. Records' /\ Stored' = Stored /\ gone \subseteq gone'
    BY <1>2, RecordsEnd
  <2> QED
    BY <1>1, <1>2, <2>1
<1>3. ASSUME NEW s, s # "absent", NEW R, AbandonWrite(h, s, R),
             \A r \in R : r.op = "delete" \/ (handle[h].at = "write" /\ CanCreate(h) /\ r = SaveRequest(h))
      PROVE  IInv'
  <2>1. /\ Present(h) /\ Discard(h) /\ ReleaseWrite(h, FALSE)
        /\ UNCHANGED <<lineage, maker, records, gone, ended>>
    BY <1>3 DEF AbandonWrite, Present, history
  <2>2. \A e \in Families : KeepsFamily(e)
    BY <2>1, ReleaseFrame
  <2>3. handle'[h] = NoSession
    BY <2>1 DEF Discard, IInv, TypeOK
  <2>4. \A r \in flying' : r \in flying \/ r \in R
    BY <1>3 DEF AbandonWrite, MayFly
  <2>5. \A r \in flying' : r \in flying \/ r.op = "delete" \/ FromAbandoned(r)
    BY <1>3, <2>3, <2>4 DEF FromAbandoned
  <2> QED
    BY <1>0, <1>1, <2>1, <2>2, <2>5
<1>4. CASE RejectPut(h)
  <2>1. /\ Present(h) /\ Discard(h) /\ ReleaseWrite(h, FALSE)
        /\ UNCHANGED <<lineage, maker, records, gone, ended, flying>>
    BY <1>4 DEF RejectPut, Present, history
  <2>2. \A e \in Families : KeepsFamily(e)
    BY <2>1, ReleaseFrame
  <2> QED
    BY <1>0, <1>1, <2>1, <2>2
<1>5. CASE AbandonSave(h)
  <2> DEFINE W == IF CanCreate(h) THEN {SaveRequest(h)} ELSE {}
             D == IF FamilyOf(h).destroy THEN {DeleteRequest(handle[h].id)} ELSE {}
  <2>1. CASE AbandonWrite(h, "write", W)
    <3>1. handle[h].at = "write"
      BY <2>1 DEF AbandonWrite
    <3> QED
      BY <2>1, <3>1, <1>3
  <2>2. CASE AbandonWrite(h, "wrote", D)
    BY <2>2, <1>3 DEF DeleteRequest
  <2> QED
    BY <1>5, <2>1, <2>2 DEF AbandonSave
<1>6. CASE DiscardExpired(h)
  <2>1. /\ Present(h) /\ Discard(h) /\ ReleaseWrite(h, TRUE) /\ EndRecords({Replaced(h)})
        /\ UNCHANGED <<lineage, maker, flying>>
    BY <1>6 DEF DiscardExpired, Present
  <2>2. \A e \in Families : KeepsFamily(e)
    BY <2>1, ReleaseFrame
  <2> QED
    BY <1>2, <2>1, <2>2
<1>7. CASE AbandonDiscard(h)
  BY <1>7, <1>3 DEF AbandonDiscard, DeleteRequest
<1>8. CASE CompleteSave(h)
  <2>1. /\ handle[h].at = "wrote" /\ Present(h) /\ Discard(h)
        /\ UNCHANGED <<lineage, maker, records, gone, ended, flying>>
        /\ family' = [family EXCEPT ![f].persisted_id = MarkPersisted(h), ![f].holder = NoHandle]
    BY <1>8 DEF CompleteSave, Present, history
  <2>2. handle[h].id \in Stored /\ Stored' = Stored
    BY <2>1, <1>0 DEF IInv, OriginsAreOwn
  <2>3. MarkPersisted(h) \in Stored \/ MarkPersisted(h) = family[f].persisted_id
    BY <2>2 DEF MarkPersisted, FamilyOf
  <2>4. \A e \in Families : /\ family'[e].used = family[e].used
                            /\ family'[e].fresh = family[e].fresh
                            /\ family'[e].creation_claimed = family[e].creation_claimed
                            /\ \/ family'[e].persisted_id = family[e].persisted_id
                               \/ e = f /\ family'[e].persisted_id = MarkPersisted(h)
    BY <2>1 DEF IInv, TypeOK, FamilyStates
  <2>5. \A e \in Families : KeepsFamily(e)
    BY <2>2, <2>3, <2>4 DEF KeepsFamily
  <2> QED
    BY <1>0, <1>1, <2>1, <2>5
<1>9. CASE Compensate(h)
  <2>1. /\ Present(h) /\ Discard(h) /\ ReleaseWrite(h, TRUE) /\ EndRecords(CleansUp(h))
        /\ UNCHANGED <<lineage, maker, flying>>
    BY <1>9 DEF Compensate, Present
  <2>2. \A e \in Families : KeepsFamily(e)
    BY <2>1, ReleaseFrame
  <2> QED
    BY <1>2, <2>1, <2>2
<1>10. CASE CompleteDelete(h)
  <2>1. /\ Present(h) /\ Discard(h) /\ EndRecords({handle[h].target})
        /\ UNCHANGED <<lineage, maker, flying>>
        /\ family' = [family EXCEPT ![f].holder = NoHandle]
    BY <1>10 DEF CompleteDelete, Present
  <2>2. \A e \in Families : KeepsFamily(e)
    BY <1>0, <2>1, LockFrame
  <2> QED
    BY <1>2, <2>1, <2>2
<1>11. CASE AbandonDelete(h)
  <2>1. /\ Present(h) /\ Discard(h)
        /\ UNCHANGED <<lineage, maker, records, gone, ended>>
        /\ family' = [family EXCEPT ![f].holder = NoHandle]
    BY <1>11 DEF AbandonDelete, Present, history
  <2>2. \A e \in Families : KeepsFamily(e)
    BY <1>0, <2>1, LockFrame
  <2>3. \A r \in flying' : r \in flying \/ r.op = "delete"
    BY <1>11 DEF AbandonDelete, MayFly, DeleteRequest
  <2> QED
    BY <1>0, <1>1, <2>1, <2>2, <2>3
<1> QED
  BY <1>4, <1>5, <1>6, <1>7, <1>8, <1>9, <1>10, <1>11

\* A step that creates the record id in the place of source, with the ticket
\* of its lineage or as a rotation of the only possible source.
LEMMA CreateStep ==
  ASSUME IInv, TypeOK', NEW source, NEW id \in Ids, source # id, lineage[id] # NoId,
         Accepts(source, id), Replace(source, id),
         UNCHANGED <<family, maker, lineage>>, flying' \subseteq flying,
         \A h \in Handles : handle'[h] = NoSession \/ KeepsIdentity(h),
         \A h \in Handles : handle'[h] # NoSession => MovesOn(h),
         source = NoId =>
           /\ NeverStored(id) /\ family[maker[lineage[id]]].creation_claimed
           /\ \A h \in Handles : HasTicket(h) /\ lineage[handle[h].id] = lineage[id] =>
                handle'[h].at \notin {"lock", "write"}
           /\ \A r \in flying' : r.op = "insert" => lineage[r.id] # lineage[id],
         source # NoId =>
           /\ RotationOf(source, id)
           /\ \A h \in Handles : handle[h].rotation_from # NoId /\ handle[h].id = id =>
                handle[h].rotation_from = source
           /\ \A r \in flying : r.op = "rotate" /\ r.id = id => r.source = source
  PROVE  IInv'
<1>1. source # NoId => source \in records
  BY DEF Accepts
<1>2. id \notin Stored
  <2>1. CASE source = NoId
    BY <2>1 DEF NeverStored
  <2>2. CASE source # NoId
    BY <2>2, <1>1 DEF RotationOf, IInv, NoResurrection
  <2> QED
    BY <2>1, <2>2
<1>3. Records' /\ Stored' = Stored \cup {id} /\ gone \subseteq gone'
  BY <1>1, <1>2, RecordsCreate DEF RotationOf
<1>4. source # NoId => source \in gone'
  BY DEF Replace
<1>5. source # NoId => \A j : lineage[j] = lineage[id] => ~NeverStored(j)
  BY <1>1 DEF NeverStored, RotationOf
<1>6. \A q : source = NoId => ~RotationOf(q, id)
  BY DEF NeverStored, RotationOf
<1>7. IdentitiesStay
  <2>1. \A f \in Families : KeepsFamily(f)
    BY DEF KeepsFamily
  <2> QED
    BY <2>1, <1>3 DEF IdentitiesStay
<1>8. NewRecordsAllowed
  <2>1. ASSUME NEW h \in Handles, handle[h].rotation_from # NoId, handle[h].id = id
        PROVE  handle[h].rotation_from \in gone'
    BY <2>1, <1>4, <1>6 DEF IInv, RotationsAreSound
  <2>2. ASSUME NEW r \in flying, r.op = "rotate", r.id = id PROVE r.source \in gone'
    BY <2>2, <1>4, <1>6 DEF IInv, RotationsAreSound
  <2>3. ASSUME NEW h \in Handles, Fresh(h), lineage[handle[h].id] = lineage[id]
        PROVE  FamilyOf(h).creation_claimed \/ FamilyOf(h).persisted_id # NoId
    <3>1. CASE source = NoId
      BY <2>3, <3>1 DEF IInv, FreshLineage, FamilyOf
    <3>2. CASE source # NoId
      BY <2>3, <3>2, <1>5 DEF IInv, ClaimedOnceStored
    <3> QED
      BY <3>1, <3>2
  <2> QED
    BY <2>1, <2>2, <2>3, <1>3 DEF NewRecordsAllowed
<1>9. SavesStay
  <2>1. ASSUME NEW h \in Handles, HasTicket(h), lineage[handle[h].id] = lineage[id]
        PROVE  handle'[h].at \notin {"lock", "write"}
    BY <2>1, <1>5 DEF IInv, TicketsAreUnique
  <2>2. ASSUME NEW r \in flying', r.op = "insert" PROVE lineage[r.id] # lineage[id]
    BY <2>2, <1>5 DEF IInv, TicketsAreUnique
  <2> QED
    BY <2>1, <2>2, <1>3 DEF SavesStay
<1>10. Identities' /\ Saves'
  BY <1>7, <1>8, <1>9, IdentitiesFrame, SavesFrame
<1> QED
  BY <1>3, <1>10 DEF IInv, Identities, Saves, Records

\* A save's request reaches the backend.
LEMMA PutStep ==
  ASSUME IInv, TypeOK', NEW h \in Handles, Put(h)
  PROVE  IInv'
<1> DEFINE source == handle[h].origin
           id == handle[h].id
<1>1. /\ handle[h].at = "write" /\ Present(h) /\ id \in Ids /\ lineage[id] # NoId
      /\ source \in Ids \cup {NoId}
      /\ Accepts(source, id) /\ Replace(source, id)
      /\ UNCHANGED <<family, maker, lineage, flying>>
  BY DEF Put, Present, IInv, HandlesAreSessions, TypeOK, HandleStates
<1>2. /\ \A g \in Handles \ {h} : handle'[g] = handle[g]
      /\ handle'[h].at = "wrote" /\ handle'[h].id = id
      /\ handle'[h].family = handle[h].family
      /\ handle'[h].rotation_from = handle[h].rotation_from
  BY DEF Put, Move, IInv, TypeOK, HandleStates
<1>3. Stored \subseteq Stored' /\ id \in Stored'
  <2>1. records' = (records \ {source}) \cup {id} /\ gone' = gone \cup ({source} \ {id, NoId})
    BY <1>1 DEF Replace
  <2>2. NoId \notin records
    BY NoneAssumption DEF IInv, TypeOK
  <2> QED
    BY <2>1, <2>2 DEF Stored
<1>4. KeepsIdentity(h) /\ MovesOn(h)
  BY <1>1, <1>2, <1>3 DEF KeepsIdentity, MovesOn, Present
<1>5. /\ \A g \in Handles : handle'[g] = NoSession \/ KeepsIdentity(g)
      /\ \A g \in Handles : handle'[g] # NoSession => MovesOn(g)
  BY <1>2, <1>3, <1>4, HandleFrame
<1>6. CASE source = id
  <2>1. UNCHANGED <<records, gone, ended>>
    BY <1>1, <1>6, NoneAssumption DEF Accepts, Replace
  <2>2. Records' /\ Stored' = Stored /\ gone \subseteq gone'
    BY <2>1, <1>1, RecordsFrame
  <2>3. \A e \in Families : KeepsFamily(e)
    BY <1>1 DEF KeepsFamily
  <2> QED
    BY <2>2, <2>3, <1>1, <1>5, QuietStep
<1>7. CASE source = NoId
  <2>1. HasTicket(h)
    BY <1>1, <1>7 DEF HasTicket
  <2>2. /\ NeverStored(id) /\ Fresh(h) /\ FamilyOf(h).creation_claimed
        /\ \A g \in Handles : HasTicket(g) /\ lineage[handle[g].id] = lineage[id] => g = h
        /\ \A r \in flying : r.op = "insert" => lineage[r.id] # lineage[id]
    BY <2>1, <1>1 DEF IInv, TicketsAreUnique, Fresh
  <2>3. family[maker[lineage[id]]].creation_claimed
    BY <2>2 DEF IInv, FreshLineage, FamilyOf
  <2>4. source # id
    BY <1>1, <1>7, NoneAssumption
  <2> QED
    BY <2>2, <2>3, <2>4, <1>1, <1>2, <1>5, <1>7, CreateStep
<1>8. CASE source # NoId /\ source # id
  <2>1. source = handle[h].rotation_from
    BY <1>1, <1>8 DEF IInv, OriginsAreOwn
  <2>2. RotationOf(source, id)
    BY <2>1, <1>8 DEF IInv, RotationsAreSound
  <2>3. /\ \A g \in Handles : handle[g].rotation_from # NoId /\ handle[g].id = id =>
             handle[g].rotation_from = source
        /\ \A r \in flying : r.op = "rotate" /\ r.id = id => r.source = source
    BY <2>1, <1>8 DEF IInv, OneSource
  <2> QED
    BY <2>2, <2>3, <1>1, <1>5, <1>8, CreateStep
<1> QED
  BY <1>6, <1>7, <1>8

\* A request that outlived its future takes effect.
LEMMA LateStep ==
  ASSUME IInv, TypeOK', NEW r \in flying, LandLate(r)
  PROVE  IInv'
<1>1. /\ UNCHANGED <<family, handle, maker, lineage>> /\ flying' = flying \ {r}
      /\ r.id \in Ids /\ r.op \in {"insert", "rotate", "delete"}
  BY DEF LandLate, IInv, TypeOK, Requests
<1>2. \A h \in Handles : handle'[h] = NoSession \/ KeepsIdentity(h)
  BY <1>1 DEF IInv, HandlesAreSessions, KeepsIdentity, Present
<1>3. Stored \subseteq Stored' => \A h \in Handles : handle'[h] # NoSession => MovesOn(h)
  BY <1>1 DEF IInv, OriginsAreOwn, MovesOn
<1>4. \A e \in Families : KeepsFamily(e)
  BY <1>1 DEF KeepsFamily
<1>5. ASSUME Records', Stored' = Stored, gone \subseteq gone' PROVE IInv'
  BY <1>1, <1>2, <1>3, <1>4, <1>5, QuietStep
<1>6. CASE r.op = "delete"
  BY <1>1, <1>5, <1>6, RecordsEnd DEF LandLate
<1>7. CASE r.op # "delete" /\ ~Accepts(r.source, r.id)
  <2>1. UNCHANGED <<records, gone, ended>>
    BY <1>7 DEF LandLate
  <2> QED
    BY <2>1, <1>1, <1>5, RecordsFrame
<1>8. CASE r.op # "delete" /\ Accepts(r.source, r.id)
  <2>1. Replace(r.source, r.id) /\ lineage[r.id] # NoId /\ Accepts(r.source, r.id)
    BY <1>8 DEF LandLate, IInv, DrawnIds
  <2>2. Stored \subseteq Stored'
    <3>1. /\ records' = (records \ {r.source}) \cup {r.id}
          /\ gone' = gone \cup ({r.source} \ {r.id, NoId})
      BY <2>1 DEF Replace
    <3>2. NoId \notin records
      BY NoneAssumption DEF IInv, TypeOK
    <3> QED
      BY <3>1, <3>2 DEF Stored
  <2>3. \A h \in Handles : handle'[h] # NoSession => MovesOn(h)
    BY <2>2, <1>3
  <2>4. CASE r.op = "insert"
    <3>1. /\ r.source = NoId /\ r.source # r.id
          /\ NeverStored(r.id) /\ family[maker[lineage[r.id]]].creation_claimed
          /\ \A h \in Handles : HasTicket(h) => lineage[handle[h].id] # lineage[r.id]
          /\ \A q \in flying' : q.op = "insert" => lineage[q.id] # lineage[r.id]
      BY <2>4, <1>1, NoneAssumption DEF IInv, TicketsAreUnique, RotationsAreSound
    <3> QED
      BY <3>1, <2>1, <2>3, <1>1, <1>2, CreateStep
  <2>5. CASE r.op = "rotate"
    <3>1. r.source # NoId /\ r.source # r.id /\ RotationOf(r.source, r.id)
      BY <2>5 DEF IInv, RotationsAreSound
    <3>2. /\ \A h \in Handles : handle[h].rotation_from # NoId /\ handle[h].id = r.id =>
               handle[h].rotation_from = r.source
          /\ \A q \in flying : q.op = "rotate" /\ q.id = r.id => q.source = r.source
      BY <2>5 DEF IInv, OneSource
    <3> QED
      BY <3>1, <3>2, <2>1, <2>3, <1>1, <1>2, CreateStep
  <2> QED
    BY <2>4, <2>5, <1>1, <1>8
<1> QED
  BY <1>6, <1>7, <1>8

-----------------------------------------------------------------------------
(* What holds of identities and records is inductive.                      *)

\* The invariant is inductive.
LEMMA NextInv == IInv /\ [Next]_vars => IInv'
<1> SUFFICES ASSUME IInv, [Next]_vars PROVE IInv'
  OBVIOUS
<1>1. CASE Next
  <2>1. TypeOK'
    BY <1>1, NextTypes DEF IInv
  <2>2. ASSUME NEW ids, EndRecords(ids), UNCHANGED <<family, handle, maker, flying, lineage>>
        PROVE  IInv'
    <3>1. Records' /\ Stored' = Stored /\ gone \subseteq gone'
      BY <2>2, RecordsEnd
    <3>2. /\ \A h \in Handles : handle'[h] = NoSession \/ KeepsIdentity(h)
          /\ \A h \in Handles : handle'[h] # NoSession => MovesOn(h)
          /\ \A f \in Families : KeepsFamily(f)
      BY <2>2, <3>1 DEF IInv, HandlesAreSessions, OriginsAreOwn, KeepsIdentity, MovesOn,
                        KeepsFamily, Present
    <3> QED
      BY <2>1, <2>2, <3>1, <3>2, QuietStep
  <2>3. ASSUME NEW ids \in SUBSET records, ClearStore(ids) PROVE IInv'
    BY <2>2, <2>3 DEF ClearStore
  <2>4. ASSUME NEW i \in Ids, Expire(i) PROVE IInv'
    BY <2>2, <2>4 DEF Expire
  <2> QED
    BY <1>1, <2>1, <2>3, <2>4, ApplicationSteps, LoadStep, PutStep, EndingSteps, LateStep DEF Next
<1>2. CASE UNCHANGED vars
  BY <1>2 DEF vars, history, IInv, TypeOK, HandlesAreSessions, DrawnIds, FreshIsUsed,
     PersistedIsStored, RotationsAreSound, RotationOf, OneSource, OriginsAreOwn, FreshLineage,
     Fresh, FamilyOf, ClaimedOnceStored, NeverStored, TicketsAreUnique, HasTicket,
     EndedWasStored, NoResurrection, NoFork, EndedStaysEnded, Stored, Present
<1> QED
  BY <1>1, <1>2

-----------------------------------------------------------------------------
(* What a step does to the records.                                        *)

\* A step lets records go for good, puts one in the place of its source, or
\* leaves them alone, and drawn IDs keep their lineage.
LEMMA RecordSteps ==
  ASSUME IInv, [Next]_vars
  PROVE  /\ \/ \E ids : EndRecords(ids)
            \/ \E h \in Handles : Put(h)
            \/ \E r \in flying : LandLate(r) /\ r.op # "delete" /\ Replace(r.source, r.id)
            \/ UNCHANGED <<records, gone, ended>>
         /\ \A i \in Ids : lineage[i] # NoId => lineage'[i] = lineage[i]
<1>2. ASSUME NEW h \in Handles, ApplicationStep(h)
      PROVE  /\ UNCHANGED <<records, gone, ended>>
             /\ \A i \in Ids : lineage[i] # NoId => lineage'[i] = lineage[i]
  <2>1. UNCHANGED <<records, gone, ended>>
    BY <1>2 DEF ApplicationStep, New, Clone, Regenerate, Destroy, DropHandle, BeginSave,
       RefuseSave, BeginBackendWrite, RefuseBackendWrite, BeginDelete, EnterDelete,
       RefuseDelete, history
  <2>2. \/ UNCHANGED lineage
        \/ \E x : \E i \in Ids : maker[i] = NoFamily /\ lineage' = [lineage EXCEPT ![i] = x]
    BY <1>2 DEF ApplicationStep, New, Clone, Regenerate, Destroy, DropHandle, BeginSave,
       RefuseSave, BeginBackendWrite, RefuseBackendWrite, BeginDelete, EnterDelete,
       RefuseDelete, history
  <2> QED
    BY <2>1, <2>2 DEF IInv, DrawnIds, TypeOK
<1>3. ASSUME NEW h \in Handles,
             \/ RejectPut(h) \/ AbandonSave(h) \/ AbandonDiscard(h) \/ CompleteSave(h)
             \/ AbandonDelete(h) \/ \E f \in Families, i \in Ids : Load(h, f, i)
      PROVE  UNCHANGED <<records, gone, ended, lineage>>
  BY <1>3 DEF RejectPut, AbandonSave, AbandonDiscard, AbandonWrite, CompleteSave,
     AbandonDelete, Load, history
<1>4. ASSUME NEW h \in Handles, DiscardExpired(h) \/ Compensate(h) \/ CompleteDelete(h)
      PROVE  (\E ids : EndRecords(ids)) /\ UNCHANGED lineage
  BY <1>4 DEF DiscardExpired, Compensate, CompleteDelete
<1>5. ASSUME NEW h \in Handles, Put(h) PROVE UNCHANGED lineage
  BY <1>5 DEF Put
<1>6. ASSUME NEW r \in flying, LandLate(r)
      PROVE  /\ \/ EndRecords({r.id})
                \/ r.op # "delete" /\ Replace(r.source, r.id)
                \/ UNCHANGED <<records, gone, ended>>
             /\ UNCHANGED lineage
  BY <1>6 DEF LandLate
<1>7. ASSUME NEW ids, ClearStore(ids) PROVE EndRecords(ids) /\ UNCHANGED lineage
  BY <1>7 DEF ClearStore
<1>8. ASSUME NEW i, Expire(i) PROVE EndRecords({i}) /\ UNCHANGED lineage
  BY <1>8 DEF Expire
<1>9. CASE UNCHANGED vars
  BY <1>9 DEF vars, history
<1> QED
  BY <1>2, <1>3, <1>4, <1>5, <1>6, <1>7, <1>8, <1>9 DEF Next

\* Records only leave the backend into history.
LEMMA RemovedIsGone ==
  ASSUME IInv, [Next]_vars
  PROVE  gone \subseteq gone' /\ records \subseteq records' \cup gone'
<1>1. ASSUME NEW ids, EndRecords(ids)
      PROVE  gone \subseteq gone' /\ records \subseteq records' \cup gone'
  BY <1>1 DEF EndRecords
<1>2. ASSUME NEW source, NEW id, Replace(source, id)
      PROVE  gone \subseteq gone' /\ records \subseteq records' \cup gone'
  <2>1. NoId \notin records
    BY NoneAssumption DEF IInv, TypeOK
  <2> QED
    BY <1>2, <2>1 DEF Replace
<1> QED
  BY <1>1, <1>2, RecordSteps DEF Put

\* Nothing that was stored when a clear started is stored anew.
LEMMA NothingReturns ==
  ASSUME IInv, IInv', [Next]_vars, NEW start, start \subseteq Stored
  PROVE  start \subseteq Stored' /\ start \cap records' \subseteq start \cap records
<1>1. gone \subseteq gone' /\ records \subseteq records' \cup gone'
  BY RemovedIsGone
<1>2. gone' \cap records' = {}
  BY DEF IInv, NoResurrection
<1> QED
  BY <1>1, <1>2 DEF Stored

\* Whoever replaces a record continues its session.
LEMMA SuccessorsDescend ==
  ASSUME IInv
  PROVE  /\ \A h \in Handles : handle[h].at = "write" /\ handle[h].origin # NoId =>
              lineage[handle[h].origin] = lineage[handle[h].id]
         /\ \A r \in flying : r.op # "delete" /\ r.source # NoId =>
              r.source \in Stored /\ lineage[r.source] = lineage[r.id]
<1>1. ASSUME NEW h \in Handles, handle[h].at = "write", handle[h].origin # NoId
      PROVE  lineage[handle[h].origin] = lineage[handle[h].id]
  BY <1>1 DEF IInv, OriginsAreOwn, RotationsAreSound, RotationOf
<1>2. ASSUME NEW r \in flying, r.op # "delete", r.source # NoId
      PROVE  r.source \in Stored /\ lineage[r.source] = lineage[r.id]
  <2>1. r.op = "rotate"
    BY <1>2 DEF IInv, RotationsAreSound, TypeOK, Requests
  <2> QED
    BY <2>1, <1>2 DEF IInv, RotationsAreSound, RotationOf
<1> QED
  BY <1>1, <1>2

LEMMA RotationKeepsStep ==
  ASSUME IInv, RotationKeepsSession, [Next]_vars
  PROVE  RotationKeepsSession'
<1>1. \A j \in Stored : j \in Ids /\ lineage'[j] = lineage[j]
  BY RecordSteps DEF IInv, DrawnIds, Stored, TypeOK
<1>2. ASSUME NEW ids, EndRecords(ids) PROVE RotationKeepsSession'
  BY <1>1, <1>2 DEF EndRecords, RotationKeepsSession, Stored
<1>3. ASSUME NEW source, NEW id, Replace(source, id),
             source # NoId => source \in Stored /\ lineage[source] = lineage[id],
             id \in Ids, lineage[id] # NoId
      PROVE  RotationKeepsSession'
  <2>1. lineage'[id] = lineage[id]
    BY <1>3, RecordSteps
  <2>2. /\ records' = (records \ {source}) \cup {id}
        /\ gone' = gone \cup ({source} \ {id, NoId})
        /\ ended' = ended
    BY <1>3 DEF Replace
  <2>3. ASSUME NEW j \in gone'
        PROVE  lineage'[j] \in ended' \/ \E i \in records' : lineage'[i] = lineage'[j]
    <3>1. CASE j \in gone
      <4>1. lineage'[j] = lineage[j]
        BY <3>1, <1>1 DEF Stored
      <4>2. CASE lineage[j] \in ended
        BY <4>1, <4>2, <2>2
      <4>3. ASSUME NEW i \in records, lineage[i] = lineage[j]
            PROVE  \E k \in records' : lineage'[k] = lineage'[j]
        <5>1. lineage'[i] = lineage[i] /\ i \in Ids
          BY <1>1 DEF Stored
        <5>2. i # NoId
          BY <5>1, NoneAssumption
        <5>3. i # source => i \in records'
          BY <2>2
        <5>4. i = source => lineage[id] = lineage[i]
          BY <1>3, <5>2
        <5> QED
          BY <5>1, <5>3, <5>4, <4>1, <4>3, <2>1, <2>2
      <4> QED
        BY <3>1, <4>2, <4>3 DEF RotationKeepsSession
    <3>2. CASE j = source /\ j # NoId
      <4>1. lineage[j] = lineage[id]
        BY <3>2, <1>3
      <4>2. lineage'[j] = lineage[j]
        BY <3>2, <1>1, <1>3
      <4> QED
        BY <4>1, <4>2, <2>1, <2>2
    <3> QED
      BY <2>2, <2>3, <3>1, <3>2
  <2> QED
    BY <2>3 DEF RotationKeepsSession
<1>4. ASSUME NEW h \in Handles, Put(h) PROVE RotationKeepsSession'
  <2>1. /\ handle[h].at = "write" /\ Replace(handle[h].origin, handle[h].id)
        /\ handle[h].id \in Ids /\ lineage[handle[h].id] # NoId
        /\ handle[h].origin # NoId => handle[h].origin \in Stored
    BY <1>4 DEF Put, Accepts, Stored, IInv, HandlesAreSessions, Present
  <2> QED
    BY <2>1, <1>3, SuccessorsDescend
<1>5. ASSUME NEW r \in flying, r.op # "delete", Replace(r.source, r.id)
      PROVE  RotationKeepsSession'
  <2>1. r.id \in Ids /\ lineage[r.id] # NoId
    BY <1>5 DEF IInv, DrawnIds, TypeOK, Requests
  <2> QED
    BY <2>1, <1>5, <1>3, SuccessorsDescend
<1>6. CASE UNCHANGED <<records, gone, ended>>
  BY <1>6, <1>1 DEF RotationKeepsSession, Stored
<1> QED
  BY <1>2, <1>4, <1>5, <1>6, RecordSteps

-----------------------------------------------------------------------------
(* The lifecycle lock: who may write or delete, and what they know.        *)

Writing(h) == handle[h].at \in {"write", "wrote"}

\* A handle that may create a record draws its own IDs.
OwnsId(h) ==
    Present(h) /\ (FamilyOf(h).fresh \/ handle[h].rotation_from # NoId) =>
        maker[handle[h].id] = handle[h].family

\* Backend calls are made by the holder of the family's lifecycle lock.
HoldsLock(h) == Writing(h) \/ handle[h].at = "delete" => FamilyOf(h).holder = h

\* What a save took for the persisted identity is still it, a rotation that
\* was written has revoked it, and the guard knows whether it may create.
WritesCurrent(h) ==
    /\ HasTicket(h) => FamilyOf(h).persisted_id = NoId
    /\ Writing(h) =>
         /\ handle[h].origin = FamilyOf(h).persisted_id
         /\ handle[h].uncertain_on_drop <=> CanCreate(h) /\ CanOutliveFuture
    /\ handle[h].at = "wrote" /\ handle[h].origin \notin {NoId, handle[h].id} =>
         handle[h].origin = handle[h].rotation_from /\ handle[h].origin \in gone

\* A deletion has marked destruction; it and every save that writes hold a
\* lock without uncertainty.
MarksDeletion(h) ==
    /\ handle[h].at \in {"dlock", "delete"} => FamilyOf(h).destroy
    /\ Writing(h) \/ handle[h].at = "delete" => ~FamilyOf(h).uncertain

Locks(h) == OwnsId(h) /\ HoldsLock(h) /\ WritesCurrent(h) /\ MarksDeletion(h)

Locking == \A h \in Handles : Locks(h)

\* What a step does to the family of a handle that does not take it: only the
\* holder of the lock changes the lock, the fence or the identity.
KeepsLock(h) ==
    LET old == FamilyOf(h)
        new == family'[handle[h].family]
    IN  /\ new.fresh = old.fresh
        /\ old.destroy => new.destroy
        /\ new.persisted_id = old.persisted_id \/ ~(Writing(h) \/ HasTicket(h))
        /\ \/ new.holder = old.holder /\ (new.uncertain <=> old.uncertain)
           \/ old.holder # h

\* A handle that does nothing keeps its rights.
LEMMA LocksFrame ==
  ASSUME IInv, NEW g \in Handles, Locks(g), handle'[g] = handle[g],
         Present(g) => KeepsLock(g) /\ maker'[handle[g].id] = maker[handle[g].id],
         gone \subseteq gone'
  PROVE  Locks(g)'
<1>1. CASE ~Present(g)
  BY <1>1 DEF Present, Locks, OwnsId, HoldsLock, WritesCurrent, MarksDeletion, Writing, HasTicket
<1>2. CASE Present(g)
  <2>1. OwnsId(g)'
    BY <1>2 DEF Locks, OwnsId, KeepsLock, FamilyOf, Present
  <2>2. HoldsLock(g)'
    BY <1>2 DEF Locks, HoldsLock, KeepsLock, FamilyOf, Writing
  <2>3. WritesCurrent(g)'
    BY <1>2 DEF Locks, WritesCurrent, KeepsLock, FamilyOf, Writing, HasTicket, CanCreate
  <2>4. MarksDeletion(g)'
    BY <1>2 DEF Locks, MarksDeletion, HoldsLock, KeepsLock, FamilyOf, Writing
  <2> QED
    BY <2>1, <2>2, <2>3, <2>4 DEF Locks
<1> QED
  BY <1>1, <1>2

\* A step of one handle that ends with the lock in order.
LEMMA LockingFrame ==
  ASSUME IInv, Locking, NEW h \in Handles,
         \A g \in Handles \ {h} : handle'[g] = handle[g],
         \A g \in Handles \ {h} : Present(g) =>
            KeepsLock(g) /\ maker'[handle[g].id] = maker[handle[g].id],
         gone \subseteq gone', handle'[h] = NoSession \/ Locks(h)'
  PROVE  Locking'
<1>1. \A g \in Handles \ {h} : Locks(g)'
  BY LocksFrame DEF Locking
<1>2. handle'[h] = NoSession => Locks(h)'
  BY DEF NoSession, Present, Locks, OwnsId, HoldsLock, WritesCurrent, MarksDeletion, Writing,
     HasTicket
<1> QED
  BY <1>1, <1>2 DEF Locking

\* What the drop of a write guard does to its family.
LEMMA ReleaseFacts ==
  ASSUME TypeOK, NEW h \in Handles, handle[h].family \in Families, NEW s, ReleaseWrite(h, s)
  PROVE  /\ \A e \in Families : e # handle[h].family => family'[e] = family[e]
         /\ LET old == FamilyOf(h)
                new == family'[handle[h].family]
            IN  /\ new.fresh = old.fresh /\ new.destroy = old.destroy
                /\ new.persisted_id = old.persisted_id /\ new.holder = NoHandle
                /\ new.uncertain <=> old.uncertain \/ (~s /\ handle[h].uncertain_on_drop)
  BY DEF ReleaseWrite, TypeOK, FamilyStates, FamilyOf

\* The end of a call that held the lock, or of one that never had it.
LEMMA EndLocking ==
  ASSUME IInv, Locking, NEW h \in Handles, Present(h), Discard(h),
         maker' = maker, gone \subseteq gone',
         \A e \in Families : e # handle[h].family => family'[e] = family[e],
         LET old == FamilyOf(h)
             new == family'[handle[h].family]
         IN  /\ new.fresh = old.fresh
             /\ old.destroy => new.destroy
             /\ \/ new.persisted_id = old.persisted_id
                \/ old.holder = h /\ \A g \in Handles : HasTicket(g) => handle[g].family # handle[h].family
             /\ \/ new.holder = old.holder /\ (new.uncertain <=> old.uncertain)
                \/ old.holder \in {h, NoHandle}
  PROVE  Locking'
<1>1. handle'[h] = NoSession /\ \A g \in Handles \ {h} : handle'[g] = handle[g]
  BY DEF Discard, IInv, TypeOK
<1>2. ASSUME NEW g \in Handles \ {h}, Present(g) PROVE KeepsLock(g)
  <2>1. handle[g].family \in Families
    BY <1>2 DEF IInv, HandlesAreSessions
  <2>2. Writing(g) => FamilyOf(g).holder = g
    BY DEF Locking, Locks, HoldsLock
  <2>3. g # NoHandle
    BY NoneAssumption
  <2>4. CASE handle[g].family # handle[h].family
    BY <2>1, <2>4 DEF KeepsLock, FamilyOf
  <2>5. CASE handle[g].family = handle[h].family
    BY <2>2, <2>3, <2>5 DEF KeepsLock, FamilyOf
  <2> QED
    BY <2>4, <2>5
<1> QED
  BY <1>1, <1>2, LockingFrame

\* A handle of the application's that starts or ends no call.
LEMMA LiveLocks ==
  ASSUME NEW h, handle'[h].at \in {"live", "lock"}, ~HasTicket(h)', OwnsId(h)'
  PROVE  Locks(h)'
  BY DEF Locks, HoldsLock, WritesCurrent, MarksDeletion, Writing

\* Session::new, Clone, load_session and Session::regenerate.
LEMMA NewLocking ==
  ASSUME IInv, Locking, NEW h \in Handles, NEW f \in Families, NEW i \in Ids, New(h, f, i)
  PROVE  Locking'
<1>1. /\ \A g \in Handles \ {h} : handle'[g] = handle[g]
      /\ handle'[h].at = "live" /\ handle'[h].family = f /\ handle'[h].id = i
      /\ \A e \in Families : e # f => family'[e] = family[e]
      /\ maker'[i] = f /\ \A j \in Ids : j # i => maker'[j] = maker[j]
      /\ ~family[f].used /\ maker[i] = NoFamily /\ gone' = gone
  BY DEF New, IInv, TypeOK, HandleStates, FamilyStates
<1>2. ASSUME NEW g \in Handles \ {h}, Present(g)
      PROVE  KeepsLock(g) /\ maker'[handle[g].id] = maker[handle[g].id]
  <2>1. /\ handle[g].family \in Families /\ handle[g].family # f
        /\ handle[g].id \in Ids /\ handle[g].id # i
    BY <1>1, <1>2 DEF IInv, HandlesAreSessions, DrawnIds
  <2> QED
    BY <1>1, <2>1 DEF KeepsLock, FamilyOf
<1>3. Locks(h)'
  BY <1>1, LiveLocks DEF OwnsId, HasTicket
<1> QED
  BY <1>1, <1>2, <1>3, LockingFrame

LEMMA CloneLocking ==
  ASSUME IInv, Locking, NEW h \in Handles, NEW g \in Handles, Clone(h, g)
  PROVE  Locking'
<1>1. /\ \A k \in Handles \ {g} : handle'[k] = handle[k]
      /\ handle'[g] = handle[h] /\ handle[h].at = "live"
      /\ UNCHANGED <<family, maker, gone>>
  BY DEF Clone, IInv, TypeOK, history
<1>2. \A k \in Handles : KeepsLock(k)
  BY <1>1 DEF KeepsLock, FamilyOf
<1>3. Locks(g)'
  BY <1>1, LiveLocks DEF Locking, Locks, OwnsId, HasTicket, FamilyOf, Present
<1> QED
  BY <1>1, <1>2, <1>3, LockingFrame

LEMMA LoadLocking ==
  ASSUME IInv, Locking, NEW h \in Handles, NEW f \in Families, NEW i \in Ids, Load(h, f, i)
  PROVE  Locking'
<1>1. /\ \A g \in Handles \ {h} : handle'[g] = handle[g]
      /\ handle'[h].at = "live" /\ handle'[h].family = f
      /\ handle'[h].rotation_from = handle[h].rotation_from
      /\ family'[f].fresh = family[f].fresh
      /\ \A e \in Families : e # f => family'[e] = family[e]
      /\ ~family[f].used /\ UNCHANGED <<maker, gone>> /\ handle[h].at = "absent"
  BY DEF Load, IInv, TypeOK, HandleStates, FamilyStates, history
<1>2. ASSUME NEW g \in Handles \ {h}, Present(g) PROVE KeepsLock(g)
  <2>1. handle[g].family \in Families /\ handle[g].family # f
    BY <1>1, <1>2 DEF IInv, HandlesAreSessions
  <2> QED
    BY <1>1, <2>1 DEF KeepsLock, FamilyOf
<1>3. ~family'[f].fresh /\ handle'[h].rotation_from = NoId
  BY <1>1 DEF IInv, HandlesAreSessions, FreshIsUsed, Present, NoSession
<1>4. Locks(h)'
  BY <1>1, <1>3, LiveLocks DEF OwnsId, HasTicket, FamilyOf
<1> QED
  BY <1>1, <1>2, <1>4, LockingFrame

LEMMA RegenerateLocking ==
  ASSUME IInv, Locking, NEW h \in Handles, NEW i \in Ids, Regenerate(h, i)
  PROVE  Locking'
<1>1. /\ \A g \in Handles \ {h} : handle'[g] = handle[g]
      /\ handle'[h].at = "live" /\ handle'[h].family = handle[h].family /\ handle'[h].id = i
      /\ maker'[i] = handle[h].family /\ \A j \in Ids : j # i => maker'[j] = maker[j]
      /\ maker[i] = NoFamily /\ UNCHANGED <<family, gone>>
  BY DEF Regenerate, IInv, TypeOK, HandleStates
<1>2. \A g \in Handles : KeepsLock(g)
  BY <1>1 DEF KeepsLock, FamilyOf
<1>3. ASSUME NEW g \in Handles, Present(g) PROVE maker'[handle[g].id] = maker[handle[g].id]
  BY <1>1, <1>3 DEF IInv, HandlesAreSessions, DrawnIds
<1>4. Locks(h)'
  BY <1>1, LiveLocks DEF OwnsId, HasTicket
<1> QED
  BY <1>1, <1>2, <1>3, <1>4, LockingFrame

\* Session::destroy and the start of store_session and destroy_session.
LEMMA DestroyLocking ==
  ASSUME IInv, Locking, NEW h \in Handles, Destroy(h) \/ BeginDelete(h)
  PROVE  Locking'
<1> DEFINE f == handle[h].family
<1>1. /\ handle[h].at = "live" /\ f \in Families
      /\ \A g \in Handles \ {h} : handle'[g] = handle[g]
      /\ handle'[h].at \in {"live", "dlock"}
      /\ handle'[h].family = f /\ handle'[h].id = handle[h].id
      /\ handle'[h].rotation_from = handle[h].rotation_from
      /\ UNCHANGED <<maker, gone>>
  BY DEF Destroy, BeginDelete, Move, IInv, HandlesAreSessions, Present, TypeOK, HandleStates,
     history
<1>2. /\ family'[f].destroy /\ family'[f].fresh = family[f].fresh
      /\ family'[f].persisted_id = family[f].persisted_id
      /\ family'[f].holder = family[f].holder /\ family'[f].uncertain = family[f].uncertain
      /\ \A e \in Families : e # f => family'[e] = family[e]
  BY <1>1 DEF Destroy, BeginDelete, IInv, TypeOK, FamilyStates
<1>3. ASSUME NEW g \in Handles, Present(g) PROVE KeepsLock(g)
  <2>1. handle[g].family \in Families
    BY <1>3 DEF IInv, HandlesAreSessions
  <2> QED
    BY <2>1, <1>2 DEF KeepsLock, FamilyOf
<1>4. Locks(h)'
  BY <1>1, <1>2 DEF Locking, Locks, OwnsId, HoldsLock, WritesCurrent, MarksDeletion, Writing,
     HasTicket, FamilyOf, Present
<1> QED
  BY <1>1, <1>3, <1>4, LockingFrame

LEMMA BeginSaveLocking ==
  ASSUME IInv, Locking, NEW h \in Handles, BeginSave(h)
  PROVE  Locking'
<1> DEFINE f == handle[h].family
<1>1. /\ handle[h].at = "live" /\ f \in Families
      /\ \A g \in Handles \ {h} : handle'[g] = handle[g]
      /\ handle'[h].at = "lock" /\ handle'[h].origin = family[f].persisted_id
      /\ handle'[h].family = f /\ handle'[h].id = handle[h].id
      /\ handle'[h].rotation_from = handle[h].rotation_from
      /\ UNCHANGED <<maker, gone>>
  BY DEF BeginSave, FamilyOf, IInv, HandlesAreSessions, Present, TypeOK, HandleStates, history
<1>2. /\ family'[f].fresh = family[f].fresh /\ family'[f].destroy = family[f].destroy
      /\ family'[f].persisted_id = family[f].persisted_id
      /\ family'[f].holder = family[f].holder /\ family'[f].uncertain = family[f].uncertain
      /\ \A e \in Families : e # f => family'[e] = family[e]
  BY <1>1 DEF BeginSave, IInv, TypeOK, FamilyStates
<1>3. ASSUME NEW g \in Handles, Present(g) PROVE KeepsLock(g)
  <2>1. handle[g].family \in Families
    BY <1>3 DEF IInv, HandlesAreSessions
  <2> QED
    BY <2>1, <1>2 DEF KeepsLock, FamilyOf
<1>4. Locks(h)'
  BY <1>1, <1>2 DEF Locking, Locks, OwnsId, HoldsLock, WritesCurrent, MarksDeletion, Writing,
     HasTicket, FamilyOf, Present
<1> QED
  BY <1>1, <1>3, <1>4, LockingFrame

\* The lock is free when it is taken.
LEMMA EnterLocking ==
  ASSUME IInv, Locking, NEW h \in Handles, BeginBackendWrite(h) \/ EnterDelete(h)
  PROVE  Locking'
<1> DEFINE f == handle[h].family
<1>1. /\ handle[h].at \in {"lock", "dlock"} /\ f \in Families
      /\ family[f].holder = NoHandle /\ ~family[f].uncertain
      /\ \A g \in Handles \ {h} : handle'[g] = handle[g]
      /\ handle'[h].family = f /\ handle'[h].id = handle[h].id
      /\ handle'[h].origin = handle[h].origin
      /\ handle'[h].rotation_from = handle[h].rotation_from
      /\ UNCHANGED <<maker, gone>>
  BY DEF BeginBackendWrite, EnterDelete, AdmitsWrite, AdmitsDelete, FamilyOf, IInv,
     HandlesAreSessions, Present, TypeOK, HandleStates, history
<1>2. /\ family'[f].fresh = family[f].fresh /\ family'[f].destroy = family[f].destroy
      /\ family'[f].persisted_id = family[f].persisted_id
      /\ family'[f].holder = h /\ family'[f].uncertain = family[f].uncertain
      /\ \A e \in Families : e # f => family'[e] = family[e]
  BY <1>1 DEF BeginBackendWrite, EnterDelete, IInv, TypeOK, FamilyStates
<1>3. ASSUME NEW g \in Handles, Present(g) PROVE KeepsLock(g)
  <2>1. handle[g].family \in Families /\ g # NoHandle
    BY <1>3, NoneAssumption DEF IInv, HandlesAreSessions
  <2> QED
    BY <2>1, <1>1, <1>2 DEF KeepsLock, FamilyOf
<1>4. OwnsId(h)'
  BY <1>1, <1>2 DEF Locking, Locks, OwnsId, FamilyOf, Present
<1>5. CASE BeginBackendWrite(h)
  <2>1. /\ handle[h].at = "lock" /\ handle'[h].at = "write" /\ ~Superseded(h)
    BY <1>5 DEF BeginBackendWrite, IInv, TypeOK, HandleStates
  <2>2. handle'[h].uncertain_on_drop <=> CanCreate(h) /\ CanOutliveFuture
    BY <1>5 DEF BeginBackendWrite, IInv, TypeOK, HandleStates
  <2>3. handle[h].origin = family[f].persisted_id
    <3>1. CASE handle[h].origin = NoId
      BY <2>1, <3>1 DEF Locking, Locks, WritesCurrent, HasTicket, FamilyOf
    <3>2. CASE handle[h].origin # NoId
      BY <2>1, <3>2 DEF Superseded, FamilyOf
    <3> QED
      BY <3>1, <3>2
  <2>4. CanCreate(h)' <=> CanCreate(h)
    BY <1>1 DEF CanCreate
  <2>5. WritesCurrent(h)'
    BY <1>1, <1>2, <2>1, <2>2, <2>3, <2>4 DEF WritesCurrent, Writing, HasTicket, FamilyOf
  <2>6. HoldsLock(h)' /\ MarksDeletion(h)'
    BY <1>1, <1>2, <2>1 DEF HoldsLock, MarksDeletion, Writing, FamilyOf
  <2> QED
    <3>1. Locks(h)'
      BY <1>4, <2>5, <2>6 DEF Locks
    <3> QED
      BY <1>1, <1>3, <3>1, LockingFrame
<1>6. CASE EnterDelete(h)
  <2>1. handle[h].at = "dlock" /\ handle'[h].at = "delete" /\ family[f].destroy
    BY <1>6 DEF EnterDelete, Locking, Locks, MarksDeletion, FamilyOf, IInv, TypeOK, HandleStates
  <2>2. WritesCurrent(h)'
    BY <2>1 DEF WritesCurrent, Writing, HasTicket
  <2>3. HoldsLock(h)' /\ MarksDeletion(h)'
    BY <1>1, <1>2, <2>1 DEF HoldsLock, MarksDeletion, Writing, FamilyOf
  <2>4. Locks(h)'
    BY <1>4, <2>2, <2>3 DEF Locks
  <2> QED
    BY <1>1, <1>3, <2>4, LockingFrame
<1> QED
  BY <1>5, <1>6

\* The backend's answer to a write: a rotation has removed its source.
LEMMA PutLocking ==
  ASSUME IInv, Locking, NEW h \in Handles, Put(h)
  PROVE  Locking'
<1>1. /\ handle[h].at = "write" /\ handle'[h].at = "wrote"
      /\ \A g \in Handles \ {h} : handle'[g] = handle[g]
      /\ handle'[h].family = handle[h].family /\ handle'[h].id = handle[h].id
      /\ handle'[h].origin = handle[h].origin
      /\ handle'[h].rotation_from = handle[h].rotation_from
      /\ handle'[h].uncertain_on_drop = handle[h].uncertain_on_drop
      /\ gone' = gone \cup ({handle[h].origin} \ {handle[h].id, NoId})
      /\ UNCHANGED <<family, maker>>
  BY DEF Put, Replace, Move, IInv, TypeOK, HandleStates
<1>2. \A g \in Handles : KeepsLock(g)
  BY <1>1 DEF KeepsLock, FamilyOf
<1>3. handle[h].origin \notin {NoId, handle[h].id} => handle[h].origin = handle[h].rotation_from
  BY <1>1 DEF IInv, OriginsAreOwn
<1>4. Locks(h)'
  BY <1>1, <1>3 DEF Locking, Locks, OwnsId, HoldsLock, WritesCurrent, MarksDeletion, Writing,
     HasTicket, CanCreate, FamilyOf, Present
<1> QED
  BY <1>1, <1>2, <1>4, LockingFrame

\* The calls that end: every one but complete only gives up the lock.
LEMMA EndingLocking ==
  ASSUME IInv, Locking, NEW h \in Handles,
         \/ DropHandle(h) \/ RefuseSave(h) \/ RefuseBackendWrite(h) \/ RefuseDelete(h)
         \/ RejectPut(h) \/ AbandonSave(h) \/ AbandonDiscard(h) \/ DiscardExpired(h)
         \/ CompleteSave(h) \/ Compensate(h) \/ CompleteDelete(h) \/ AbandonDelete(h)
  PROVE  Locking'
<1> DEFINE f == handle[h].family
<1>1. /\ handle[h].at # "absent" /\ Discard(h) /\ maker' = maker /\ gone \subseteq gone'
  BY DEF DropHandle, RefuseSave, RefuseBackendWrite, RefuseDelete, RejectPut, AbandonSave,
     AbandonDiscard, AbandonWrite, DiscardExpired, CompleteSave, Compensate, CompleteDelete,
     AbandonDelete, EndRecords, history
<1>2. Present(h) /\ f \in Families
  BY <1>1 DEF Present, IInv, HandlesAreSessions
<1>3. TypeOK
  BY DEF IInv
<1>4. handle[h].at \in {"write", "wrote", "delete"} => family[f].holder = h
  BY DEF Locking, Locks, HoldsLock, Writing, FamilyOf
<1>5. CASE family' = family
  BY <1>1, <1>2, <1>5, EndLocking DEF FamilyOf
<1>6. ASSUME NEW s, ReleaseWrite(h, s), handle[h].at \in {"write", "wrote"} PROVE Locking'
  BY <1>1, <1>2, <1>3, <1>4, <1>6, ReleaseFacts, EndLocking DEF FamilyOf
<1>7. CASE RefuseBackendWrite(h) /\ family' # family
  <2>1. /\ family[f].holder = NoHandle
        /\ family' = [family EXCEPT ![f].uncertain = @ \/ (CanCreate(h) /\ CanOutliveFuture)]
    BY <1>7 DEF RefuseBackendWrite, FamilyOf
  <2>2. /\ \A e \in Families : e # f => family'[e] = family[e]
        /\ family'[f].fresh = family[f].fresh /\ family'[f].destroy = family[f].destroy
        /\ family'[f].persisted_id = family[f].persisted_id
    BY <2>1, <1>2, <1>3 DEF TypeOK, FamilyStates
  <2> QED
    BY <1>1, <1>2, <2>1, <2>2, EndLocking DEF FamilyOf
<1>8. CASE CompleteDelete(h) \/ AbandonDelete(h)
  <2>1. handle[h].at = "delete" /\ family' = [family EXCEPT ![f].holder = NoHandle]
    BY <1>8 DEF CompleteDelete, AbandonDelete
  <2>2. /\ \A e \in Families : e # f => family'[e] = family[e]
        /\ family'[f].fresh = family[f].fresh /\ family'[f].destroy = family[f].destroy
        /\ family'[f].persisted_id = family[f].persisted_id
    BY <2>1, <1>2, <1>3 DEF TypeOK, FamilyStates
  <2> QED
    BY <1>1, <1>2, <1>4, <2>1, <2>2, EndLocking DEF FamilyOf
<1>9. CASE CompleteSave(h)
  <2>1. /\ handle[h].at = "wrote"
        /\ family' = [family EXCEPT ![f].persisted_id = MarkPersisted(h), ![f].holder = NoHandle]
    BY <1>9 DEF CompleteSave
  <2>2. /\ \A e \in Families : e # f => family'[e] = family[e]
        /\ family'[f].fresh = family[f].fresh /\ family'[f].destroy = family[f].destroy
    BY <2>1, <1>2, <1>3 DEF TypeOK, FamilyStates
  <2>3. ASSUME NEW g \in Handles, HasTicket(g) PROVE handle[g].family # f
    <3>1. Fresh(g) /\ NeverStored(handle[g].id) /\ handle[h].id \in Stored
      BY <2>1, <2>3 DEF IInv, TicketsAreUnique, OriginsAreOwn, Fresh, HasTicket, Present
    <3> QED
      BY <3>1, <1>2 DEF IInv, FreshLineage, NeverStored
  <2> QED
    BY <1>1, <1>2, <1>4, <2>1, <2>2, <2>3, EndLocking DEF FamilyOf
<1> QED
  BY <1>5, <1>6, <1>7, <1>8, <1>9
  DEF DropHandle, RefuseSave, RefuseBackendWrite, RefuseDelete, RejectPut, AbandonSave,
      AbandonDiscard, AbandonWrite, DiscardExpired, Compensate

\* Locks stay in order.
LEMMA LockingStep ==
  ASSUME IInv, Locking, [Next]_vars
  PROVE  Locking'
<1>1. ASSUME UNCHANGED <<family, handle, maker>>, gone \subseteq gone' PROVE Locking'
  <2>1. \A h \in Handles : KeepsLock(h)
    BY <1>1 DEF KeepsLock, FamilyOf
  <2> QED
    BY <1>1, <2>1, LocksFrame DEF Locking
<1>2. ASSUME NEW h \in Handles, ApplicationStep(h) PROVE Locking'
  BY <1>2, NewLocking, CloneLocking, RegenerateLocking, DestroyLocking, BeginSaveLocking,
     EnterLocking, EndingLocking DEF ApplicationStep
<1>3. ASSUME NEW ids, ClearStore(ids) PROVE Locking'
  BY <1>1, <1>3 DEF ClearStore, EndRecords
<1>4. ASSUME NEW i, Expire(i) PROVE Locking'
  BY <1>1, <1>4 DEF Expire, EndRecords
<1>5. ASSUME NEW r \in flying, LandLate(r) PROVE Locking'
  BY <1>1, <1>5 DEF LandLate, EndRecords, Replace
<1>6. CASE UNCHANGED vars
  BY <1>1, <1>6 DEF vars, history
<1> QED
  BY <1>2, <1>3, <1>4, <1>5, <1>6, LoadLocking, PutLocking, EndingLocking DEF Next

-----------------------------------------------------------------------------
(* The uncertainty fence.                                                  *)

\* Creations that can still land have raised the fence of their family.
LateWritesAreFenced ==
    /\ \A r \in flying : r.op # "delete" => family[maker[r.id]].uncertain
    /\ ~CanOutliveFuture => flying = {} /\ \A f \in Families : ~family[f].uncertain

\* A record is known to the family that made it, or about to be.
Known(i) ==
    \/ family[maker[i]].uncertain
    \/ family[maker[i]].persisted_id = i
    \/ \E h \in Handles : /\ handle[h].at = "wrote" /\ handle[h].id = i
                          /\ handle[h].family = maker[i]

NoStrayRecord == \A i \in records : Known(i)

\* What is known of a save that has written: completing it records its ID,
\* and abandoning it raises the fence unless the record was known before.
LEMMA WrittenIdentity ==
  ASSUME IInv, Locking, NEW h \in Handles, handle[h].at = "wrote"
  PROVE  /\ MarkPersisted(h) = handle[h].id
         /\ FamilyOf(h).persisted_id # handle[h].id =>
              FamilyOf(h).persisted_id \notin records
         /\ \/ handle[h].uncertain_on_drop
            \/ FamilyOf(h).persisted_id = handle[h].id
            \/ ~CanOutliveFuture
<1>1. /\ handle[h].origin = FamilyOf(h).persisted_id
      /\ handle[h].uncertain_on_drop <=> CanCreate(h) /\ CanOutliveFuture
      /\ handle[h].origin \notin {NoId, handle[h].id} =>
           handle[h].origin = handle[h].rotation_from /\ handle[h].origin \in gone
  BY DEF Locking, Locks, WritesCurrent, Writing
<1>2. MarkPersisted(h) = handle[h].id
  BY <1>1 DEF MarkPersisted
<1>3. NoId \notin records
  BY NoneAssumption DEF IInv, TypeOK
<1> QED
  BY <1>1, <1>2, <1>3 DEF CanCreate, IInv, NoResurrection

\* Families that drew an ID are in use.
MakersAreUsed ==
    \A i \in Ids : maker[i] # NoFamily => maker[i] \in Families /\ family[maker[i]].used

Fence == MakersAreUsed /\ LateWritesAreFenced /\ NoStrayRecord

\* Who may create a record has drawn its ID.
LEMMA CreatorOwnsId ==
  ASSUME IInv, Locking, NEW h \in Handles, handle[h].at = "write", CanCreate(h)
  PROVE  maker[handle[h].id] = handle[h].family
<1>1. Present(h)
  BY DEF Present
<1>2. FamilyOf(h).fresh \/ handle[h].rotation_from # NoId
  BY DEF IInv, TicketsAreUnique, OriginsAreOwn, HasTicket, CanCreate
<1> QED
  BY <1>1, <1>2 DEF Locking, Locks, OwnsId

\* Flags of a family are never taken back, and only requests that outlive
\* their futures raise the fence.
LEMMA FlagsStay ==
  ASSUME IInv, Locking, [Next]_vars, NEW e \in Families
  PROVE  /\ family[e].used => family'[e].used
         /\ family[e].destroy => family'[e].destroy
         /\ family[e].uncertain => family'[e].uncertain
         /\ ~CanOutliveFuture /\ ~family[e].uncertain => ~family'[e].uncertain
         /\ \/ family'[e].persisted_id = family[e].persisted_id
            \/ ~family[e].used
            \/ \E h \in Handles : CompleteSave(h) /\ handle[h].family = e
<1>0. TypeOK
  BY DEF IInv
<1>1. CASE family' = family
  BY <1>1
<1>2. ASSUME NEW h \in Handles, NEW s, Present(h), handle[h].at \in {"write", "wrote"},
             ReleaseWrite(h, s)
      PROVE  /\ family'[e].used = family[e].used /\ family'[e].destroy = family[e].destroy
             /\ family'[e].persisted_id = family[e].persisted_id
             /\ family[e].uncertain => family'[e].uncertain
             /\ ~CanOutliveFuture /\ ~family[e].uncertain => ~family'[e].uncertain
  <2>1. handle[h].uncertain_on_drop => CanOutliveFuture
    BY <1>2 DEF Locking, Locks, WritesCurrent, Writing
  <2> QED
    BY <1>0, <1>2, <2>1 DEF ReleaseWrite, TypeOK, FamilyStates
<1>3. ASSUME NEW h \in Handles, ApplicationStep(h)
      PROVE  /\ family[e].used => family'[e].used
             /\ family[e].destroy => family'[e].destroy
             /\ family[e].uncertain => family'[e].uncertain
             /\ ~CanOutliveFuture /\ ~family[e].uncertain => ~family'[e].uncertain
             /\ family'[e].persisted_id = family[e].persisted_id
  <2>1. CASE family' = family
    BY <2>1
  <2>3. CASE Destroy(h) \/ BeginDelete(h)
    BY <1>0, <2>3 DEF Destroy, BeginDelete, TypeOK, FamilyStates
  <2>4. CASE BeginSave(h)
    BY <1>0, <2>4 DEF BeginSave, TypeOK, FamilyStates
  <2>5. CASE BeginBackendWrite(h) \/ EnterDelete(h)
    BY <1>0, <2>5 DEF BeginBackendWrite, EnterDelete, TypeOK, FamilyStates
  <2>6. CASE RefuseBackendWrite(h)
    BY <1>0, <2>1, <2>6 DEF RefuseBackendWrite, TypeOK, FamilyStates
  <2>7. ASSUME NEW f \in Families, NEW i \in Ids, New(h, f, i)
        PROVE  /\ family'[e].destroy = family[e].destroy
               /\ family'[e].uncertain = family[e].uncertain
               /\ family'[e].persisted_id = family[e].persisted_id
               /\ family[e].used => family'[e].used
    BY <1>0, <2>7 DEF New, TypeOK, FamilyStates
  <2>8. \/ UNCHANGED family
        \/ \E f \in Families, i \in Ids : New(h, f, i)
        \/ Destroy(h) \/ BeginDelete(h) \/ BeginSave(h)
        \/ BeginBackendWrite(h) \/ EnterDelete(h) \/ RefuseBackendWrite(h)
    BY <1>3 DEF ApplicationStep, Clone, Regenerate, DropHandle, RefuseSave, RefuseDelete
  <2>9. \/ UNCHANGED family
        \/ \E f \in Families, i \in Ids : New(h, f, i)
        \/ /\ family[e].used => family'[e].used
           /\ family[e].destroy => family'[e].destroy
           /\ family[e].uncertain => family'[e].uncertain
           /\ ~CanOutliveFuture /\ ~family[e].uncertain => ~family'[e].uncertain
           /\ family'[e].persisted_id = family[e].persisted_id
    BY <2>8, <2>3, <2>4, <2>5, <2>6
  <2> QED
    BY <2>1, <2>7, <2>9
<1>4. ASSUME NEW h \in Handles, NEW f \in Families, NEW i \in Ids, Load(h, f, i)
      PROVE  /\ family[e].used => family'[e].used
             /\ family'[e].destroy = family[e].destroy
             /\ family'[e].uncertain = family[e].uncertain
             /\ family'[e].persisted_id = family[e].persisted_id \/ ~family[e].used
  BY <1>0, <1>4 DEF Load, TypeOK, FamilyStates
<1>5. ASSUME NEW h \in Handles, CompleteSave(h)
      PROVE  /\ family'[e].used = family[e].used
             /\ family'[e].destroy = family[e].destroy
             /\ family'[e].uncertain = family[e].uncertain
             /\ family'[e].persisted_id = family[e].persisted_id \/ handle[h].family = e
  BY <1>0, <1>5 DEF CompleteSave, TypeOK, FamilyStates
<1>6. ASSUME NEW h \in Handles, CompleteDelete(h) \/ AbandonDelete(h)
      PROVE  /\ family'[e].used = family[e].used
             /\ family'[e].destroy = family[e].destroy
             /\ family'[e].uncertain = family[e].uncertain
             /\ family'[e].persisted_id = family[e].persisted_id
  BY <1>0, <1>6 DEF CompleteDelete, AbandonDelete, TypeOK, FamilyStates
<1>7. ASSUME NEW h \in Handles,
             RejectPut(h) \/ AbandonSave(h) \/ AbandonDiscard(h) \/ DiscardExpired(h) \/ Compensate(h)
      PROVE  /\ Present(h) /\ handle[h].at \in {"write", "wrote"}
             /\ \E s : ReleaseWrite(h, s)
  BY <1>7 DEF RejectPut, AbandonSave, AbandonDiscard, AbandonWrite, DiscardExpired, Compensate,
     Present
<1>8. ASSUME NEW h \in Handles, Put(h) PROVE family' = family
  BY <1>8 DEF Put
<1>9. ASSUME NEW ids, ClearStore(ids) PROVE family' = family
  BY <1>9 DEF ClearStore
<1>10. ASSUME NEW i, Expire(i) PROVE family' = family
  BY <1>10 DEF Expire
<1>11. ASSUME NEW r \in flying, LandLate(r) PROVE family' = family
  BY <1>11 DEF LandLate
<1>12. CASE UNCHANGED vars
  BY <1>12 DEF vars
<1> QED
  BY <1>1, <1>2, <1>3, <1>4, <1>5, <1>6, <1>7, <1>8, <1>9, <1>10, <1>11, <1>12 DEF Next

\* IDs are drawn by families in use.
LEMMA MakersStep ==
  ASSUME IInv, Locking, MakersAreUsed, [Next]_vars
  PROVE  /\ MakersAreUsed'
         /\ \A i \in Ids : maker[i] # NoFamily => maker'[i] = maker[i]
<1>1. ASSUME NEW h \in Handles, NEW f \in Families, NEW i \in Ids, New(h, f, i)
      PROVE  /\ maker[i] = NoFamily /\ maker'[i] = f /\ family'[f].used
             /\ \A j \in Ids : j # i => maker'[j] = maker[j]
  BY <1>1 DEF New, IInv, TypeOK, FamilyStates
<1>2. ASSUME NEW h \in Handles, NEW i \in Ids, Regenerate(h, i)
      PROVE  /\ maker[i] = NoFamily /\ maker'[i] = handle[h].family /\ family' = family
             /\ handle[h].family \in Families /\ family[handle[h].family].used
             /\ \A j \in Ids : j # i => maker'[j] = maker[j]
  BY <1>2 DEF Regenerate, IInv, TypeOK, HandlesAreSessions, Present
<1>3. ASSUME NEW h \in Handles, ApplicationStep(h)
      PROVE  \/ maker' = maker
             \/ \E f \in Families, i \in Ids : New(h, f, i)
             \/ \E i \in Ids : Regenerate(h, i)
  BY <1>3 DEF ApplicationStep, Clone, Destroy, DropHandle, BeginSave, RefuseSave,
     BeginBackendWrite, RefuseBackendWrite, BeginDelete, EnterDelete, RefuseDelete
<1>4. \/ maker' = maker
      \/ \E h \in Handles, f \in Families, i \in Ids : New(h, f, i)
      \/ \E h \in Handles, i \in Ids : Regenerate(h, i)
  BY <1>3 DEF Next, Load, Put, RejectPut, AbandonSave, AbandonWrite, DiscardExpired,
     AbandonDiscard, CompleteSave, Compensate, CompleteDelete, AbandonDelete, ClearStore,
     Expire, LandLate, vars
<1>5. \A i \in Ids : maker[i] # NoFamily => maker'[i] = maker[i]
  BY <1>1, <1>2, <1>4
<1>6. \A f \in Families : family[f].used => family'[f].used
  BY FlagsStay
<1>7. MakersAreUsed'
  BY <1>1, <1>2, <1>4, <1>5, <1>6 DEF MakersAreUsed
<1> QED
  BY <1>5, <1>7

\* Where requests that can still land come from.
LEMMA NewRequests ==
  ASSUME [Next]_vars
  PROVE  /\ ~CanOutliveFuture => flying' \subseteq flying
         /\ \A r \in flying' :
              \/ r \in flying
              \/ r.op = "delete"
              \/ \E h \in Handles :
                   /\ handle[h].at = "write" /\ CanCreate(h) /\ r = SaveRequest(h)
                   /\ ReleaseWrite(h, FALSE) /\ maker' = maker /\ CanOutliveFuture
<1>1. ASSUME NEW h \in Handles, NEW s, NEW requests, AbandonWrite(h, s, requests)
      PROVE  /\ ~CanOutliveFuture => flying' \subseteq flying
             /\ \A r \in flying' : r \in flying \/ (r \in requests /\ CanOutliveFuture)
             /\ ReleaseWrite(h, FALSE) /\ maker' = maker /\ handle[h].at = s
  BY <1>1 DEF AbandonWrite, MayFly
<1>2. ASSUME NEW i PROVE DeleteRequest(i).op = "delete"
  BY DEF DeleteRequest
<1>3. ASSUME NEW h \in Handles, AbandonSave(h)
      PROVE  /\ ~CanOutliveFuture => flying' \subseteq flying
             /\ \A r \in flying' :
                  \/ r \in flying
                  \/ r.op = "delete"
                  \/ /\ handle[h].at = "write" /\ CanCreate(h) /\ r = SaveRequest(h)
                     /\ ReleaseWrite(h, FALSE) /\ maker' = maker /\ CanOutliveFuture
  <2>1. CASE AbandonWrite(h, "write", IF CanCreate(h) THEN {SaveRequest(h)} ELSE {})
    BY <1>1, <2>1
  <2>2. CASE AbandonWrite(h, "wrote",
               IF FamilyOf(h).destroy THEN {DeleteRequest(handle[h].id)} ELSE {})
    BY <1>1, <1>2, <2>2
  <2> QED
    BY <1>3, <2>1, <2>2 DEF AbandonSave
<1>4. ASSUME NEW h \in Handles, AbandonDiscard(h)
      PROVE  /\ ~CanOutliveFuture => flying' \subseteq flying
             /\ \A r \in flying' : r \in flying \/ r.op = "delete"
  BY <1>1, <1>2, <1>4 DEF AbandonDiscard
<1>5. ASSUME NEW h \in Handles, AbandonDelete(h)
      PROVE  /\ ~CanOutliveFuture => flying' \subseteq flying
             /\ \A r \in flying' : r \in flying \/ r.op = "delete"
  BY <1>2, <1>5 DEF AbandonDelete, MayFly
<1>6. ASSUME NEW r \in flying, LandLate(r) PROVE flying' \subseteq flying
  BY <1>6 DEF LandLate
<1>7. ASSUME NEW h \in Handles, ApplicationStep(h) PROVE flying' = flying
  BY <1>7 DEF ApplicationStep, New, Clone, Regenerate, Destroy, DropHandle, BeginSave,
     RefuseSave, BeginBackendWrite, RefuseBackendWrite, BeginDelete, EnterDelete, RefuseDelete
<1>8. \/ flying' \subseteq flying
      \/ \E h \in Handles : AbandonSave(h) \/ AbandonDiscard(h) \/ AbandonDelete(h)
  BY <1>6, <1>7 DEF Next, Load, Put, RejectPut, DiscardExpired, CompleteSave, Compensate,
     CompleteDelete, ClearStore, Expire, vars
<1> QED
  BY <1>3, <1>4, <1>5, <1>8

\* A late creation has its family's fence to stop it.
LEMMA LateWritesStep ==
  ASSUME IInv, Locking, MakersAreUsed, LateWritesAreFenced, [Next]_vars
  PROVE  LateWritesAreFenced'
<1>1. ASSUME NEW i \in Ids, lineage[i] # NoId
      PROVE  maker'[i] = maker[i] /\ maker[i] \in Families
  BY <1>1, MakersStep DEF IInv, DrawnIds, MakersAreUsed
<1>2. ASSUME NEW r \in flying, r.op # "delete" PROVE family'[maker'[r.id]].uncertain
  <2>1. r.id \in Ids /\ lineage[r.id] # NoId
    BY <1>2 DEF IInv, DrawnIds, TypeOK, Requests
  <2> QED
    BY <1>1, <1>2, <2>1, FlagsStay DEF LateWritesAreFenced
<1>3. ASSUME NEW h \in Handles, handle[h].at = "write", CanCreate(h), ReleaseWrite(h, FALSE),
             maker' = maker, CanOutliveFuture
      PROVE  family'[maker'[SaveRequest(h).id]].uncertain
  <2>1. maker'[SaveRequest(h).id] = handle[h].family
    BY <1>3, CreatorOwnsId DEF SaveRequest
  <2>2. handle[h].uncertain_on_drop
    BY <1>3 DEF Locking, Locks, WritesCurrent, Writing
  <2>3. TypeOK /\ handle[h].family \in Families
    BY <1>3 DEF IInv, HandlesAreSessions, Present
  <2>4. family'[handle[h].family].uncertain
    BY <1>3, <2>2, <2>3, ReleaseFacts
  <2> QED
    BY <2>1, <2>4
<1>4. \A r \in flying' : r.op # "delete" => family'[maker'[r.id]].uncertain
  BY <1>2, <1>3, NewRequests
<1>5. ~CanOutliveFuture => flying' = {} /\ \A f \in Families : ~family'[f].uncertain
  BY NewRequests, FlagsStay DEF LateWritesAreFenced
<1> QED
  BY <1>4, <1>5 DEF LateWritesAreFenced

\* A save that has written is completed, compensated or abandoned.
LEMMA WrittenStep ==
  ASSUME IInv, [Next]_vars, NEW h \in Handles, handle[h].at = "wrote"
  PROVE  \/ handle'[h] = handle[h]
         \/ CompleteSave(h) \/ Compensate(h)
         \/ CanOutliveFuture /\ ReleaseWrite(h, FALSE)
<1>0. handle \in [Handles -> HandleStates]
  BY DEF IInv, TypeOK
<1>1. ASSUME NEW g \in Handles, ApplicationStep(g) PROVE handle'[h] = handle[h]
  BY <1>0, <1>1 DEF ApplicationStep, New, Clone, Regenerate, Destroy, DropHandle, BeginSave,
     RefuseSave, BeginBackendWrite, RefuseBackendWrite, BeginDelete, EnterDelete, RefuseDelete,
     Discard, Move
<1>2. ASSUME NEW g \in Handles, NEW f \in Families, NEW i \in Ids, Load(g, f, i)
      PROVE  handle'[h] = handle[h]
  BY <1>0, <1>2 DEF Load
<1>3. ASSUME NEW g \in Handles,
             \/ Put(g) \/ RejectPut(g) \/ DiscardExpired(g) \/ AbandonDiscard(g)
             \/ CompleteDelete(g) \/ AbandonDelete(g)
      PROVE  handle'[h] = handle[h]
  BY <1>0, <1>3 DEF Put, RejectPut, DiscardExpired, AbandonDiscard, AbandonWrite,
     CompleteDelete, AbandonDelete, Discard, Move
<1>4. ASSUME NEW g \in Handles, g # h, AbandonSave(g) \/ CompleteSave(g) \/ Compensate(g)
      PROVE  handle'[h] = handle[h]
  BY <1>0, <1>4 DEF AbandonSave, AbandonWrite, CompleteSave, Compensate, Discard
<1>5. CASE AbandonSave(h)
  BY <1>5 DEF AbandonSave, AbandonWrite
<1>6. CASE handle' = handle
  BY <1>6
<1> QED
  BY <1>1, <1>2, <1>3, <1>4, <1>5, <1>6 DEF Next, ClearStore, Expire, LandLate, vars

\* Whoever makes a record knows it, and nobody forgets one that is stored.
LEMMA KnownStep ==
  ASSUME IInv, Locking, Fence, [Next]_vars
  PROVE  NoStrayRecord'
<1>0. TypeOK
  BY DEF IInv
<1> SUFFICES ASSUME NEW i \in records' PROVE Known(i)'
  BY DEF NoStrayRecord
<1>1. ASSUME NEW j \in Ids, lineage[j] # NoId
      PROVE  /\ maker'[j] = maker[j] /\ maker[j] \in Families /\ family[maker[j]].used
  BY <1>1, MakersStep DEF IInv, DrawnIds, MakersAreUsed, Fence
<1>2. CASE i \in records
  <2> DEFINE f == maker[i]
  <2>1. /\ i \in Ids /\ maker'[i] = f /\ f \in Families /\ family[f].used
    BY <1>0, <1>1, <1>2 DEF TypeOK, IInv, DrawnIds, Stored
  <2>2. CASE family[f].uncertain
    BY <2>1, <2>2, FlagsStay DEF Known
  <2>3. CASE family[f].persisted_id = i
    <3>1. ASSUME NEW h \in Handles, CompleteSave(h), handle[h].family = f
          PROVE  family'[f].persisted_id = i
      <4>1. handle[h].at = "wrote"
        BY <3>1 DEF CompleteSave
      <4>2. MarkPersisted(h) = i
        BY <1>2, <2>3, <3>1, <4>1, WrittenIdentity DEF FamilyOf
      <4> QED
        BY <1>0, <2>1, <3>1, <4>2 DEF CompleteSave, TypeOK, FamilyStates
    <3>2. family'[f].persisted_id = i
      BY <2>1, <2>3, <3>1, FlagsStay
    <3> QED
      BY <2>1, <3>2 DEF Known
  <2>4. ASSUME NEW h \in Handles, handle[h].at = "wrote", handle[h].id = i, handle[h].family = f
        PROVE  Known(i)'
    <3>1. CASE handle'[h] = handle[h]
      BY <2>1, <2>4, <3>1 DEF Known
    <3>2. CASE CompleteSave(h)
      <4>1. MarkPersisted(h) = i
        BY <2>4, WrittenIdentity
      <4>2. family'[f].persisted_id = i
        BY <1>0, <2>1, <2>4, <3>2, <4>1 DEF CompleteSave, TypeOK, FamilyStates
      <4> QED
        BY <2>1, <4>2 DEF Known
    <3>3. ~Compensate(h)
      BY <2>4 DEF Compensate, CleansUp, EndRecords
    <3>4. CASE CanOutliveFuture /\ ReleaseWrite(h, FALSE)
      <4>1. handle[h].uncertain_on_drop \/ family[f].persisted_id = i
        BY <2>4, <3>4, WrittenIdentity DEF FamilyOf
      <4>2. family'[f].uncertain \/ family'[f].persisted_id = i
        BY <1>0, <2>1, <2>4, <3>4, <4>1, ReleaseFacts DEF FamilyOf
      <4> QED
        BY <2>1, <4>2 DEF Known
    <3> QED
      BY <2>4, <3>1, <3>2, <3>3, <3>4, WrittenStep
  <2> QED
    BY <1>2, <2>2, <2>3, <2>4 DEF Fence, NoStrayRecord, Known
<1>3. ASSUME i \notin records, NEW h \in Handles, Put(h) PROVE Known(i)'
  <2>1. /\ i = handle[h].id /\ handle[h].at = "write"
        /\ handle'[h].at = "wrote" /\ handle'[h].id = i
        /\ handle'[h].family = handle[h].family /\ maker' = maker
    BY <1>0, <1>3 DEF Put, Replace, Move, TypeOK, HandleStates
  <2>2. handle[h].id # NoId
    BY <2>1, NoneAssumption DEF IInv, HandlesAreSessions, Present
  <2>3. CanCreate(h)
    BY <1>3, <2>1, <2>2 DEF Put, Accepts, CanCreate
  <2> QED
    BY <2>1, <2>3, CreatorOwnsId DEF Known
<1>4. ASSUME i \notin records, NEW r \in flying, LandLate(r), r.op # "delete",
             Replace(r.source, r.id)
      PROVE  Known(i)'
  <2>1. i = r.id /\ family' = family /\ maker' = maker
    BY <1>4 DEF LandLate, Replace
  <2> QED
    BY <1>4, <2>1 DEF Fence, LateWritesAreFenced, Known
<1>5. ASSUME NEW ids, EndRecords(ids) PROVE i \in records
  BY <1>5 DEF EndRecords
<1> QED
  BY <1>2, <1>3, <1>4, <1>5, RecordSteps

LEMMA FenceStep == IInv /\ Locking /\ Fence /\ [Next]_vars => Fence'
  BY MakersStep, LateWritesStep, KnownStep DEF Fence

\* Who writes was writing, or has just passed the checks for it.
LEMMA WritersEnter ==
  ASSUME IInv, [Next]_vars, NEW h \in Handles, Writing(h)'
  PROVE  \/ Writing(h) /\ handle'[h].family = handle[h].family
         \/ BeginBackendWrite(h)
<1>0. handle \in [Handles -> HandleStates]
  BY DEF IInv, TypeOK
<1>1. CASE handle'[h] = handle[h]
  BY <1>1 DEF Writing
<1>2. ASSUME NEW g \in Handles, ApplicationStep(g)
      PROVE  handle'[h] = handle[h] \/ BeginBackendWrite(h)
  <2>1. ASSUME NEW f \in Families, NEW i \in Ids, New(g, f, i) PROVE handle'[h] = handle[h]
    BY <1>0, <2>1 DEF New, Writing, HandleStates
  <2>2. ASSUME NEW k \in Handles, Clone(g, k) PROVE handle'[h] = handle[h]
    BY <1>0, <2>2 DEF Clone, Writing, HandleStates
  <2>3. ASSUME NEW i \in Ids, Regenerate(g, i) PROVE handle'[h] = handle[h]
    BY <1>0, <2>3 DEF Regenerate, Writing, HandleStates
  <2>4. CASE BeginSave(g) \/ BeginDelete(g) \/ EnterDelete(g)
    BY <1>0, <2>4 DEF BeginSave, BeginDelete, EnterDelete, Move, Writing, HandleStates
  <2>5. CASE DropHandle(g) \/ RefuseSave(g) \/ RefuseBackendWrite(g) \/ RefuseDelete(g)
    BY <1>0, <2>5 DEF DropHandle, RefuseSave, RefuseBackendWrite, RefuseDelete, Discard,
       NoSession, Writing
  <2>6. CASE BeginBackendWrite(g) \/ Destroy(g)
    BY <1>0, <2>6 DEF BeginBackendWrite, Destroy
  <2> QED
    BY <1>2, <2>1, <2>2, <2>3, <2>4, <2>5, <2>6 DEF ApplicationStep
<1>3. ASSUME NEW g \in Handles, NEW f \in Families, NEW i \in Ids, Load(g, f, i)
      PROVE  handle'[h] = handle[h]
  BY <1>0, <1>3 DEF Load, Writing, HandleStates
<1>4. ASSUME NEW g \in Handles, Put(g)
      PROVE  handle'[h] = handle[h] \/ (Writing(h) /\ handle'[h].family = handle[h].family)
  BY <1>0, <1>4 DEF Put, Move, Writing, HandleStates
<1>5. ASSUME NEW g \in Handles,
             \/ RejectPut(g) \/ AbandonSave(g) \/ DiscardExpired(g) \/ AbandonDiscard(g)
             \/ CompleteSave(g) \/ Compensate(g) \/ CompleteDelete(g) \/ AbandonDelete(g)
      PROVE  handle'[h] = handle[h]
  <2>1. Discard(g)
    BY <1>5 DEF RejectPut, AbandonSave, AbandonDiscard, AbandonWrite, DiscardExpired,
       CompleteSave, Compensate, CompleteDelete, AbandonDelete
  <2> QED
    BY <1>0, <2>1 DEF Discard, NoSession, Writing
<1>6. CASE handle' = handle
  BY <1>1, <1>6
<1> QED
  BY <1>1, <1>2, <1>3, <1>4, <1>5, <1>6 DEF Next, ClearStore, Expire, LandLate, vars

-----------------------------------------------------------------------------
(* What a successful deletion ends.                                        *)

\* After a successful deletion nothing of the family can write any more.
DeletedIsFenced ==
    \A f \in deleted :
        /\ family[f].destroy /\ ~family[f].uncertain
        /\ \A h \in Handles : Writing(h) => handle[h].family # f

Finality == DeletedIsFenced /\ revoked \subseteq deleted /\ RevokedFamilyHasNoRecord

\* Only a writing save, or one that is refused before destruction, raises the
\* fence of a family, and no save begins to write after destruction.
LEMMA DestroyedIsQuiet ==
  ASSUME IInv, [Next]_vars, NEW e \in Families, family[e].destroy,
         \A h \in Handles : Writing(h) => handle[h].family # e
  PROVE  /\ family'[e].uncertain <=> family[e].uncertain
         /\ \A h \in Handles : Writing(h)' => handle'[h].family # e
<1>0. TypeOK
  BY DEF IInv
<1>1. ASSUME NEW h \in Handles, NEW s, Writing(h), ReleaseWrite(h, s)
      PROVE  family'[e] = family[e]
  BY <1>0, <1>1 DEF ReleaseWrite, TypeOK
<1>2. ASSUME NEW h \in Handles, ApplicationStep(h)
      PROVE  family'[e].uncertain <=> family[e].uncertain
  <2>1. ASSUME NEW f \in Families, NEW i \in Ids, New(h, f, i)
        PROVE  family'[e].uncertain = family[e].uncertain
    BY <1>0, <2>1 DEF New, TypeOK, FamilyStates
  <2>2. CASE Destroy(h) \/ BeginDelete(h)
    BY <1>0, <2>2 DEF Destroy, BeginDelete, TypeOK, FamilyStates
  <2>3. CASE BeginSave(h)
    BY <1>0, <2>3 DEF BeginSave, TypeOK, FamilyStates
  <2>4. CASE BeginBackendWrite(h) \/ EnterDelete(h)
    BY <1>0, <2>4 DEF BeginBackendWrite, EnterDelete, TypeOK, FamilyStates
  <2>5. CASE RefuseBackendWrite(h)
    BY <1>0, <2>5 DEF RefuseBackendWrite, AdmitsWrite, FamilyOf, TypeOK
  <2>6. \/ UNCHANGED family
        \/ \E f \in Families, i \in Ids : New(h, f, i)
        \/ Destroy(h) \/ BeginDelete(h) \/ BeginSave(h)
        \/ BeginBackendWrite(h) \/ EnterDelete(h) \/ RefuseBackendWrite(h)
    BY <1>2 DEF ApplicationStep, Clone, Regenerate, DropHandle, RefuseSave, RefuseDelete
  <2> QED
    BY <2>1, <2>2, <2>3, <2>4, <2>5, <2>6
<1>3. ASSUME NEW h \in Handles, CompleteSave(h) \/ CompleteDelete(h) \/ AbandonDelete(h)
      PROVE  family'[e].uncertain = family[e].uncertain
  BY <1>0, <1>3 DEF CompleteSave, CompleteDelete, AbandonDelete, TypeOK, FamilyStates
<1>4. ASSUME NEW h \in Handles, NEW f \in Families, NEW i \in Ids, Load(h, f, i)
      PROVE  family'[e].uncertain = family[e].uncertain
  BY <1>0, <1>4 DEF Load, TypeOK, FamilyStates
<1>5. \/ UNCHANGED family
      \/ \E h \in Handles :
           \/ ApplicationStep(h) \/ \E f \in Families, i \in Ids : Load(h, f, i)
           \/ CompleteSave(h) \/ CompleteDelete(h) \/ AbandonDelete(h)
           \/ Writing(h) /\ \E s : ReleaseWrite(h, s)
  BY DEF Next, Put, RejectPut, AbandonSave, AbandonDiscard, AbandonWrite, DiscardExpired,
     Compensate, ClearStore, Expire, LandLate, vars, Writing
<1>6. family'[e].uncertain <=> family[e].uncertain
  BY <1>1, <1>2, <1>3, <1>4, <1>5
<1>7. ASSUME NEW h \in Handles, Writing(h)'
      PROVE  handle'[h].family # e
  <2>1. CASE Writing(h) /\ handle'[h].family = handle[h].family
    BY <2>1
  <2>2. CASE BeginBackendWrite(h)
    BY <1>0, <2>2 DEF BeginBackendWrite, AdmitsWrite, FamilyOf, TypeOK, HandleStates
  <2> QED
    BY <1>7, <2>1, <2>2, WritersEnter
<1> QED
  BY <1>6, <1>7

\* A record that appears was made by a family without a successful deletion.
LEMMA CreationsAreAllowed ==
  ASSUME IInv, Locking, Fence, Finality, [Next]_vars, NEW i \in records', i \notin records
  PROVE  /\ maker[i] \notin deleted /\ maker'[i] = maker[i]
         /\ deleted' = deleted /\ revoked' = revoked
<1>1. ASSUME NEW h \in Handles, Put(h)
      PROVE  /\ maker[i] \notin deleted /\ maker'[i] = maker[i]
             /\ deleted' = deleted /\ revoked' = revoked
  <2>1. /\ i = handle[h].id /\ handle[h].at = "write" /\ UNCHANGED <<maker, deleted, revoked>>
    BY <1>1 DEF Put, Replace
  <2>2. handle[h].id # NoId
    BY <2>1, NoneAssumption DEF IInv, HandlesAreSessions, Present
  <2>3. CanCreate(h)
    BY <1>1, <2>1, <2>2 DEF Put, Accepts, CanCreate
  <2> QED
    BY <2>1, <2>3, CreatorOwnsId DEF Finality, DeletedIsFenced, Writing
<1>2. ASSUME NEW r \in flying, LandLate(r), r.op # "delete", Replace(r.source, r.id)
      PROVE  /\ maker[i] \notin deleted /\ maker'[i] = maker[i]
             /\ deleted' = deleted /\ revoked' = revoked
  <2>1. i = r.id /\ UNCHANGED <<maker, deleted, revoked>>
    BY <1>2 DEF LandLate, Replace
  <2> QED
    BY <1>2, <2>1 DEF Fence, LateWritesAreFenced, Finality, DeletedIsFenced
<1>3. ASSUME NEW ids, EndRecords(ids) PROVE i \in records
  BY <1>3 DEF EndRecords
<1> QED
  BY <1>1, <1>2, <1>3, RecordSteps

\* Deletion holds the lock and no fence is up: nothing else is under way.
LEMMA CompleteDeleteEnds ==
  ASSUME IInv, Locking, Fence, NEW h \in Handles, CompleteDelete(h)
  PROVE  LET f == handle[h].family IN
         /\ f \in Families /\ family[f].destroy /\ ~family[f].uncertain
         /\ \A g \in Handles : Writing(g) => handle[g].family # f
         /\ f \in revoked' \ revoked => \A i \in records' : maker[i] # f
<1> DEFINE f == handle[h].family
<1>1. handle[h].at = "delete" /\ f \in Families
  BY DEF CompleteDelete, IInv, HandlesAreSessions, Present
<1>2. family[f].destroy /\ ~family[f].uncertain /\ family[f].holder = h
  BY <1>1 DEF Locking, Locks, HoldsLock, MarksDeletion, FamilyOf
<1>3. ASSUME NEW g \in Handles, Writing(g) PROVE handle[g].family # f
  BY <1>1, <1>2, <1>3 DEF Locking, Locks, HoldsLock, FamilyOf, Writing
<1>4. ASSUME f \in revoked' \ revoked, NEW i \in records', maker[i] = f PROVE FALSE
  <2>1. family[f].persisted_id \in {NoId, handle[h].target} /\ i # handle[h].target
        /\ i \in records
    BY <1>4 DEF CompleteDelete, EndRecords
  <2>2. i # NoId
    BY <2>1, NoneAssumption DEF IInv, TypeOK
  <2>3. Known(i)
    BY <2>1 DEF Fence, NoStrayRecord
  <2> QED
    BY <1>2, <1>3, <1>4, <2>1, <2>2, <2>3 DEF Known, Writing
<1> QED
  BY <1>1, <1>2, <1>3, <1>4

LEMMA FinalityStep ==
  ASSUME IInv, Locking, Fence, Finality, [Next]_vars
  PROVE  Finality'
<1>1. CASE \E h \in Handles : CompleteDelete(h)
  <2> PICK h \in Handles : CompleteDelete(h)
    BY <1>1
  <2> DEFINE f == handle[h].family
  <2>1. /\ deleted' = deleted \cup {f} /\ maker' = maker /\ records' \subseteq records
        /\ revoked' \subseteq revoked \cup {f}
    BY DEF CompleteDelete, EndRecords
  <2>2. DeletedIsFenced'
    <3>1. ASSUME NEW e \in deleted'
          PROVE  /\ e \in Families /\ family[e].destroy /\ ~family[e].uncertain
                 /\ \A g \in Handles : Writing(g) => handle[g].family # e
      BY <2>1, CompleteDeleteEnds DEF Finality, DeletedIsFenced, IInv, TypeOK
    <3> QED
      BY <3>1, FlagsStay, DestroyedIsQuiet DEF DeletedIsFenced
  <2>3. RevokedFamilyHasNoRecord'
    BY <2>1, CompleteDeleteEnds DEF Finality, RevokedFamilyHasNoRecord
  <2> QED
    BY <2>1, <2>2, <2>3 DEF Finality
<1>2. CASE ~\E h \in Handles : CompleteDelete(h)
  <2>1. deleted' = deleted /\ revoked' = revoked
    <3>1. ASSUME NEW h \in Handles, ApplicationStep(h) PROVE deleted' = deleted /\ revoked' = revoked
      BY <3>1 DEF ApplicationStep, New, Clone, Regenerate, Destroy, DropHandle, BeginSave,
         RefuseSave, BeginBackendWrite, RefuseBackendWrite, BeginDelete, EnterDelete,
         RefuseDelete, history
    <3> QED
      BY <1>2, <3>1 DEF Next, Load, Put, RejectPut, AbandonSave, AbandonDiscard, AbandonWrite,
         DiscardExpired, CompleteSave, Compensate, AbandonDelete, ClearStore, Expire, LandLate,
         vars, history
  <2>2. DeletedIsFenced'
    <3>1. \A e \in deleted : e \in Families
      BY DEF IInv, TypeOK
    <3> QED
      BY <2>1, <3>1, FlagsStay, DestroyedIsQuiet DEF Finality, DeletedIsFenced
  <2>3. ASSUME NEW i \in records' PROVE maker'[i] \notin revoked'
    <3>1. CASE i \in records
      <4>1. i \in Ids /\ maker[i] # NoFamily
        BY <3>1 DEF IInv, TypeOK, DrawnIds, Stored
      <4> QED
        BY <2>1, <3>1, <4>1, MakersStep DEF Finality, RevokedFamilyHasNoRecord, Fence
    <3>2. CASE i \notin records
      BY <2>1, <3>2, CreationsAreAllowed DEF Finality
    <3> QED
      BY <3>1, <3>2
  <2> QED
    BY <2>1, <2>2, <2>3 DEF Finality, RevokedFamilyHasNoRecord
<1> QED
  BY <1>1, <1>2

-----------------------------------------------------------------------------
(* The theorems.                                                           *)

\* Every reachable state satisfies the invariant.
THEOREM SessionInvariant == Spec => []IInv
  BY InitInv, NextInv, PTL DEF Spec

\* The state of handles, families and requests has its type in every
\* reachable state, in particular a deletion that completes has a target.
THEOREM ServerStoreTypes == Spec => []TypeOK
<1>1. IInv => TypeOK
  BY DEF IInv
<1> QED
  BY <1>1, SessionInvariant, PTL

\* An ID whose record was deleted, rotated away, expired or cleared is never
\* stored again, by no save and no request that outlived its future.
THEOREM RemovedStaysRemoved == Spec => []NoResurrection
<1>1. IInv => NoResurrection
  BY DEF IInv
<1> QED
  BY <1>1, SessionInvariant, PTL

\* The clones, loads and rotations of one session never leave two records of
\* it in the backend.
THEOREM SessionsNeverFork == Spec => []NoFork
<1>1. IInv => NoFork
  BY DEF IInv
<1> QED
  BY <1>1, SessionInvariant, PTL

\* A session whose record was removed without a successor is never stored
\* again under any ID.
THEOREM EndedSessionsStayEnded == Spec => []EndedStaysEnded
<1>1. IInv => EndedStaysEnded
  BY DEF IInv
<1> QED
  BY <1>1, SessionInvariant, PTL

\* Everything above holds together.
FullInv == IInv /\ RotationKeepsSession /\ Locking /\ Fence /\ Finality

LEMMA InitFull == Init => FullInv
<1> SUFFICES ASSUME Init PROVE FullInv
  OBVIOUS
<1>1. IInv
  BY InitInv
<1>2. records = {} /\ gone = {} /\ flying = {} /\ deleted = {} /\ revoked = {}
  BY DEF Init
<1>3. \A h \in Handles : handle[h] = NoSession
  BY DEF Init
<1>4. Locking
  BY <1>3 DEF Locking, Locks, OwnsId, HoldsLock, WritesCurrent, MarksDeletion, Writing,
     HasTicket, Present, NoSession
<1>5. Fence
  BY <1>2 DEF Init, NewFamily, Fence, MakersAreUsed, LateWritesAreFenced, NoStrayRecord
<1>6. RotationKeepsSession /\ Finality
  BY <1>2 DEF RotationKeepsSession, Finality, DeletedIsFenced, RevokedFamilyHasNoRecord
<1> QED
  BY <1>1, <1>4, <1>5, <1>6 DEF FullInv

LEMMA NextFull == FullInv /\ [Next]_vars => FullInv'
  BY NextInv, RotationKeepsStep, LockingStep, FenceStep, FinalityStep DEF FullInv

\* Everything above holds together, in every reachable state.
THEOREM ServerStoreInvariant == Spec => []FullInv
  BY InitFull, NextFull, PTL DEF Spec

\* Rotation does not lose a session, whatever interrupts it: the ID that
\* replaces another is stored until its session is ended or rotates on.
THEOREM RotationsLoseNothing == Spec => []RotationKeepsSession
<1>1. FullInv => RotationKeepsSession
  BY DEF FullInv
<1> QED
  BY <1>1, ServerStoreInvariant, PTL

LEMMA FullKnown == FullInv => KnownUnlessUncertain
<1> SUFFICES ASSUME FullInv, NEW i \in records
             PROVE  LET f == family[maker[i]] IN
                    f.uncertain \/ f.holder # NoHandle \/ f.persisted_id = i
  BY DEF KnownUnlessUncertain
<1>1. ASSUME NEW h \in Handles, handle[h].at = "wrote", handle[h].family = maker[i]
      PROVE  family[maker[i]].holder # NoHandle
  BY <1>1, NoneAssumption DEF FullInv, Locking, Locks, HoldsLock, Writing, FamilyOf
<1> QED
  BY <1>1 DEF FullInv, Fence, NoStrayRecord, Known

\* A family that nobody holds the lock of and that is not uncertain knows its
\* records: a record it does not know would be in the hands of a save that has
\* written, and that save holds the lock.
THEOREM RecordsAreKnownOrFenced == Spec => []KnownUnlessUncertain
  BY FullKnown, ServerStoreInvariant, PTL

\* A successful destroy_session through a handle that was not superseded is
\* final for every record its family has made.
THEOREM RevocationIsFinal == Spec => []RevokedFamilyHasNoRecord
<1>1. FullInv => RevokedFamilyHasNoRecord
  BY DEF FullInv, Finality
<1> QED
  BY <1>1, ServerStoreInvariant, PTL

\* After a successful destroy_session no save of the family creates a record,
\* no matter when it began or whether it was abandoned.
THEOREM DeletionIsFinal == Spec => DeletedFamilyCreatesNothing
<1>1. FullInv /\ [Next]_vars => [\A i \in records' \ records : maker[i] \notin deleted]_vars
  BY CreationsAreAllowed DEF FullInv
<1> QED
  BY <1>1, ServerStoreInvariant, PTL DEF Spec, DeletedFamilyCreatesNothing

-----------------------------------------------------------------------------
(* No lock is orphaned.                                                    *)

\* The holder of a lifecycle lock is a call of the lock's family that talks
\* to the backend: it has not returned, and its future was not dropped.
LocksAreInUse ==
    \A f \in Families : LET h == family[f].holder IN
        h # NoHandle => /\ h \in Handles /\ handle[h].family = f
                        /\ Writing(h) \/ handle[h].at = "delete"

\* Steps that leave the locks alone, and every call that holds one.
LEMMA InUseFrame ==
  ASSUME LocksAreInUse,
         \A f \in Families : family'[f].holder = family[f].holder,
         \A h \in Handles : Writing(h) \/ handle[h].at = "delete" =>
            handle'[h].family = handle[h].family /\ (Writing(h)' \/ handle'[h].at = "delete")
  PROVE  LocksAreInUse'
  BY DEF LocksAreInUse

\* A call that ends gives up the lock, if it had it.
LEMMA InUseRelease ==
  ASSUME TypeOK, LocksAreInUse, NEW h \in Handles, Discard(h),
         \A f \in Families : \/ family'[f].holder = NoHandle
                             \/ family'[f].holder = family[f].holder /\ family[f].holder # h
  PROVE  LocksAreInUse'
<1>1. \A g \in Handles \ {h} : handle'[g] = handle[g]
  BY DEF Discard, TypeOK
<1> QED
  BY <1>1 DEF LocksAreInUse, Writing

\* BeginBackendWrite and EnterDelete take a free lock.
LEMMA InUseEnter ==
  ASSUME TypeOK, HandlesAreSessions, LocksAreInUse, NEW h \in Handles,
         BeginBackendWrite(h) \/ EnterDelete(h)
  PROVE  LocksAreInUse'
<1> DEFINE e == handle[h].family
<1>1. /\ handle[h].at \in {"lock", "dlock"}
      /\ family' = [family EXCEPT ![e].holder = h]
  BY DEF BeginBackendWrite, EnterDelete
<1>2. e \in Families
  BY <1>1 DEF HandlesAreSessions, Present
<1>3. /\ handle'[h].at \in {"write", "delete"} /\ handle'[h].family = e
      /\ \A g \in Handles \ {h} : handle'[g] = handle[g]
  BY DEF BeginBackendWrite, EnterDelete, TypeOK, HandleStates
<1>4. family'[e].holder = h /\ \A f \in Families \ {e} : family'[f] = family[f]
  BY <1>1, <1>2 DEF TypeOK, FamilyStates
<1>5. ASSUME NEW f \in Families, family'[f].holder # NoHandle, f # e
      PROVE  family'[f].holder # h /\ family'[f].holder = family[f].holder
  BY <1>1, <1>4, <1>5 DEF LocksAreInUse, Writing
<1> QED
  BY <1>2, <1>3, <1>4, <1>5 DEF LocksAreInUse, Writing

LEMMA InUseStep ==
  ASSUME IInv, LocksAreInUse, [Next]_vars
  PROVE  LocksAreInUse'
<1>0. TypeOK /\ HandlesAreSessions
  BY DEF IInv
<1>1. CASE UNCHANGED <<family, handle>>
  BY <1>1 DEF LocksAreInUse, Writing
<1>2. ASSUME NEW h \in Handles, handle[h].at \in {"absent", "live"},
             \A g \in Handles \ {h} : handle'[g] = handle[g],
             \A f \in Families : family'[f].holder = family[f].holder
      PROVE  LocksAreInUse'
  <2>1. \A g \in Handles : Writing(g) \/ handle[g].at = "delete" => handle'[g] = handle[g]
    BY <1>2 DEF Writing
  <2> QED
    BY <1>2, <2>1, InUseFrame DEF Writing
<1>3. ASSUME NEW h \in Handles,
             \/ \E f \in Families, i \in Ids : New(h, f, i) \/ Load(h, f, i)
             \/ \E g \in Handles : Clone(g, h)
             \/ \E i \in Ids : Regenerate(h, i)
             \/ BeginSave(h) \/ RefuseSave(h) \/ BeginDelete(h)
      PROVE  LocksAreInUse'
  <2>1. ASSUME NEW f \in Families, NEW i \in Ids, New(h, f, i) \/ Load(h, f, i)
        PROVE  LocksAreInUse'
    <3>1. \A e \in Families : family'[e].holder = family[e].holder
      BY <1>0, <2>1 DEF New, Load, TypeOK, FamilyStates
    <3>2. handle[h].at = "absent"
      BY <2>1 DEF New, Load
    <3>3. \A g \in Handles \ {h} : handle'[g] = handle[g]
      BY <1>0, <2>1 DEF New, Load, TypeOK
    <3> QED
      BY <1>2, <3>1, <3>2, <3>3
  <2>2. ASSUME \/ \E g \in Handles : Clone(g, h)
               \/ \E i \in Ids : Regenerate(h, i)
               \/ RefuseSave(h)
        PROVE  LocksAreInUse'
    <3>1. family' = family /\ handle[h].at \in {"absent", "live"}
      BY <2>2 DEF Clone, Regenerate, RefuseSave
    <3>2. \A g \in Handles \ {h} : handle'[g] = handle[g]
      BY <1>0, <2>2 DEF Clone, Regenerate, RefuseSave, Discard, TypeOK
    <3> QED
      BY <1>2, <3>1, <3>2
  <2>3. ASSUME BeginSave(h) \/ BeginDelete(h)
        PROVE  LocksAreInUse'
    <3>1. \A e \in Families : family'[e].holder = family[e].holder
      BY <1>0, <2>3 DEF BeginSave, BeginDelete, TypeOK, FamilyStates
    <3>2. handle[h].at = "live"
      BY <2>3 DEF BeginSave, BeginDelete
    <3>3. \A g \in Handles \ {h} : handle'[g] = handle[g]
      BY <1>0, <2>3 DEF BeginSave, BeginDelete, Move, TypeOK
    <3> QED
      BY <1>2, <3>1, <3>2, <3>3
  <2> QED
    BY <1>3, <2>1, <2>2, <2>3
<1>4. ASSUME NEW h \in Handles, Destroy(h) PROVE LocksAreInUse'
  <2>1. handle' = handle /\ \A f \in Families : family'[f].holder = family[f].holder
    BY <1>0, <1>4 DEF Destroy, TypeOK, FamilyStates
  <2> QED
    BY <2>1, InUseFrame DEF Writing
<1>5. ASSUME NEW h \in Handles, Put(h) PROVE LocksAreInUse'
  <2>1. /\ family' = family
        /\ \A g \in Handles : handle'[g].family = handle[g].family
        /\ handle'[h].at = "wrote" /\ \A g \in Handles \ {h} : handle'[g] = handle[g]
    BY <1>0, <1>5 DEF Put, Move, TypeOK, HandleStates
  <2> QED
    BY <2>1, InUseFrame DEF Writing
<1>6. ASSUME NEW h \in Handles,
             \/ DropHandle(h) \/ RefuseBackendWrite(h) \/ RefuseDelete(h)
      PROVE  LocksAreInUse'
  <2>1. Discard(h) /\ handle[h].at \in {"live", "lock", "dlock"}
    BY <1>6 DEF DropHandle, RefuseBackendWrite, RefuseDelete
  <2>2. \A f \in Families : family'[f].holder = family[f].holder
    BY <1>0, <1>6 DEF DropHandle, RefuseBackendWrite, RefuseDelete, TypeOK, FamilyStates
  <2>3. \A f \in Families : family[f].holder # h
    BY <2>1, NoneAssumption DEF LocksAreInUse, Writing
  <2> QED
    BY <1>0, <2>1, <2>2, <2>3, InUseRelease
<1>7. ASSUME NEW h \in Handles, handle[h].at \in {"write", "wrote", "delete"}, Discard(h),
             family'[handle[h].family].holder = NoHandle,
             \A f \in Families \ {handle[h].family} : family'[f] = family[f]
      PROVE  LocksAreInUse'
  <2>1. \A f \in Families \ {handle[h].family} : family[f].holder # h
    BY NoneAssumption DEF LocksAreInUse
  <2> QED
    BY <1>0, <1>7, <2>1, InUseRelease
<1>8. ASSUME NEW h \in Handles,
             \/ RejectPut(h) \/ AbandonSave(h) \/ AbandonDiscard(h) \/ DiscardExpired(h)
             \/ Compensate(h)
      PROVE  LocksAreInUse'
  <2>1. Discard(h) /\ handle[h].at \in {"write", "wrote"} /\ \E s : ReleaseWrite(h, s)
    BY <1>8 DEF RejectPut, AbandonSave, AbandonDiscard, AbandonWrite, DiscardExpired, Compensate
  <2>2. handle[h].family \in Families
    BY <1>0, <2>1 DEF HandlesAreSessions, Present
  <2> QED
    BY <1>0, <1>7, <2>1, <2>2, ReleaseFacts
<1>9. ASSUME NEW h \in Handles, CompleteSave(h) \/ CompleteDelete(h) \/ AbandonDelete(h)
      PROVE  LocksAreInUse'
  <2>1. Discard(h) /\ handle[h].at \in {"wrote", "delete"}
    BY <1>9 DEF CompleteSave, CompleteDelete, AbandonDelete
  <2>2. handle[h].family \in Families
    BY <1>0, <2>1 DEF HandlesAreSessions, Present
  <2>3. /\ family'[handle[h].family].holder = NoHandle
        /\ \A f \in Families \ {handle[h].family} : family'[f] = family[f]
    BY <1>0, <1>9, <2>2 DEF CompleteSave, CompleteDelete, AbandonDelete, TypeOK, FamilyStates
  <2> QED
    BY <1>7, <2>1, <2>3
<1>10. ASSUME NEW h \in Handles, ApplicationStep(h) PROVE LocksAreInUse'
  BY <1>0, <1>3, <1>4, <1>6, <1>10, InUseEnter DEF ApplicationStep
<1>11. ASSUME \/ \E ids \in SUBSET records : ClearStore(ids)
              \/ \E i \in Ids : Expire(i)
              \/ \E r \in flying : LandLate(r)
              \/ UNCHANGED vars
       PROVE  LocksAreInUse'
  BY <1>1, <1>11 DEF ClearStore, Expire, LandLate, vars
<1> QED
  BY <1>3, <1>5, <1>8, <1>9, <1>10, <1>11 DEF Next

\* A lifecycle lock is never orphaned: whoever holds one is in the middle of
\* its backend call, so a call that waits for the lock waits for a call whose
\* end, whatever it is, releases it.
THEOREM NoOrphanedLock == Spec => []LocksAreInUse
<1>1. Init => LocksAreInUse
  BY DEF Init, NewFamily, LocksAreInUse
<1>2. IInv /\ LocksAreInUse /\ [Next]_vars => LocksAreInUse'
  BY InUseStep
<1> QED
  BY <1>1, <1>2, SessionInvariant, PTL DEF Spec

-----------------------------------------------------------------------------
(* A loss: no step of the contract, but of a store that takes two steps for *)
(* a rotation, where what the first one promised may never be stored.       *)

\* Nobody but the save h knows that its ID was stored.
KnownToSaveOnly(h) ==
    /\ handle[h].id \notin gone
    /\ \A f \in Families : family[f].persisted_id # handle[h].id
    /\ \A g \in Handles : handle[g].rotation_from # handle[h].id
    /\ \A g \in Handles \ {h} : handle[g].at = "wrote" => handle[g].id # handle[h].id
    /\ \A r \in flying : r.op = "rotate" => r.source # handle[h].id

\* The future of the rotation h is dropped, and the record it wrote vanishes.
LoseRotation(h) ==
    /\ handle[h].at = "wrote" /\ handle[h].origin \notin {NoId, handle[h].id}
    /\ handle[h].id \in records
    /\ records' = records \ {handle[h].id}
    /\ ended' = ended \cup {lineage[handle[h].id]}
    /\ ReleaseWrite(h, FALSE)
    /\ Discard(h)
    /\ UNCHANGED <<maker, flying, lineage, gone, deleted, revoked>>

\* What a loss does to families and handles.
LEMMA LoseFacts ==
  ASSUME IInv, Locking, CanOutliveFuture, NEW h \in Handles, LoseRotation(h)
  PROVE  LET f == handle[h].family IN
         /\ Present(h) /\ f \in Families /\ CanCreate(h) /\ maker[handle[h].id] = f
         /\ handle[h].origin = handle[h].rotation_from /\ handle[h].origin \in gone
         /\ lineage[handle[h].origin] = lineage[handle[h].id]
         /\ family[f].holder = h /\ family[f].persisted_id = handle[h].origin
         /\ handle'[h] = NoSession /\ \A g \in Handles \ {h} : handle'[g] = handle[g]
         /\ \A e \in Families : e # f => family'[e] = family[e]
         /\ \A e \in Families :
              /\ family'[e].used = family[e].used /\ family'[e].fresh = family[e].fresh
              /\ family'[e].creation_claimed = family[e].creation_claimed
              /\ family'[e].persisted_id = family[e].persisted_id
              /\ family'[e].destroy = family[e].destroy
              /\ family[e].uncertain => family'[e].uncertain
         /\ family'[f].uncertain
<1> DEFINE f == handle[h].family
<1>0. TypeOK /\ Present(h) /\ f \in Families /\ CanCreate(h)
  BY DEF LoseRotation, IInv, Present, HandlesAreSessions, CanCreate
<1>1. /\ handle[h].origin = handle[h].rotation_from /\ handle[h].origin \in gone
      /\ family[f].holder = h /\ family[f].persisted_id = handle[h].origin
      /\ handle[h].uncertain_on_drop /\ handle[h].rotation_from # NoId
  BY <1>0 DEF LoseRotation, Locking, Locks, HoldsLock, WritesCurrent, Writing, FamilyOf
<1>2. maker[handle[h].id] = f /\ lineage[handle[h].origin] = lineage[handle[h].id]
  BY <1>0, <1>1 DEF Locking, Locks, OwnsId, IInv, RotationsAreSound, RotationOf
<1>3. handle'[h] = NoSession /\ \A g \in Handles \ {h} : handle'[g] = handle[g]
  BY <1>0 DEF LoseRotation, Discard, TypeOK
<1>4. family' = [family EXCEPT ![f].holder = NoHandle,
                               ![f].uncertain = @ \/ (~FALSE /\ handle[h].uncertain_on_drop)]
  BY DEF LoseRotation, ReleaseWrite
<1>5. family[f] \in FamilyStates
  BY <1>0 DEF TypeOK
<1>6. /\ family'[f].used = family[f].used /\ family'[f].fresh = family[f].fresh
      /\ family'[f].creation_claimed = family[f].creation_claimed
      /\ family'[f].persisted_id = family[f].persisted_id
      /\ family'[f].destroy = family[f].destroy /\ family'[f].uncertain
      /\ \A e \in Families : e # f => family'[e] = family[e]
  BY <1>0, <1>1, <1>4, <1>5 DEF TypeOK, FamilyStates
<1> QED
  BY <1>0, <1>1, <1>2, <1>3, <1>6

LEMMA LoseIdentities ==
  ASSUME IInv, Locking, CanOutliveFuture, NEW h \in Handles, KnownToSaveOnly(h), LoseRotation(h)
  PROVE  IInv'
<1> DEFINE id == handle[h].id
           f == handle[h].family
<1>0. /\ UNCHANGED <<maker, flying, lineage, gone>>
      /\ records' = records \ {id} /\ ended' = ended \cup {lineage[id]}
  BY DEF LoseRotation
<1>1. /\ handle'[h] = NoSession /\ \A g \in Handles \ {h} : handle'[g] = handle[g]
      /\ \A e \in Families :
           /\ family'[e].used = family[e].used /\ family'[e].fresh = family[e].fresh
           /\ family'[e].creation_claimed = family[e].creation_claimed
           /\ family'[e].persisted_id = family[e].persisted_id
      /\ Present(h) /\ id \in records /\ handle[h].origin \in gone
      /\ lineage[handle[h].origin] = lineage[id]
  BY LoseFacts DEF LoseRotation
<1>2. Stored' = Stored \ {id}
  BY <1>0 DEF Stored, KnownToSaveOnly
<1>3. \A g \in Handles : handle'[g].at # "absent" => g # h /\ handle'[g] = handle[g]
  BY <1>1 DEF NoSession
<1>4. TypeOK'
  <2>1. TypeOK /\ HandlesAreSessions /\ lineage[id] \in Ids
    BY <1>1 DEF IInv, TypeOK, DrawnIds, Stored
  <2>2. family' \in [Families -> FamilyStates] /\ handle' \in [Handles -> HandleStates]
    BY <1>1, <2>1, ReleaseTypes, DiscardTypes DEF LoseRotation
  <2> QED
    BY <1>0, <2>1, <2>2 DEF LoseRotation, TypeOK
<1>5. HandlesAreSessions'
  <2>1. ASSUME NEW g \in Handles, g # h
        PROVE  /\ ~Present(g)' => handle'[g] = NoSession
               /\ Present(g)' => /\ handle'[g].family \in Families
                                 /\ family'[handle'[g].family].used
                                 /\ handle'[g].id \in Ids
                                 /\ lineage'[handle'[g].id] # NoId
               /\ handle'[g].at = "delete" => handle'[g].target \in Ids
    BY <1>0, <1>1, <2>1 DEF IInv, HandlesAreSessions, Present
  <2>2. handle'[h].at = "absent"
    BY <1>1 DEF NoSession
  <2> QED
    BY <1>1, <2>1, <2>2 DEF HandlesAreSessions, Present
<1>6. DrawnIds' /\ FreshIsUsed'
  BY <1>0, <1>1, <1>2 DEF IInv, DrawnIds, FreshIsUsed
<1>7. PersistedIsStored'
  BY <1>1, <1>2 DEF IInv, PersistedIsStored, KnownToSaveOnly
<1>8. ASSUME NEW q, NEW i, q # id, RotationOf(q, i) PROVE RotationOf(q, i)'
  BY <1>0, <1>2, <1>8 DEF RotationOf
<1>9. \A g \in Handles : handle'[g].rotation_from # NoId => g # h /\ handle'[g] = handle[g]
  BY <1>1 DEF NoSession
<1>10. RotationsAreSound'
  <2>1. ASSUME NEW g \in Handles, handle'[g].rotation_from # NoId
        PROVE  RotationOf(handle[g].rotation_from, handle[g].id)'
    BY <1>8, <1>9, <2>1 DEF IInv, RotationsAreSound, KnownToSaveOnly
  <2>2. ASSUME NEW r \in flying, r.op = "rotate"
        PROVE  RotationOf(r.source, r.id)'
    BY <1>8, <2>2 DEF IInv, RotationsAreSound, KnownToSaveOnly
  <2> QED
    BY <1>0, <1>9, <2>1, <2>2 DEF IInv, RotationsAreSound
<1>11. OneSource'
  BY <1>0, <1>9 DEF IInv, OneSource
<1>12. OriginsAreOwn'
  BY <1>2, <1>3 DEF IInv, OriginsAreOwn, KnownToSaveOnly
<1>13. ASSUME NEW g \in Handles, Present(g)'
       PROVE  /\ handle'[g] = handle[g] /\ g # h /\ Present(g) /\ handle[g].family \in Families
              /\ Fresh(g)' <=> Fresh(g)
              /\ FamilyOf(g).creation_claimed' = FamilyOf(g).creation_claimed
              /\ FamilyOf(g).persisted_id' = FamilyOf(g).persisted_id
              /\ FamilyOf(g).fresh' = FamilyOf(g).fresh
  <2>1. handle'[g] = handle[g] /\ g # h /\ Present(g) /\ handle[g].family \in Families
    BY <1>3, <1>13 DEF Present, IInv, HandlesAreSessions
  <2> QED
    BY <1>1, <2>1 DEF Fresh, FamilyOf, Present
<1>14. FreshLineage'
  <2>1. ASSUME NEW g \in Handles, Fresh(g)' PROVE Present(g)'
    BY <2>1 DEF Fresh
  <2> QED
    BY <1>0, <1>13, <2>1 DEF IInv, FreshLineage
<1>15. ASSUME NEW i, NeverStored(i) PROVE NeverStored(i)'
  BY <1>0, <1>2, <1>15 DEF NeverStored
<1>16. ClaimedOnceStored'
  <2>1. ASSUME NEW g \in Handles, Fresh(g)' PROVE Present(g)'
    BY <2>1 DEF Fresh
  <2> QED
    BY <1>13, <1>15, <2>1 DEF IInv, ClaimedOnceStored
<1>17. TicketsAreUnique'
  <2>1. ASSUME NEW g \in Handles, HasTicket(g)'
        PROVE  HasTicket(g) /\ Present(g)' /\ handle'[g] = handle[g]
    BY <1>3, <2>1 DEF HasTicket, Present
  <2>2. ASSUME NEW g \in Handles, HasTicket(g)'
        PROVE  /\ FamilyOf(g).fresh' /\ FamilyOf(g).creation_claimed'
               /\ NeverStored(handle[g].id)'
               /\ \A k \in Handles : HasTicket(k)' /\ lineage[handle[k].id] = lineage[handle[g].id]
                                       => k = g
               /\ \A r \in flying : r.op = "insert" => lineage[r.id] # lineage[handle[g].id]
    BY <1>13, <1>15, <2>1, <2>2 DEF IInv, TicketsAreUnique
  <2>3. ASSUME NEW r \in flying, r.op = "insert"
        PROVE  /\ family'[maker[lineage[r.id]]].creation_claimed
               /\ NeverStored(r.id)'
               /\ \A q \in flying : q.op = "insert" /\ lineage[q.id] = lineage[r.id] => q = r
    <3>1. /\ family[maker[lineage[r.id]]].creation_claimed /\ NeverStored(r.id)
          /\ \A q \in flying : q.op = "insert" /\ lineage[q.id] = lineage[r.id] => q = r
          /\ r.id \in Ids /\ lineage[r.id] # NoId
      BY <2>3 DEF IInv, TicketsAreUnique, DrawnIds, TypeOK, Requests
    <3>2. maker[lineage[r.id]] \in Families
      BY <3>1 DEF IInv, DrawnIds, TypeOK
    <3> QED
      BY <1>1, <1>15, <3>1, <3>2
  <2> QED
    BY <1>0, <2>1, <2>2, <2>3 DEF TicketsAreUnique
<1>18. EndedWasStored' /\ NoResurrection' /\ NoFork'
  BY <1>0, <1>1 DEF IInv, EndedWasStored, NoResurrection, NoFork
<1>19. EndedStaysEnded'
  BY <1>0, <1>1 DEF IInv, EndedStaysEnded, NoFork
<1> QED
  BY <1>4, <1>5, <1>6, <1>7, <1>10, <1>11, <1>12, <1>14, <1>16, <1>17, <1>18, <1>19 DEF IInv

\* The contract's promises survive a loss that nobody could notice.
LEMMA LoseStep ==
  ASSUME FullInv, CanOutliveFuture, NEW h \in Handles, KnownToSaveOnly(h), LoseRotation(h)
  PROVE  FullInv'
<1> DEFINE id == handle[h].id
           f == handle[h].family
<1>0. /\ UNCHANGED <<maker, flying, lineage, gone, deleted, revoked>>
      /\ records' = records \ {id} /\ ended' = ended \cup {lineage[id]}
      /\ handle[h].at = "wrote" /\ Discard(h) /\ IInv /\ Locking /\ Fence /\ Finality
  BY DEF LoseRotation, FullInv
<1>1. /\ Present(h) /\ f \in Families /\ maker[id] = f /\ family[f].holder = h
      /\ handle'[h] = NoSession /\ \A g \in Handles \ {h} : handle'[g] = handle[g]
      /\ \A e \in Families : e # f => family'[e] = family[e]
      /\ \A e \in Families :
           /\ family'[e].used = family[e].used /\ family'[e].fresh = family[e].fresh
           /\ family'[e].persisted_id = family[e].persisted_id
           /\ family'[e].destroy = family[e].destroy
           /\ family[e].uncertain => family'[e].uncertain
  BY <1>0, LoseFacts
<1>2. IInv'
  BY <1>0, LoseIdentities
<1>3. RotationKeepsSession'
  BY <1>0, <1>1 DEF FullInv, RotationKeepsSession
<1>4. Locking'
  BY <1>0, <1>1, EndLocking DEF FamilyOf
<1>5. \A i \in Ids : maker[i] # NoFamily => maker[i] \in Families
  BY <1>0 DEF Fence, MakersAreUsed
<1>6. \A i \in records : i \in Ids /\ maker[i] \in Families
  BY <1>0, <1>5 DEF IInv, TypeOK, DrawnIds, Stored
<1>7. Fence'
  <2>1. MakersAreUsed' /\ LateWritesAreFenced'
    <3>1. \A r \in flying : r.op # "delete" => maker[r.id] \in Families
      BY <1>0, <1>5 DEF IInv, TypeOK, DrawnIds, Requests
    <3> QED
      BY <1>0, <1>1, <3>1 DEF Fence, MakersAreUsed, LateWritesAreFenced
  <2>2. ASSUME NEW i \in records', Known(i) PROVE Known(i)'
    BY <1>0, <1>1, <1>6, <2>2 DEF Known
  <2> QED
    BY <1>0, <2>1, <2>2 DEF Fence, NoStrayRecord
<1>8. Finality'
  <2>1. f \notin deleted
    BY <1>0, <1>1 DEF Finality, DeletedIsFenced, Writing
  <2>2. DeletedIsFenced'
    BY <1>0, <1>1, <2>1 DEF Finality, DeletedIsFenced, Writing, NoSession, IInv, TypeOK
  <2> QED
    BY <1>0, <2>2 DEF Finality, RevokedFamilyHasNoRecord
<1> QED
  BY <1>2, <1>3, <1>4, <1>7, <1>8 DEF FullInv
=============================================================================
