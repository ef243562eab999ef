--------------------------- MODULE SqlStoreProofs ---------------------------
(***************************************************************************)
(* Proofs about SqlStore, SqlClear and SqlPool, for every number of        *)
(* handles, families, IDs and connections.  What ServerStoreProofs shows   *)
(* of the contract is instantiated with the state that ContractHandle      *)
(* shows to it, in which a transaction is one step; the rows that          *)
(* transactions and clear_store hold in the meantime are what ties that to *)
(* the store (RowsHeld, ClearHolds).                                       *)
(***************************************************************************)
EXTENDS SqlClear, FiniteSetTheorems, TLAPS

-----------------------------------------------------------------------------
(* What the contract sees of a handle.                                     *)

SqlContract == INSTANCE ServerStoreProofs WITH handle <- ContractHandle

\* A handle outside a rotation is what the contract sees.
LEMMA SqlFields ==
  ASSUME NEW g \in Handles
  PROVE  /\ ContractHandle[g].family = handle[g].family /\ ContractHandle[g].id = handle[g].id
         /\ ContractHandle[g].rotation_from = handle[g].rotation_from
         /\ ContractHandle[g].origin = handle[g].origin /\ ContractHandle[g].target = handle[g].target
         /\ ContractHandle[g].uncertain_on_drop = handle[g].uncertain_on_drop
         /\ handle[g].at # "insert" => ContractHandle[g] = handle[g]
         /\ handle[g].at = "insert" => ContractHandle[g].at = "write"
  BY DEF ContractHandle

LEMMA SqlUpdate ==
  ASSUME handle \in [Handles -> HandleStates], NEW h \in Handles,
         NEW x, handle' = [handle EXCEPT ![h] = x], x.at # "insert"
  PROVE  ContractHandle' = [ContractHandle EXCEPT ![h] = x]
  BY DEF ContractHandle

LEMMA SqlDiscard ==
  ASSUME handle \in [Handles -> HandleStates], NEW h \in Handles, Discard(h)
  PROVE  SqlContract!Discard(h)
<1>1. NoSession.at # "insert" /\ NoSession = SqlContract!NoSession
  BY DEF NoSession, SqlContract!NoSession
<1> QED
  BY <1>1, SqlUpdate DEF Discard, SqlContract!Discard

LEMMA SqlMove ==
  ASSUME handle \in [Handles -> HandleStates], NEW h \in Handles, NEW s, s # "insert",
         handle[h].at # "insert", Move(h, s)
  PROVE  SqlContract!Move(h, s)
<1> DEFINE x == [handle[h] EXCEPT !.at = s]
<1>1. handle' = [handle EXCEPT ![h] = x] /\ x.at = s
  BY DEF Move, HandleStates
<1>2. ContractHandle[h] = handle[h]
  BY SqlFields
<1>3. ContractHandle' = [ContractHandle EXCEPT ![h] = x]
  <2> HIDE DEF x
  <2> QED
    BY <1>1, SqlUpdate
<1> QED
  BY <1>2, <1>3 DEF SqlContract!Move

LEMMA SqlSame == handle' = handle => ContractHandle' = ContractHandle
  BY DEF ContractHandle

LEMMA SqlLoad ==
  ASSUME handle \in [Handles -> HandleStates], NEW h \in Handles, NEW f \in Families,
         NEW i \in Ids, Load(h, f, i)
  PROVE  SqlContract!Load(h, f, i)
<1> DEFINE x == [handle[h] EXCEPT !.at = "live", !.family = f, !.id = i]
           ch == ContractHandle
<1>1. handle' = [handle EXCEPT ![h] = x] /\ x.at = "live" /\ handle[h].at = "absent"
  BY DEF Load, HandleStates
<1> HIDE DEF x
<1>2. ch' = [ch EXCEPT ![h] = x]
  BY <1>1, SqlUpdate
<1>3. ch[h] = handle[h] /\ ch = [g \in Handles |-> ch[g]]
  BY <1>1, SqlFields DEF ContractHandle
<1> HIDE DEF ch
<1>4. ch' = [ch EXCEPT ![h].at = "live", ![h].family = f, ![h].id = i]
  BY <1>2, <1>3 DEF x
<1> QED
  BY <1>1, <1>3, <1>4 DEF Load, SqlContract!Load, history, SqlContract!history, ch

\* The conditions of the code read nothing else of a handle.
LEMMA SqlConditions ==
  ASSUME NEW h \in Handles
  PROVE  /\ SqlContract!FamilyOf(h) = FamilyOf(h)
         /\ SqlContract!OriginConflict(h) <=> OriginConflict(h)
         /\ SqlContract!Superseded(h) <=> Superseded(h)
         /\ SqlContract!AdmitsWrite(h) <=> AdmitsWrite(h)
         /\ SqlContract!AdmitsDelete(h) <=> AdmitsDelete(h)
         /\ SqlContract!CanCreate(h) <=> CanCreate(h)
         /\ SqlContract!DeleteTarget(h) = DeleteTarget(h)
<1>1. SqlContract!FamilyOf(h) = FamilyOf(h)
  BY SqlFields DEF FamilyOf, SqlContract!FamilyOf
<1>2. SqlContract!OriginConflict(h) <=> OriginConflict(h)
  BY <1>1, SqlFields DEF OriginConflict, SqlContract!OriginConflict
<1> QED
  BY <1>1, <1>2, SqlFields DEF Superseded, SqlContract!Superseded, AdmitsWrite, SqlContract!AdmitsWrite,
     AdmitsDelete, SqlContract!AdmitsDelete, CanCreate, SqlContract!CanCreate, DeleteTarget,
     SqlContract!DeleteTarget

LEMMA SqlApplication ==
  ASSUME handle \in [Handles -> HandleStates], NEW h \in Handles, ApplicationStep(h)
  PROVE  SqlContract!ApplicationStep(h)
<1> DEFINE ch == ContractHandle
<1>0. /\ \A g \in Handles : handle[g].at # "insert" => ch[g] = handle[g]
      /\ \A g \in Handles : handle[g] \in HandleStates
      /\ \A g \in Handles : /\ ch[g].family = handle[g].family /\ ch[g].id = handle[g].id
                            /\ ch[g].rotation_from = handle[g].rotation_from
  BY SqlFields
<1> HIDE DEF ch
<1>1. ASSUME NEW g \in Handles, NEW x, handle' = [handle EXCEPT ![g] = x], x.at # "insert"
      PROVE  ch' = [ch EXCEPT ![g] = x]
  BY <1>1, SqlUpdate DEF ch
<1>2. handle' = handle => ch' = ch
  BY DEF ch, ContractHandle
<1>3. ASSUME NEW f \in Families, NEW i \in Ids, New(h, f, i) PROVE SqlContract!New(h, f, i)
  <2> DEFINE x == [handle[h] EXCEPT !.at = "live", !.family = f, !.id = i]
  <2>1. handle' = [handle EXCEPT ![h] = x] /\ x.at = "live" /\ handle[h].at = "absent"
    BY <1>0, <1>3 DEF New, HandleStates
  <2>2. ch' = [ch EXCEPT ![h] = x] /\ ch[h] = handle[h]
    BY <1>0, <1>1, <2>1
  <2>3. ch = [g \in Handles |-> ch[g]]
    BY DEF ch, ContractHandle
  <2>4. ch' = [ch EXCEPT ![h].at = "live", ![h].family = f, ![h].id = i]
    BY <2>2, <2>3
  <2> QED
    BY <1>3, <2>1, <2>2, <2>4 DEF New, SqlContract!New, ch
<1>4. ASSUME NEW g \in Handles, Clone(h, g) PROVE SqlContract!Clone(h, g)
  <2>1. handle[h].at = "live" /\ handle[g].at = "absent" /\ handle' = [handle EXCEPT ![g] = handle[h]]
    BY <1>4 DEF Clone
  <2>2. ch' = [ch EXCEPT ![g] = handle[h]] /\ ch[h] = handle[h] /\ ch[g] = handle[g]
    BY <1>0, <1>1, <2>1
  <2> QED
    BY <1>4, <2>1, <2>2 DEF Clone, SqlContract!Clone, history, SqlContract!history, ch
<1>5. ASSUME NEW i \in Ids, Regenerate(h, i) PROVE SqlContract!Regenerate(h, i)
  <2> DEFINE p == FamilyOf(h).persisted_id
             s == IF p = handle[h].id \/ handle[h].rotation_from = p
                  THEN p ELSE handle[h].rotation_from
             x == [handle[h] EXCEPT !.rotation_from = s, !.id = i]
  <2>1. handle' = [handle EXCEPT ![h] = x] /\ x.at = "live" /\ handle[h].at = "live"
    BY <1>0, <1>5 DEF Regenerate, HandleStates
  <2>2. ch' = [ch EXCEPT ![h] = x] /\ ch[h] = handle[h]
    BY <1>0, <1>1, <2>1
  <2>3. SqlContract!FamilyOf(h) = FamilyOf(h)
    BY SqlConditions
  <2>4. ch' = [ch EXCEPT ![h].rotation_from = s, ![h].id = i]
    BY <2>2
  <2> QED
    BY <1>5, <2>1, <2>2, <2>3, <2>4 DEF Regenerate, SqlContract!Regenerate, ch
<1>6. CASE Destroy(h)
  <2>1. handle' = handle /\ handle[h].at = "live"
    BY <1>6 DEF Destroy
  <2> QED
    BY <1>0, <1>2, <1>6, <2>1, SqlConditions
    DEF Destroy, SqlContract!Destroy, SqlContract!ApplicationStep, history, SqlContract!history, ch
<1>7. CASE BeginSave(h)
  <2> DEFINE x == [handle[h] EXCEPT !.at = "lock", !.origin = FamilyOf(h).persisted_id]
  <2>1. handle' = [handle EXCEPT ![h] = x] /\ x.at = "lock" /\ handle[h].at = "live"
    BY <1>0, <1>7 DEF BeginSave, HandleStates
  <2>2. ch' = [ch EXCEPT ![h] = x] /\ ch[h] = handle[h]
    BY <1>0, <1>1, <2>1
  <2>3. SqlContract!BeginSave(h)
    BY <1>7, <2>1, <2>2, SqlConditions
    DEF BeginSave, SqlContract!BeginSave, ClaimsCreation, SqlContract!ClaimsCreation, history,
        SqlContract!history, ch
  <2> QED
    BY <2>3 DEF SqlContract!ApplicationStep
<1>8. CASE BeginBackendWrite(h)
  <2> DEFINE b == CanCreate(h) /\ CanOutliveFuture
             x == [handle[h] EXCEPT !.at = "write", !.uncertain_on_drop = b]
  <2>1. handle' = [handle EXCEPT ![h] = x] /\ x.at = "write" /\ handle[h].at = "lock"
    BY <1>0, <1>8 DEF BeginBackendWrite, HandleStates
  <2>2. ch' = [ch EXCEPT ![h] = x] /\ ch[h] = handle[h]
    BY <1>0, <1>1, <2>1
  <2>3. SqlContract!CanCreate(h) = CanCreate(h)
    BY <1>0, <2>1, SqlFields DEF SqlContract!CanCreate, CanCreate
  <2>4. ch' = [ch EXCEPT ![h].at = "write", ![h].uncertain_on_drop = SqlContract!CanCreate(h) /\ CanOutliveFuture]
    BY <2>2, <2>3
  <2>5. SqlContract!BeginBackendWrite(h)
    BY <1>8, <2>1, <2>2, <2>4, SqlConditions
    DEF BeginBackendWrite, SqlContract!BeginBackendWrite, history, SqlContract!history, ch
  <2> QED
    BY <2>5 DEF SqlContract!ApplicationStep
<1>9. CASE BeginDelete(h)
  <2>1. handle[h].at = "live" /\ SqlContract!Move(h, "dlock")
    BY <1>9, SqlMove DEF BeginDelete
  <2> QED
    BY <1>0, <1>9, <2>1 DEF BeginDelete, SqlContract!BeginDelete, SqlContract!ApplicationStep, history,
       SqlContract!history, ch
<1>10. CASE EnterDelete(h)
  <2> DEFINE x == [handle[h] EXCEPT !.at = "delete", !.target = DeleteTarget(h)]
  <2>1. handle' = [handle EXCEPT ![h] = x] /\ x.at = "delete" /\ handle[h].at = "dlock"
    BY <1>0, <1>10 DEF EnterDelete, HandleStates
  <2>2. ch' = [ch EXCEPT ![h] = x] /\ ch[h] = handle[h]
    BY <1>0, <1>1, <2>1
  <2>3. SqlContract!EnterDelete(h)
    BY <1>10, <2>1, <2>2, SqlConditions
    DEF EnterDelete, SqlContract!EnterDelete, history, SqlContract!history, ch
  <2> QED
    BY <2>3 DEF SqlContract!ApplicationStep
<1>11. CASE DropHandle(h) \/ RefuseSave(h) \/ RefuseBackendWrite(h) \/ RefuseDelete(h)
  <2>1. handle[h].at \in {"live", "lock", "dlock"} /\ SqlContract!Discard(h) /\ ch[h] = handle[h]
    BY <1>0, <1>11, SqlDiscard
    DEF DropHandle, RefuseSave, RefuseBackendWrite, RefuseDelete
  <2>2. CASE DropHandle(h)
    BY <2>1, <2>2 DEF DropHandle, SqlContract!DropHandle, SqlContract!ApplicationStep, history,
       SqlContract!history, ch
  <2>3. CASE RefuseSave(h)
    BY <2>1, <2>3, SqlConditions DEF RefuseSave, SqlContract!RefuseSave, SqlContract!ApplicationStep,
       history, SqlContract!history, ch
  <2>4. CASE RefuseBackendWrite(h)
    BY <2>1, <2>4, SqlConditions DEF RefuseBackendWrite, SqlContract!RefuseBackendWrite,
       SqlContract!ApplicationStep, history, SqlContract!history, ch
  <2>5. CASE RefuseDelete(h)
    BY <2>1, <2>5, SqlConditions DEF RefuseDelete, SqlContract!RefuseDelete, SqlContract!ApplicationStep,
       history, SqlContract!history, ch
  <2> QED
    BY <1>11, <2>2, <2>3, <2>4, <2>5
<1> QED
  BY <1>3, <1>4, <1>5, <1>6, <1>7, <1>8, <1>9, <1>10, <1>11
  DEF ApplicationStep, SqlContract!ApplicationStep

\* A transaction holds the row of its source, and each row is held once.
RowsHeld ==
    /\ \A h \in Handles : handle[h].at = "insert" =>
         Rotates(h) /\ handle[h].origin \in records
    /\ \A g, h \in Handles :
         handle[g].at = "insert" /\ handle[h].at = "insert" /\ handle[g].origin = handle[h].origin
         => g = h

SqlInv ==
    SqlContract!FullInv /\ handle \in [Handles -> HandleStates] /\ RowsHeld

\* Backend calls by a handle that is not in the middle of a rotation.
LEMMA SqlCalls ==
  ASSUME SqlInv, NEW h \in Handles
  PROVE  /\ Put(h) => SqlContract!Put(h)
         /\ RejectPut(h) => SqlContract!RejectPut(h)
         /\ CompleteSave(h) => SqlContract!CompleteSave(h)
         /\ Compensate(h) => SqlContract!Compensate(h)
         /\ CompleteDelete(h) => SqlContract!CompleteDelete(h)
         /\ AbandonDelete(h) => SqlContract!AbandonDelete(h)
         /\ AbandonSave(h) => SqlContract!AbandonSave(h)
<1> DEFINE ch == ContractHandle
<1>0. /\ handle \in [Handles -> HandleStates]
      /\ handle[h].at # "insert" => ch[h] = handle[h]
      /\ ch[h].family = handle[h].family
      /\ SqlContract!FamilyOf(h) = FamilyOf(h)
      /\ SqlContract!CanCreate(h) <=> CanCreate(h)
      /\ ch[h].uncertain_on_drop = handle[h].uncertain_on_drop
  BY SqlFields, SqlConditions DEF SqlInv
<1>d. Discard(h) => SqlContract!Discard(h)
  BY <1>0, SqlDiscard
<1> HIDE DEF ch
<1>1. ASSUME Put(h) PROVE SqlContract!Put(h)
  <2>1. handle[h].at = "write" /\ SqlContract!Move(h, "wrote")
    BY <1>0, <1>1, SqlMove DEF Put
  <2> QED
    BY <1>0, <1>1, <2>1 DEF Put, SqlContract!Put, Accepts, SqlContract!Accepts,
       Replace, SqlContract!Replace, ch
<1>r. ASSUME NEW s PROVE ReleaseWrite(h, s) => SqlContract!ReleaseWrite(h, s)
  BY <1>0 DEF ReleaseWrite, SqlContract!ReleaseWrite, ch
<1>2. ASSUME RejectPut(h) PROVE SqlContract!RejectPut(h)
  BY <1>0, <1>2, <1>d, <1>r DEF RejectPut, SqlContract!RejectPut, Accepts,
     SqlContract!Accepts, history, SqlContract!history, ch
<1>3. ASSUME CompleteSave(h) PROVE SqlContract!CompleteSave(h)
  BY <1>0, <1>3, <1>d DEF CompleteSave, SqlContract!CompleteSave, MarkPersisted,
     SqlContract!MarkPersisted, history, SqlContract!history, ch
<1>4. ASSUME Compensate(h) PROVE SqlContract!Compensate(h)
  BY <1>0, <1>4, <1>d, <1>r DEF Compensate, SqlContract!Compensate, CleansUp,
     SqlContract!CleansUp, EndRecords, SqlContract!EndRecords, ch
<1>5. ASSUME CompleteDelete(h) PROVE SqlContract!CompleteDelete(h)
  BY <1>0, <1>5, <1>d DEF CompleteDelete, SqlContract!CompleteDelete, EndRecords,
     SqlContract!EndRecords, ch
<1>6. ASSUME AbandonDelete(h) PROVE SqlContract!AbandonDelete(h)
  BY <1>0, <1>6, <1>d DEF AbandonDelete, SqlContract!AbandonDelete, MayFly,
     SqlContract!MayFly, DeleteRequest, SqlContract!DeleteRequest, history,
     SqlContract!history, ch
<1>7. ASSUME NEW s, s # "insert", NEW requests, AbandonWrite(h, s, requests)
      PROVE  SqlContract!AbandonWrite(h, s, requests)
  BY <1>0, <1>7, <1>d, <1>r DEF AbandonWrite, SqlContract!AbandonWrite, MayFly,
     SqlContract!MayFly, history, SqlContract!history, ch
<1>8. ASSUME AbandonSave(h) PROVE SqlContract!AbandonSave(h)
  <2>1. CASE AbandonWrite(h, "write", IF CanCreate(h) THEN {SaveRequest(h)} ELSE {})
    <3>1. handle[h].at = "write"
      BY <2>1 DEF AbandonWrite
    <3>2. SaveRequest(h) = SqlContract!SaveRequest(h)
      BY <1>0, <3>1 DEF SaveRequest, SqlContract!SaveRequest, ch
    <3> QED
      BY <1>0, <1>7, <2>1, <3>2 DEF SqlContract!AbandonSave
  <2>2. CASE /\ CanOutliveFuture
             /\ AbandonWrite(h, "wrote",
                  IF FamilyOf(h).destroy THEN {DeleteRequest(handle[h].id)} ELSE {})
    <3>1. handle[h].at = "wrote"
      BY <2>2 DEF AbandonWrite
    <3>2. DeleteRequest(handle[h].id) = SqlContract!DeleteRequest(ch[h].id)
      BY <1>0, <3>1 DEF DeleteRequest, SqlContract!DeleteRequest
    <3> QED
      BY <1>0, <1>7, <2>2, <3>2 DEF SqlContract!AbandonSave, ch
  <2> QED
    BY <1>8, <2>1, <2>2 DEF AbandonSave
<1> QED
  BY <1>1, <1>2, <1>3, <1>4, <1>5, <1>6, <1>8

\* Only the DELETE of the source brings a handle into its transaction.
LEMMA SqlQuiet ==
  ASSUME handle \in [Handles -> HandleStates], NEW h \in Handles,
         \/ ApplicationStep(h)
         \/ \E f \in Families, i \in Ids : Load(h, f, i)
         \/ Execute(h) \/ Commit(h) \/ Reject(h) \/ Abandon(h)
         \/ CompleteSave(h) \/ Compensate(h)
         \/ CompleteDelete(h) \/ AbandonDelete(h)
  PROVE  /\ handle' = [g \in Handles |-> handle'[g]]
         /\ \A g \in Handles : handle'[g].at = "insert" => handle'[g] = handle[g]
<1> DEFINE Goal == /\ handle' = [g \in Handles |-> handle'[g]]
                   /\ \A g \in Handles : handle'[g].at = "insert" => handle'[g] = handle[g]
<1>1. ASSUME NEW x, handle' = [handle EXCEPT ![h] = x], x.at # "insert"
      PROVE  Goal
  BY <1>1
<1>2. CASE handle' = handle
  BY <1>2
<1>3. ASSUME Discard(h) PROVE Goal
  BY <1>3 DEF Discard, NoSession
<1>4. ASSUME NEW s, Move(h, s), s # "insert" PROVE Goal
  BY <1>4 DEF Move, HandleStates
<1>5. ASSUME ApplicationStep(h) PROVE Goal
  <2>1. ASSUME NEW f \in Families, NEW i \in Ids, New(h, f, i) PROVE Goal
    BY <2>1 DEF New, HandleStates
  <2>2. ASSUME NEW g \in Handles, Clone(h, g) PROVE Goal
    BY <2>2 DEF Clone, HandleStates
  <2>3. ASSUME NEW i \in Ids, Regenerate(h, i) PROVE Goal
    BY <2>3 DEF Regenerate, HandleStates
  <2>4. CASE BeginSave(h) \/ BeginBackendWrite(h) \/ EnterDelete(h)
    BY <2>4 DEF BeginSave, BeginBackendWrite, EnterDelete, HandleStates
  <2>5. CASE BeginDelete(h)
    BY <1>4, <2>5 DEF BeginDelete
  <2>6. CASE Destroy(h)
    BY <1>2, <2>6 DEF Destroy
  <2>7. CASE DropHandle(h) \/ RefuseSave(h) \/ RefuseBackendWrite(h) \/ RefuseDelete(h)
    <3>1. Discard(h)
      BY <2>7 DEF DropHandle, RefuseSave, RefuseBackendWrite, RefuseDelete
    <3> QED
      BY <1>3, <3>1
  <2> QED
    BY <1>5, <2>1, <2>2, <2>3, <2>4, <2>5, <2>6, <2>7 DEF ApplicationStep
<1>6. ASSUME NEW f \in Families, NEW i \in Ids, Load(h, f, i) PROVE Goal
  BY <1>6 DEF Load, HandleStates
<1>7. ASSUME Execute(h) \/ Commit(h) PROVE Goal
  <2>1. Move(h, "wrote")
    BY <1>7 DEF Execute, Put, Commit
  <2> QED
    BY <1>4, <2>1
<1>8. ASSUME \/ Reject(h) \/ Abandon(h) \/ CompleteSave(h) \/ Compensate(h)
             \/ CompleteDelete(h) \/ AbandonDelete(h)
      PROVE  Goal
  <2>1. Discard(h)
    BY <1>8 DEF Reject, RejectPut, Abandon, AbandonSave, AbandonWrite,
       CompleteSave, Compensate, CompleteDelete, AbandonDelete
  <2> QED
    BY <1>3, <2>1
<1> HIDE DEF Goal
<1> QED
  BY <1>5, <1>6, <1>7, <1>8 DEF Goal

\* A rotation is in the middle of its transaction since it found its source.
LEMMA SqlHandles ==
  ASSUME handle \in [Handles -> HandleStates], SqlNext
  PROVE  /\ handle' = [g \in Handles |-> handle'[g]]
         /\ \A g \in Handles : handle'[g].at = "insert" =>
              handle'[g] = handle[g] \/ DeleteSource(g)
<1> DEFINE Goal == /\ handle' = [g \in Handles |-> handle'[g]]
                   /\ \A g \in Handles : handle'[g].at = "insert" =>
                        handle'[g] = handle[g] \/ DeleteSource(g)
<1>1. ASSUME NEW h \in Handles, DeleteSource(h) PROVE Goal
  BY <1>1 DEF DeleteSource, Move, HandleStates
<1>2. CASE \/ ClearStore(Ids)
           \/ \E i \in Ids : Expire(i)
           \/ \E r \in flying : LandUnlocked(r)
  <2>1. handle' = handle
    BY <1>2 DEF ClearStore, Expire, LandUnlocked, LandLate
  <2> QED
    BY <2>1
<1> HIDE DEF Goal
<1>3. CASE \E h \in Handles :
             \/ ApplicationStep(h)
             \/ \E f \in Families, i \in Ids : Load(h, f, i)
             \/ Execute(h) \/ DeleteSource(h) \/ Commit(h) \/ Reject(h)
                \/ Abandon(h)
             \/ CompleteSave(h)
             \/ Unlocked(handle[h].id) /\ Compensate(h)
             \/ Unlocked(handle[h].target) /\ CompleteDelete(h)
             \/ AbandonDelete(h)
  BY <1>1, <1>3, SqlQuiet DEF Goal
<1>4. CASE \/ LockedRows = {} /\ ClearStore(Ids)
           \/ \E i \in Ids : Unlocked(i) /\ Expire(i)
           \/ \E r \in flying : LandUnlocked(r)
  BY <1>2, <1>4 DEF Goal
<1> QED
  BY <1>3, <1>4 DEF SqlNext, Goal

\* Statements on a row that a transaction has deleted wait for its end.
LEMMA SqlRows ==
  ASSUME SqlInv, SqlNext
  PROVE  RowsHeld'
<1>0. handle \in [Handles -> HandleStates] /\ RowsHeld
  BY DEF SqlInv
<1>1. ASSUME NEW g \in Handles, handle[g].at = "insert"
      PROVE  handle[g].origin \in LockedRows /\ handle[g].origin \in records
  BY <1>0, <1>1 DEF LockedRows, RowsHeld
<1>2. ASSUME NEW g \in Handles, handle[g].at = "insert", handle'[g] = handle[g]
      PROVE  handle[g].origin \in records'
  <2>1. ASSUME NEW i, EndRecords({i}), i \notin LockedRows
        PROVE  handle[g].origin \in records'
    BY <1>1, <1>2, <2>1 DEF EndRecords
  <2>2. ASSUME NEW s, NEW i, Replace(s, i), s \notin LockedRows \/ s = i
        PROVE  handle[g].origin \in records'
    BY <1>1, <1>2, <2>2 DEF Replace
  <2>3. ASSUME NEW h \in Handles, Execute(h) PROVE handle[g].origin \in records'
    <3>1. handle[h].origin = NoId \/ handle[h].origin = handle[h].id
      BY <2>3 DEF Execute, Rotates
    <3>2. NoId \notin records
      BY NoneAssumption DEF SqlInv, SqlContract!FullInv, SqlContract!IInv, SqlContract!TypeOK
    <3> QED
      BY <1>1, <1>2, <2>3, <3>1, <3>2 DEF Execute, Put, Replace
  <2>4. ASSUME NEW h \in Handles, Commit(h) PROVE handle[g].origin \in records'
    <3>1. handle[h].at = "insert" /\ handle'[h].at = "wrote"
      BY <1>0, <2>4 DEF Commit, Move, HandleStates
    <3>2. handle[h].origin # handle[g].origin
      BY <1>0, <1>2, <3>1 DEF RowsHeld
    <3> QED
      BY <1>1, <1>2, <2>4, <3>2 DEF Commit, Replace
  <2>5. ASSUME NEW h \in Handles, Unlocked(handle[h].id), Compensate(h)
        PROVE  handle[g].origin \in records'
    BY <2>1, <2>5 DEF Unlocked, Compensate, CleansUp
  <2>6. ASSUME NEW h \in Handles, Unlocked(handle[h].target), CompleteDelete(h)
        PROVE  handle[g].origin \in records'
    BY <2>1, <2>6 DEF Unlocked, CompleteDelete
  <2>7. ASSUME NEW i \in Ids, Unlocked(i), Expire(i) PROVE handle[g].origin \in records'
    BY <2>1, <2>7 DEF Unlocked, Expire
  <2>8. ASSUME NEW r \in flying, LandUnlocked(r) PROVE handle[g].origin \in records'
    <3>1. r.id \notin LockedRows /\ r.source \notin LockedRows
      BY <2>8 DEF LandUnlocked
    <3>2. \/ EndRecords({r.id})
          \/ Replace(r.source, r.id)
          \/ records' = records
      BY <2>8 DEF LandUnlocked, LandLate
    <3> QED
      BY <1>1, <1>2, <2>1, <2>2, <3>1, <3>2
  <2>9. CASE records' = records
    BY <1>1, <1>2, <2>9
  <2>10. ASSUME NEW h \in Handles, ApplicationStep(h) PROVE records' = records
    BY <2>10 DEF ApplicationStep, New, Clone, Regenerate, Destroy,
       DropHandle, BeginSave, RefuseSave, BeginBackendWrite,
       RefuseBackendWrite, BeginDelete, EnterDelete, RefuseDelete
  <2>11. ASSUME NEW h \in Handles,
                \/ \E f \in Families, i \in Ids : Load(h, f, i)
                \/ DeleteSource(h) \/ Reject(h) \/ Abandon(h)
                \/ CompleteSave(h) \/ AbandonDelete(h)
         PROVE  records' = records
    BY <2>11 DEF Load, DeleteSource, Reject, RejectPut, Abandon,
       AbandonSave, AbandonWrite, CompleteSave, AbandonDelete
  <2>12. ~(LockedRows = {} /\ ClearStore(Ids))
    BY <1>1, <1>2
  <2> QED
    BY <2>3, <2>4, <2>5, <2>6, <2>7, <2>8, <2>9, <2>10, <2>11, <2>12 DEF SqlNext
<1>3. ASSUME NEW h \in Handles, DeleteSource(h)
      PROVE  /\ handle'[h].origin = handle[h].origin /\ handle'[h].id = handle[h].id
             /\ handle[h].origin \notin LockedRows /\ handle[h].at = "write"
             /\ handle[h].origin \in records' /\ Rotates(h)
             /\ \A g \in Handles \ {h} : handle'[g] = handle[g]
  BY <1>0, <1>3 DEF DeleteSource, Unlocked, SourceFound, Move, HandleStates
<1>4. ASSUME NEW h \in Handles, handle'[h].at = "insert"
      PROVE  Rotates(h)' /\ handle'[h].origin \in records'
  <2>1. CASE handle'[h] = handle[h]
    <3>1. Rotates(h)
      BY <1>0, <1>4, <2>1 DEF RowsHeld
    <3> QED
      BY <1>2, <1>4, <2>1, <3>1 DEF Rotates
  <2>2. CASE DeleteSource(h)
    BY <1>3, <2>2 DEF Rotates
  <2> QED
    BY <1>0, <1>4, <2>1, <2>2, SqlHandles
<1>5. ASSUME NEW g \in Handles, NEW h \in Handles, handle'[g].at = "insert",
             handle'[h].at = "insert", handle'[g].origin = handle'[h].origin
      PROVE  g = h
  <2>1. /\ handle'[g] = handle[g] \/ DeleteSource(g)
        /\ handle'[h] = handle[h] \/ DeleteSource(h)
    BY <1>0, <1>5, SqlHandles
  <2>2. CASE handle'[g] = handle[g] /\ handle'[h] = handle[h]
    BY <1>0, <1>5, <2>2 DEF RowsHeld
  <2>3. ASSUME NEW a \in Handles, NEW b \in Handles, DeleteSource(a), a # b,
               handle'[a].origin = handle'[b].origin, handle'[b].at = "insert"
        PROVE  FALSE
    <3>1. handle'[b] = handle[b] /\ handle[b].origin \notin LockedRows
      BY <1>3, <2>3
    <3> QED
      BY <1>1, <2>3, <3>1
  <2> QED
    BY <1>5, <2>1, <2>2, <2>3
<1>6. \A h \in Handles : handle'[h].at = "insert" => Rotates(h)' /\ handle'[h].origin \in records'
  BY <1>4
<1>7. \A g, h \in Handles :
        handle'[g].at = "insert" /\ handle'[h].at = "insert" /\ handle'[g].origin = handle'[h].origin
        => g = h
  BY <1>5
<1> QED
  BY <1>6, <1>7 DEF RowsHeld

\* A transaction is one step of the contract: it stores at its COMMIT what
\* its save would have stored then.
LEMMA SqlStep ==
  ASSUME SqlInv, SqlNext
  PROVE  [SqlContract!Next]_(SqlContract!vars)
<1> DEFINE ch == ContractHandle
<1>0. /\ handle \in [Handles -> HandleStates] /\ RowsHeld
      /\ SqlContract!FullInv /\ SqlContract!IInv /\ SqlContract!TypeOK
  BY DEF SqlInv, SqlContract!FullInv, SqlContract!IInv
<1>1. handle' = handle => ch' = ch
  BY SqlSame
<1> HIDE DEF ch
<1>2. ASSUME NEW h \in Handles, NEW f \in Families, NEW i \in Ids, Load(h, f, i)
      PROVE  SqlContract!Load(h, f, i)
  BY <1>0, <1>2, SqlLoad
<1>3. ASSUME NEW h \in Handles, DeleteSource(h) PROVE UNCHANGED SqlContract!vars
  <2>1. handle[h].at = "write" /\ handle' = [handle EXCEPT ![h].at = "insert"]
    BY <1>3 DEF DeleteSource, Move
  <2>2. \A g \in Handles : ContractHandle'[g] = ContractHandle[g]
    BY <1>0, <2>1 DEF ContractHandle, HandleStates
  <2>3. ch' = ch
    BY <2>2 DEF ContractHandle, ch
  <2> QED
    BY <1>3, <2>3 DEF DeleteSource, history, SqlContract!vars, SqlContract!history, ch
<1>4. ASSUME NEW h \in Handles, Commit(h) PROVE SqlContract!Put(h)
  <2>1. /\ handle[h].at = "insert" /\ handle' = [handle EXCEPT ![h].at = "wrote"]
        /\ ch[h].at = "write" /\ ch[h].origin = handle[h].origin /\ ch[h].id = handle[h].id
    BY <1>4, SqlFields DEF Commit, Move, ch
  <2>2. \A g \in Handles : ContractHandle'[g] = [ContractHandle EXCEPT ![h].at = "wrote"][g]
    BY <1>0, <2>1 DEF ContractHandle, HandleStates
  <2>3. ch' = [ch EXCEPT ![h].at = "wrote"]
    BY <2>2 DEF ContractHandle, ch
  <2>4. handle[h].origin \in records /\ handle[h].origin \notin {NoId, handle[h].id}
    BY <1>0, <2>1 DEF RowsHeld, Rotates
  <2>5. handle[h].id \notin records
    <3>1. ch[h].origin = ch[h].rotation_from /\ ch[h].rotation_from # NoId
      BY <1>0, <2>1, <2>4 DEF SqlContract!IInv, SqlContract!OriginsAreOwn, ch
    <3>2. handle[h].id \in records => handle[h].origin \in gone
      BY <1>0, <2>1, <3>1 DEF SqlContract!IInv, SqlContract!RotationsAreSound,
         SqlContract!RotationOf, SqlContract!Stored, ch
    <3> QED
      BY <1>0, <2>4, <3>2 DEF SqlContract!IInv, SqlContract!NoResurrection
  <2> QED
    BY <1>4, <2>1, <2>3, <2>4, <2>5 DEF Commit, Replace, SqlContract!Put,
       SqlContract!Accepts, SqlContract!Replace, SqlContract!Move, ch
<1>5. ASSUME NEW h \in Handles, Abandon(h) PROVE SqlContract!AbandonSave(h)
  <2>1. ASSUME NEW sent, flying' = flying \cup sent,
               handle[h].at \in {"write", "insert"}, Rotates(h),
               sent \in MayFly({SaveRequest(h)}),
               ReleaseWrite(h, FALSE), Discard(h), UNCHANGED <<maker, records, history>>
        PROVE  SqlContract!AbandonSave(h)
    <3>1. /\ ch[h].at = "write" /\ ch[h].family = handle[h].family
          /\ ch[h].origin = handle[h].origin /\ ch[h].id = handle[h].id
          /\ ch[h].uncertain_on_drop = handle[h].uncertain_on_drop
      BY <2>1, SqlFields DEF ch
    <3>2. SqlContract!CanCreate(h) /\ SqlContract!SaveRequest(h) = SaveRequest(h)
      BY <2>1, <3>1 DEF Rotates, SqlContract!CanCreate, SaveRequest,
         SqlContract!SaveRequest, ch
    <3>3. SqlContract!ReleaseWrite(h, FALSE) /\ SqlContract!Discard(h)
      BY <1>0, <2>1, <3>1, SqlDiscard DEF ReleaseWrite, SqlContract!ReleaseWrite, ch
    <3> QED
      BY <2>1, <3>1, <3>2, <3>3 DEF SqlContract!AbandonSave, SqlContract!AbandonWrite,
         SqlContract!MayFly, MayFly, history, SqlContract!history, ch
  <2>2. CASE AbandonSave(h)
    BY <2>2, SqlCalls
  <2>3. CASE Rotates(h) /\ AbandonWrite(h, "write", {})
    BY <2>1, <2>3 DEF AbandonWrite, MayFly
  <2>4. CASE AbandonWrite(h, "insert", {SaveRequest(h)})
    <3>1. Rotates(h)
      BY <1>0, <2>4 DEF AbandonWrite, RowsHeld
    <3> QED
      BY <2>1, <2>4, <3>1 DEF AbandonWrite, MayFly
  <2> QED
    BY <1>5, <2>2, <2>3, <2>4 DEF Abandon
<1>6. ASSUME NEW ids, ClearStore(ids)
      PROVE  \E known \in SUBSET records : SqlContract!ClearStore(known)
  <2>1. SqlContract!ClearStore(ids \cap records)
    BY <1>1, <1>6 DEF ClearStore, SqlContract!ClearStore, EndRecords,
       SqlContract!EndRecords, ch
  <2> QED
    BY <2>1
<1>7. ASSUME NEW i \in Ids, Expire(i) PROVE SqlContract!Expire(i)
  BY <1>1, <1>7 DEF Expire, SqlContract!Expire, EndRecords, SqlContract!EndRecords, ch
<1>8. ASSUME NEW r \in flying, LandLate(r) PROVE SqlContract!LandLate(r)
  BY <1>1, <1>8 DEF LandLate, SqlContract!LandLate, EndRecords, SqlContract!EndRecords,
     Accepts, SqlContract!Accepts, Replace, SqlContract!Replace, ch
<1>9. ASSUME NEW h \in Handles,
             \/ SqlContract!ApplicationStep(h)
             \/ \E f \in Families, i \in Ids : SqlContract!Load(h, f, i)
             \/ SqlContract!Put(h) \/ SqlContract!RejectPut(h) \/ SqlContract!AbandonSave(h)
             \/ SqlContract!CompleteSave(h) \/ SqlContract!Compensate(h)
             \/ SqlContract!CompleteDelete(h) \/ SqlContract!AbandonDelete(h)
      PROVE  SqlContract!Next
  BY <1>9 DEF SqlContract!Next
<1>10. CASE \E h \in Handles :
              \/ ApplicationStep(h)
              \/ \E f \in Families, i \in Ids : Load(h, f, i)
              \/ Execute(h) \/ DeleteSource(h) \/ Commit(h) \/ Reject(h)
                 \/ Abandon(h)
              \/ CompleteSave(h)
              \/ Unlocked(handle[h].id) /\ Compensate(h)
              \/ Unlocked(handle[h].target) /\ CompleteDelete(h)
              \/ AbandonDelete(h)
  <2> SUFFICES ASSUME NEW h \in Handles,
                      \/ ApplicationStep(h)
                      \/ \E f \in Families, i \in Ids : Load(h, f, i)
                      \/ Put(h) \/ DeleteSource(h) \/ Commit(h) \/ RejectPut(h)
                      \/ Abandon(h) \/ CompleteSave(h) \/ Compensate(h)
                      \/ CompleteDelete(h) \/ AbandonDelete(h)
               PROVE  SqlContract!Next \/ UNCHANGED SqlContract!vars
    BY <1>10 DEF Execute, Reject
  <2>1. CASE ApplicationStep(h)
    BY <1>0, <1>9, <2>1, SqlApplication
  <2>2. CASE \E f \in Families, i \in Ids : Load(h, f, i)
    BY <1>2, <1>9, <2>2
  <2>3. CASE DeleteSource(h)
    BY <1>3, <2>3
  <2>4. CASE Commit(h) \/ Abandon(h)
    BY <1>4, <1>5, <1>9, <2>4
  <2>5. CASE \/ Put(h) \/ RejectPut(h) \/ CompleteSave(h) \/ Compensate(h)
             \/ CompleteDelete(h) \/ AbandonDelete(h)
    BY <1>9, <2>5, SqlCalls
  <2> QED
    BY <2>1, <2>2, <2>3, <2>4, <2>5
<1>11. CASE \/ LockedRows = {} /\ ClearStore(Ids)
            \/ \E i \in Ids : Unlocked(i) /\ Expire(i)
            \/ \E r \in flying : LandUnlocked(r)
  <2>1. \/ \E known \in SUBSET records : SqlContract!ClearStore(known)
        \/ \E i \in Ids : SqlContract!Expire(i)
        \/ \E r \in flying : SqlContract!LandLate(r)
    BY <1>6, <1>7, <1>8, <1>11 DEF LandUnlocked
  <2> QED
    BY <2>1 DEF SqlContract!Next
<1> QED
  BY <1>10, <1>11 DEF SqlNext

LEMMA SqlInvStep ==
  ASSUME SqlInv, SqlNext
  PROVE  SqlInv'
<1>0. SqlContract!FullInv /\ handle \in [Handles -> HandleStates]
  BY DEF SqlInv
<1>1. SqlContract!FullInv'
  BY <1>0, SqlStep, SqlContract!NextFull, NoneAssumption, CanOutliveAssumption
<1>2. handle' = [g \in Handles |-> handle'[g]]
  BY <1>0, SqlHandles
<1>3. ASSUME NEW g \in Handles PROVE handle'[g] \in HandleStates
  <2>1. ContractHandle'[g] \in HandleStates
    BY <1>1 DEF SqlContract!FullInv, SqlContract!IInv, SqlContract!TypeOK,
       SqlContract!HandleStates, SqlContract!Stages, HandleStates, Stages
  <2>2. CASE handle'[g].at # "insert"
    BY <2>1, <2>2 DEF ContractHandle
  <2>3. CASE handle'[g] = handle[g]
    BY <1>0, <2>3
  <2>4. CASE DeleteSource(g)
    BY <1>0, <2>4 DEF DeleteSource, Move, HandleStates, Stages
  <2> QED
    BY <1>0, <2>2, <2>3, <2>4, SqlHandles
<1>4. handle' \in [Handles -> HandleStates]
  BY <1>2, <1>3
<1> QED
  BY <1>1, <1>4, SqlRows DEF SqlInv
\* A clear_store that leaves alone the rows that transactions hold is the
\* clear_store of the contract.
LEMMA SqlClearing ==
  ASSUME SqlInv, NEW ids, ids \cap LockedRows = {}, ClearStore(ids)
  PROVE  SqlContract!Next /\ SqlInv'
<1>1. handle' = handle /\ ContractHandle' = ContractHandle
  BY SqlSame DEF ClearStore
<1>2. SqlContract!ClearStore(ids \cap records)
  BY <1>1 DEF ClearStore, SqlContract!ClearStore, EndRecords, SqlContract!EndRecords
<1>3. SqlContract!Next
  BY <1>2 DEF SqlContract!Next
<1>4. SqlContract!FullInv'
  BY <1>3, NoneAssumption, CanOutliveAssumption, SqlContract!NextFull DEF SqlInv
<1>5. RowsHeld'
  <2>1. \A h \in Handles : handle[h].at = "insert" => handle[h].origin \in LockedRows
    BY DEF LockedRows
  <2>2. records' = records \ ids
    BY DEF ClearStore, EndRecords
  <2> QED
    BY <1>1, <2>1, <2>2 DEF SqlInv, RowsHeld, Rotates
<1> QED
  BY <1>1, <1>3, <1>4, <1>5 DEF SqlInv

LEMMA SqlUnchanged ==
  ASSUME SqlInv, UNCHANGED vars
  PROVE  UNCHANGED SqlContract!vars /\ SqlInv'
<1>1. /\ UNCHANGED <<family, handle, maker, records, flying>>
      /\ UNCHANGED <<lineage, gone, ended, deleted, revoked>>
  BY DEF vars, history
<1>2. ContractHandle' = ContractHandle
  BY <1>1, SqlSame
<1>3. UNCHANGED SqlContract!vars
  BY <1>1, <1>2 DEF SqlContract!vars, SqlContract!history
<1>4. SqlContract!FullInv'
  BY <1>3, NoneAssumption, CanOutliveAssumption, SqlContract!NextFull DEF SqlInv
<1> QED
  BY <1>1, <1>3, <1>4 DEF SqlInv, RowsHeld, Rotates

\* Initially the store shows the contract its initial state.
LEMMA SqlInit ==
  ASSUME Init
  PROVE  SqlContract!Init /\ SqlInv
<1>1. /\ handle = [h \in Handles |-> NoSession] /\ family = [f \in Families |-> NewFamily]
      /\ maker = [i \in Ids |-> NoFamily] /\ records = {} /\ flying = {}
      /\ lineage = [i \in Ids |-> NoId] /\ gone = {} /\ ended = {} /\ deleted = {} /\ revoked = {}
  BY DEF Init
<1>2. NoSession.at = "absent" /\ NoSession \in HandleStates
  BY DEF NoSession, HandleStates, Stages
<1>3. \A h \in Handles : handle[h].at = "absent"
  BY <1>1, <1>2
<1>4. ContractHandle = handle
  BY <1>1, <1>3 DEF ContractHandle
<1>5. SqlContract!Init
  BY <1>1, <1>4 DEF SqlContract!Init, SqlContract!NoSession, SqlContract!NewFamily,
     NoSession, NewFamily
<1> QED
  BY <1>1, <1>2, <1>3, <1>5, NoneAssumption, CanOutliveAssumption, SqlContract!InitFull
  DEF SqlInv, RowsHeld

-----------------------------------------------------------------------------
(* The contract that SqlStore states.                                      *)

\* The contract that SqlStore states is the one that was proved.
LEMMA SqlContractSteps == SqlContract!Next <=> Contract!Next
  BY DEF SqlContract!Next, SqlContract!ApplicationStep, SqlContract!New,
      SqlContract!Clone, SqlContract!Regenerate, SqlContract!Destroy,
      SqlContract!DropHandle, SqlContract!BeginSave, SqlContract!RefuseSave,
      SqlContract!BeginBackendWrite, SqlContract!RefuseBackendWrite,
      SqlContract!BeginDelete, SqlContract!EnterDelete, SqlContract!RefuseDelete,
      SqlContract!history, SqlContract!FamilyOf, SqlContract!OriginConflict,
      SqlContract!DeleteTarget, SqlContract!CanCreate, SqlContract!Move,
      SqlContract!Discard, SqlContract!NoSession, SqlContract!ClaimsCreation,
      SqlContract!Superseded, SqlContract!AdmitsWrite, SqlContract!AdmitsDelete,
      SqlContract!Load, SqlContract!Put, SqlContract!RejectPut,
      SqlContract!AbandonSave, SqlContract!DiscardExpired,
      SqlContract!AbandonDiscard, SqlContract!CompleteSave, SqlContract!Compensate,
      SqlContract!CompleteDelete, SqlContract!AbandonDelete, SqlContract!ClearStore,
      SqlContract!Expire, SqlContract!LandLate, SqlContract!SaveRequest,
      SqlContract!Accepts, SqlContract!Replace, SqlContract!Replaced,
      SqlContract!EndRecords, SqlContract!ReleaseWrite, SqlContract!MarkPersisted,
      SqlContract!MayFly, SqlContract!AbandonWrite, SqlContract!DeleteRequest,
      SqlContract!CleansUp, SqlContract!vars, Contract!Next,
      Contract!ApplicationStep, Contract!New, Contract!Clone,
      Contract!Regenerate, Contract!Destroy, Contract!DropHandle,
      Contract!BeginSave, Contract!RefuseSave,
      Contract!BeginBackendWrite, Contract!RefuseBackendWrite,
      Contract!BeginDelete, Contract!EnterDelete, Contract!RefuseDelete,
      Contract!history, Contract!FamilyOf, Contract!OriginConflict,
      Contract!DeleteTarget, Contract!CanCreate, Contract!Move,
      Contract!Discard, Contract!NoSession, Contract!ClaimsCreation,
      Contract!Superseded, Contract!AdmitsWrite, Contract!AdmitsDelete,
      Contract!Load, Contract!Put, Contract!RejectPut,
      Contract!AbandonSave, Contract!DiscardExpired,
      Contract!AbandonDiscard, Contract!CompleteSave,
      Contract!Compensate, Contract!CompleteDelete,
      Contract!AbandonDelete, Contract!ClearStore, Contract!Expire,
      Contract!LandLate, Contract!SaveRequest, Contract!Accepts,
      Contract!Replace, Contract!Replaced, Contract!EndRecords,
      Contract!ReleaseWrite, Contract!MarkPersisted, Contract!MayFly,
      Contract!AbandonWrite, Contract!DeleteRequest, Contract!CleansUp,
      Contract!vars

LEMMA SqlContractSame ==
  /\ SqlContract!Init => Contract!Init
  /\ [SqlContract!Next]_(SqlContract!vars) => [Contract!Next]_(Contract!vars)
<1>1. UNCHANGED SqlContract!vars => UNCHANGED Contract!vars
  BY DEF SqlContract!vars, SqlContract!history, Contract!vars, Contract!history
<1>2. SqlContract!Init => Contract!Init
  BY DEF SqlContract!Init, SqlContract!NoSession, SqlContract!NewFamily, Contract!Init,
     Contract!NoSession, Contract!NewFamily
<1> QED
  BY <1>1, <1>2, SqlContractSteps

\* A SQL store implements the contract, step by step.
LEMMA SqlImplements ==
  /\ Init => SqlInv /\ Contract!Init
  /\ SqlInv /\ [SqlNext]_vars => SqlInv' /\ [Contract!Next]_(Contract!vars)
  BY SqlInit, SqlStep, SqlInvStep, SqlUnchanged, SqlContractSame

\* What the contract promises about records, families and history.
LEMMA SqlPromises ==
  ASSUME SqlInv
  PROVE  /\ NoResurrection /\ NoFork /\ EndedStaysEnded /\ RotationKeepsSession
         /\ KnownUnlessUncertain /\ RevokedFamilyHasNoRecord
<1>1. SqlContract!FullInv /\ SqlContract!KnownUnlessUncertain
  BY NoneAssumption, CanOutliveAssumption, SqlContract!FullKnown DEF SqlInv
<1> QED
  BY <1>1 DEF SqlContract!FullInv, SqlContract!IInv, SqlContract!Finality,
     SqlContract!NoResurrection, SqlContract!NoFork, SqlContract!EndedStaysEnded,
     SqlContract!RotationKeepsSession, SqlContract!KnownUnlessUncertain,
     SqlContract!RevokedFamilyHasNoRecord, NoResurrection, NoFork, EndedStaysEnded,
     RotationKeepsSession, KnownUnlessUncertain, RevokedFamilyHasNoRecord

-----------------------------------------------------------------------------
(* clear_store of PostgreSQL: a DELETE on a snapshot, row by row.           *)

\* Steps of the calls that run beside clear_store.
OtherSteps ==
    \/ \E h \in Handles : Statement(h)
    \/ \E i \in Ids : Unlocked(i) /\ Free(i) /\ Expire(i)
    \/ \E r \in flying :
         {r.id, r.source} \cap clear.locked = {} /\ LandUnlocked(r)

LEMMA OthersAreSqlSteps == OtherSteps => SqlNext
  BY DEF OtherSteps, Statement, SqlNext

\* The rows that clear_store has deleted and not committed are still stored,
\* and no transaction holds one.  What it has visited of its snapshot is
\* among them or was removed by others; what it removed stays removed.
ClearHolds ==
    /\ ~ClearRuns => clear.locked = {}
    /\ clear.locked \subseteq records
    /\ clear.locked \cap LockedRows = {}
    /\ ClearRuns =>
         /\ clear.start \subseteq records \cup gone
         /\ clear.start \ clear.rows \subseteq clear.locked \cup gone
    /\ clear.at = "done" => clear.start \subseteq gone

ClearingInv ==
    SqlInv /\ SqlContract!LocksAreInUse /\ clear \in ClearStates /\ ClearHolds

\* No other call touches a row that clear_store has deleted.
LEMMA DeletedRowsStay ==
  ASSUME SqlInv, ClearHolds, OtherSteps, NEW i \in clear.locked
  PROVE  i \in records' /\ i \notin LockedRows'
<1>0. /\ handle \in [Handles -> HandleStates] /\ RowsHeld /\ NoId \notin records
      /\ i \in records /\ i \notin LockedRows
  BY NoneAssumption DEF SqlInv, SqlContract!FullInv, SqlContract!IInv, SqlContract!TypeOK,
     ClearHolds
<1>1. ASSUME NEW ids, EndRecords(ids), i \notin ids PROVE i \in records'
  BY <1>0, <1>1 DEF EndRecords
<1>2. ASSUME NEW s, NEW j, Replace(s, j), s = j \/ s # i PROVE i \in records'
  BY <1>0, <1>2 DEF Replace
<1>3. ASSUME \A g \in Handles : handle'[g].at = "insert" => handle'[g] = handle[g]
      PROVE  i \notin LockedRows'
  BY <1>0, <1>3 DEF LockedRows
<1>4. ASSUME NEW h \in Handles, Statement(h)
      PROVE  i \in records' /\ i \notin LockedRows'
  <2>1. CASE Free(Replaced(h)) /\ DeleteSource(h)
    <3>1. /\ records' = records /\ Replaced(h) = handle[h].origin
          /\ handle' = [handle EXCEPT ![h].at = "insert"]
      BY <2>1 DEF DeleteSource, Rotates, Replaced, Move
    <3>2. handle[h].origin # i
      BY <2>1, <3>1 DEF Free
    <3>3. \A g \in Handles : handle'[g].origin = handle[g].origin
      BY <1>0, <3>1 DEF HandleStates
    <3>4. \A g \in Handles : handle'[g].at = "insert" => g = h \/ handle[g].at = "insert"
      BY <1>0, <3>1 DEF HandleStates
    <3> QED
      BY <1>0, <3>1, <3>2, <3>3, <3>4 DEF LockedRows
  <2>2. CASE Execute(h)
    <3>1. Replace(handle[h].origin, handle[h].id)
      BY <2>2 DEF Execute, Put
    <3>2. handle[h].origin = handle[h].id \/ handle[h].origin # i
      BY <1>0, <2>2 DEF Execute, Rotates
    <3> QED
      BY <1>0, <1>2, <1>3, <2>2, <3>1, <3>2, SqlQuiet
  <2>3. CASE Commit(h)
    <3>1. Replace(handle[h].origin, handle[h].id) /\ handle[h].at = "insert"
      BY <2>3 DEF Commit
    <3>2. handle[h].origin # i
      BY <1>0, <3>1 DEF LockedRows
    <3> QED
      BY <1>0, <1>2, <1>3, <2>3, <3>1, <3>2, SqlQuiet
  <2>4. CASE Free(handle[h].id) /\ Compensate(h)
    <3>1. EndRecords({handle[h].id}) \/ records' = records
      BY <2>4 DEF Compensate, CleansUp
    <3> QED
      BY <1>0, <1>1, <1>3, <2>4, <3>1, SqlQuiet DEF Free
  <2>5. CASE Free(handle[h].target) /\ CompleteDelete(h)
    <3>1. EndRecords({handle[h].target}) \/ records' = records
      BY <2>5 DEF CompleteDelete
    <3> QED
      BY <1>0, <1>1, <1>3, <2>5, <3>1, SqlQuiet DEF Free
  <2>6. CASE ApplicationStep(h)
    <3>1. records' = records
      BY <2>6 DEF ApplicationStep, New, Clone, Regenerate, Destroy,
         DropHandle, BeginSave, RefuseSave, BeginBackendWrite,
         RefuseBackendWrite, BeginDelete, EnterDelete, RefuseDelete
    <3> QED
      BY <1>0, <1>3, <2>6, <3>1, SqlQuiet
  <2>7. CASE \/ \E f \in Families, j \in Ids : Load(h, f, j)
             \/ Reject(h) \/ Abandon(h) \/ CompleteSave(h) \/ AbandonDelete(h)
    <3>1. records' = records
      BY <2>7 DEF Load, Reject, RejectPut, Abandon, AbandonSave,
         AbandonWrite, CompleteSave, AbandonDelete
    <3> QED
      BY <1>0, <1>3, <2>7, <3>1, SqlQuiet
  <2> QED
    BY <1>4, <2>1, <2>2, <2>3, <2>4, <2>5, <2>6, <2>7 DEF Statement
<1>5. ASSUME NEW j \in Ids, Free(j), Expire(j)
      PROVE  i \in records' /\ i \notin LockedRows'
  BY <1>0, <1>1, <1>3, <1>5 DEF Expire, Free
<1>6. ASSUME NEW r \in flying, {r.id, r.source} \cap clear.locked = {}, LandUnlocked(r)
      PROVE  i \in records' /\ i \notin LockedRows'
  <2>1. i # r.id /\ i # r.source
    BY <1>6
  <2>2. \/ EndRecords({r.id}) \/ Replace(r.source, r.id) \/ records' = records
    BY <1>6 DEF LandUnlocked, LandLate
  <2>3. handle' = handle
    BY <1>6 DEF LandUnlocked, LandLate
  <2> QED
    BY <1>0, <1>1, <1>2, <1>3, <2>1, <2>2, <2>3
<1> QED
  BY <1>4, <1>5, <1>6 DEF OtherSteps

\* What the contract shows of a step beside, or of, a clear_store.
LEMMA ClearingStep ==
  ASSUME ClearingInv, [ClearNext]_clearVars
  PROVE  /\ [SqlContract!Next]_(SqlContract!vars)
         /\ SqlInv' /\ SqlContract!LocksAreInUse'
<1> SUFFICES [SqlContract!Next]_(SqlContract!vars) /\ SqlInv'
  BY NoneAssumption, CanOutliveAssumption, SqlContract!InUseStep
  DEF ClearingInv, SqlInv, SqlContract!FullInv
<1>1. CASE OtherSteps
  BY <1>1, OthersAreSqlSteps, SqlStep, SqlInvStep DEF ClearingInv
<1>2. CASE EndClear \/ EndLostClear
  BY <1>2, SqlClearing DEF ClearingInv, ClearHolds, EndClear, EndLostClear
<1>3. CASE UNCHANGED vars
  BY <1>3, SqlUnchanged DEF ClearingInv
<1> QED
  BY <1>1, <1>2, <1>3 DEF ClearNext, OtherSteps, StartClear,
     DeleteRow, AbandonClear, clearVars

LEMMA ClearHoldsStep ==
  ASSUME ClearingInv, [ClearNext]_clearVars
  PROVE  clear' \in ClearStates /\ ClearHolds'
<1>0. /\ SqlInv /\ ClearHolds /\ clear \in ClearStates
      /\ SqlContract!IInv /\ records \subseteq Ids
  BY DEF ClearingInv, SqlInv, SqlContract!FullInv, SqlContract!IInv, SqlContract!TypeOK
<1>1. ASSUME OtherSteps, clear' = clear PROVE clear' \in ClearStates /\ ClearHolds'
  <2>1. clear.locked \subseteq records' /\ clear.locked \cap LockedRows' = {}
    BY <1>0, <1>1, DeletedRowsStay
  <2>2. gone \subseteq gone' /\ records \subseteq records' \cup gone'
    BY <1>0, ClearingStep, NoneAssumption, CanOutliveAssumption,
       SqlContract!RemovedIsGone
  <2> QED
    BY <1>0, <1>1, <2>1, <2>2 DEF ClearHolds, ClearRuns
<1>2. ASSUME UNCHANGED vars
      PROVE  records' = records /\ gone' = gone /\ LockedRows' = LockedRows
  BY <1>2 DEF vars, history, LockedRows
<1>3. CASE StartClear
  <2>1. clear' = [at |-> "delete", start |-> records, rows |-> records, locked |-> {}]
    BY <1>3 DEF StartClear
  <2>2. clear' \in ClearStates
    BY <1>0, <2>1 DEF ClearStates
  <2> QED
    BY <1>2, <1>3, <2>1, <2>2 DEF StartClear, ClearHolds, ClearRuns
<1>4. ASSUME NEW i \in Ids, DeleteRow(i)
      PROVE  clear' \in ClearStates /\ ClearHolds'
  <2>1. /\ ClearRuns /\ i \notin LockedRows /\ UNCHANGED vars
        /\ clear' = [clear EXCEPT !.rows = @ \ {i},
                                  !.locked = @ \cup (({i} \cap records) \ LockedRows)]
    BY <1>4 DEF DeleteRow, Visits, Unlocked
  <2>2. clear' = [clear EXCEPT !.rows = @ \ {i}, !.locked = @ \cup ({i} \cap records)]
    BY <1>0, <2>1 DEF ClearStates
  <2>3. /\ clear' \in ClearStates /\ clear'.at = clear.at
        /\ clear'.start = clear.start /\ clear'.rows = clear.rows \ {i}
        /\ clear'.locked = clear.locked \cup ({i} \cap records)
    BY <1>0, <2>1, <2>2 DEF ClearStates
  <2> QED
    BY <1>0, <1>2, <2>1, <2>3 DEF ClearHolds, ClearRuns
<1>5. CASE EndClear
  <2>1. /\ clear.at = "delete" /\ clear.rows = {}
        /\ records' = records \ clear.locked /\ gone' = gone \cup (clear.locked \cap records)
    BY <1>5 DEF EndClear, ClearStore, EndRecords
  <2>2. clear' = [at |-> "done", start |-> clear.start, rows |-> {}, locked |-> {}]
    BY <1>5 DEF EndClear, NoClear
  <2>3. clear.start \subseteq gone'
    BY <1>0, <2>1 DEF ClearHolds, ClearRuns
  <2> QED
    BY <1>0, <2>2, <2>3 DEF ClearHolds, ClearRuns, ClearStates
<1>6. ASSUME clear' = NoClear PROVE clear' \in ClearStates /\ ClearHolds'
  BY <1>6 DEF NoClear, ClearHolds, ClearRuns, ClearStates
<1>7. CASE AbandonClear /\ clear' # NoClear
  <2>1. clear' = [clear EXCEPT !.at = "lost"] /\ ClearRuns /\ UNCHANGED vars
    BY <1>7 DEF AbandonClear
  <2>2. /\ clear' \in ClearStates /\ clear'.at = "lost" /\ clear'.start = clear.start
        /\ clear'.rows = clear.rows /\ clear'.locked = clear.locked
    BY <1>0, <2>1 DEF ClearStates
  <2> QED
    BY <1>0, <1>2, <2>1, <2>2 DEF ClearHolds, ClearRuns
<1>8. CASE UNCHANGED clearVars
  BY <1>0, <1>2, <1>8 DEF clearVars, ClearHolds, ClearRuns
<1> QED
  BY <1>1, <1>3, <1>4, <1>5, <1>6, <1>7, <1>8 DEF ClearNext, OtherSteps, EndLostClear

LEMMA ClearingInit == ClearInit => ClearingInv
<1> SUFFICES ASSUME ClearInit PROVE ClearingInv
  OBVIOUS
<1>1. clear = [at |-> "idle", start |-> {}, rows |-> {}, locked |-> {}]
  BY DEF ClearInit, NoClear
<1>2. SqlContract!Init /\ SqlInv
  BY SqlInit DEF ClearInit
<1>3. SqlContract!LocksAreInUse
  BY <1>2 DEF SqlContract!Init, SqlContract!NewFamily, SqlContract!LocksAreInUse
<1> QED
  BY <1>1, <1>2, <1>3 DEF ClearingInv, ClearHolds, ClearRuns, ClearStates

LEMMA ClearingInvariant == ClearSpec => []ClearingInv
<1>1. ClearingInv /\ [ClearNext]_clearVars => ClearingInv'
  BY ClearingStep, ClearHoldsStep DEF ClearingInv
<1> QED
  BY <1>1, ClearingInit, PTL DEF ClearSpec

-----------------------------------------------------------------------------
(* Who waits for whom.                                                     *)

\* Calls that were made and have not returned.
Running(h) == handle[h].at \notin {"absent", "live"}

\* A call waits for the lifecycle lock of its family, or with a statement for
\* a row that a rotation or clear_store holds; nothing else stops it.
CanGoOn(h) ==
    \/ handle[h].at \in {"lock", "dlock"} /\ FamilyOf(h).holder = NoHandle
    \/ handle[h].at = "write" /\ Unlocked(Replaced(h)) /\ Free(Replaced(h))
    \/ handle[h].at = "insert"
    \/ handle[h].at = "wrote" /\ ~FamilyOf(h).destroy
    \/ handle[h].at = "wrote" /\ Unlocked(handle[h].id) /\ Free(handle[h].id)
    \/ handle[h].at = "delete" /\ Unlocked(handle[h].target) /\ Free(handle[h].target)

\* clear_store waits while rotations hold all rows that it has yet to visit.
ClearCanGoOn ==
    ClearRuns /\ (clear.rows = {} \/ \E i \in clear.rows : Visits(i))

\* Not everyone waits for another.
NoStandstill ==
    (\E h \in Handles : Running(h)) \/ ClearRuns
        => (\E h \in Handles : CanGoOn(h)) \/ ClearCanGoOn

\* A lock that is taken is held by a call that talks to the backend.
LEMMA HolderIsBusy ==
  ASSUME SqlInv, SqlContract!LocksAreInUse, NEW h \in Handles,
         handle[h].at \in {"lock", "dlock"}, FamilyOf(h).holder # NoHandle
  PROVE  \E g \in Handles : handle[g].at \in {"write", "insert", "wrote", "delete"}
<1> DEFINE f == handle[h].family
           g == family[f].holder
<1>1. SqlContract!HandlesAreSessions /\ ContractHandle[h] = handle[h]
  BY SqlFields DEF SqlInv, SqlContract!FullInv, SqlContract!IInv
<1>2. f \in Families /\ g # NoHandle
  BY <1>1 DEF SqlContract!HandlesAreSessions, SqlContract!Present, FamilyOf
<1>3. g \in Handles /\ ContractHandle[g].at \in {"write", "wrote", "delete"}
  BY <1>2 DEF SqlContract!LocksAreInUse, SqlContract!Writing
<1>4. handle[g].at \in {"write", "insert", "wrote", "delete"}
  BY <1>3, SqlFields
<1> QED
  BY <1>3, <1>4

\* A rotation between its statements waits for nobody.  Without one no row
\* holds up clear_store, and without that none holds up a call that has its
\* lock; a lock that is taken is held by such a call.
LEMMA SomeoneGoesOn == ClearingInv => NoStandstill
<1> SUFFICES ASSUME ClearingInv, (\E h \in Handles : Running(h)) \/ ClearRuns
             PROVE  (\E h \in Handles : CanGoOn(h)) \/ ClearCanGoOn
  BY DEF NoStandstill
<1>0. handle \in [Handles -> HandleStates] /\ ClearHolds
  BY DEF ClearingInv, SqlInv
<1>1. CASE \E h \in Handles : handle[h].at = "insert"
  BY <1>1 DEF CanGoOn
<1>2. CASE LockedRows = {} /\ ClearRuns
  BY <1>2 DEF ClearCanGoOn, Visits, Unlocked
<1>3. CASE LockedRows = {} /\ ~ClearRuns
  <2>1. \A i : Unlocked(i) /\ Free(i)
    BY <1>0, <1>3 DEF ClearHolds, Unlocked, Free
  <2>2. ASSUME NEW h \in Handles, handle[h].at \in {"write", "insert", "wrote", "delete"}
        PROVE  CanGoOn(h)
    BY <2>1, <2>2 DEF CanGoOn
  <2>3. PICK h \in Handles : Running(h)
    BY <1>3
  <2>4. CASE handle[h].at \in {"lock", "dlock"} /\ FamilyOf(h).holder # NoHandle
    BY <2>2, <2>4, HolderIsBusy DEF ClearingInv
  <2>5. handle[h].at \in Stages
    BY <1>0 DEF HandleStates
  <2> QED
    BY <2>2, <2>3, <2>4, <2>5 DEF Running, Stages, CanGoOn
<1> QED
  BY <1>1, <1>2, <1>3 DEF LockedRows

-----------------------------------------------------------------------------
(* The connection pool: a third kind of thing that calls wait for.         *)

CONSTANTS PoolSize, Record, Owner, Home  \* as in SqlPool
VARIABLE connections                     \* as in SqlPool

Pool == INSTANCE SqlPool

\* What SqlPool takes from SqlStore.
LEMMA PoolSteps ==
  /\ \A h : /\ Pool!FamilyOf(h) = FamilyOf(h) /\ Pool!Replaced(h) = Replaced(h)
            /\ \A i : Pool!Regenerate(h, i) <=> Regenerate(h, i)
            /\ Pool!Destroy(h) <=> Destroy(h)
            /\ Pool!DropHandle(h) <=> DropHandle(h)
            /\ Pool!BeginSave(h) <=> BeginSave(h)
            /\ Pool!RefuseSave(h) <=> RefuseSave(h)
            /\ Pool!BeginBackendWrite(h) <=> BeginBackendWrite(h)
            /\ Pool!RefuseBackendWrite(h) <=> RefuseBackendWrite(h)
            /\ Pool!BeginDelete(h) <=> BeginDelete(h)
            /\ Pool!EnterDelete(h) <=> EnterDelete(h)
            /\ Pool!RefuseDelete(h) <=> RefuseDelete(h)
            /\ Pool!Execute(h) <=> Execute(h)
            /\ Pool!DeleteSource(h) <=> DeleteSource(h)
            /\ Pool!Commit(h) <=> Commit(h)
            /\ Pool!Reject(h) <=> Reject(h)
            /\ Pool!Abandon(h) <=> Abandon(h)
            /\ Pool!CompleteSave(h) <=> CompleteSave(h)
            /\ Pool!Compensate(h) <=> Compensate(h)
            /\ Pool!CompleteDelete(h) <=> CompleteDelete(h)
            /\ Pool!AbandonDelete(h) <=> AbandonDelete(h)
  /\ \A i : (Pool!Unlocked(i) <=> Unlocked(i)) /\ (Pool!Expire(i) <=> Expire(i))
  /\ \A r : Pool!LandUnlocked(r) <=> LandUnlocked(r)
  /\ \A ids : Pool!ClearStore(ids) <=> ClearStore(ids)
  /\ Pool!LockedRows = LockedRows /\ Pool!vars = vars /\ Pool!vars' = vars'
  BY DEF Pool!Regenerate, Pool!Destroy, Pool!DropHandle, Pool!BeginSave, Pool!RefuseSave,
     Pool!BeginBackendWrite, Pool!RefuseBackendWrite, Pool!BeginDelete, Pool!EnterDelete,
     Pool!RefuseDelete, Pool!history, Pool!vars, Pool!FamilyOf, Pool!OriginConflict,
     Pool!DeleteTarget, Pool!CanCreate, Pool!Move, Pool!Discard, Pool!NoSession,
     Pool!ClaimsCreation, Pool!Superseded, Pool!AdmitsWrite, Pool!AdmitsDelete, Pool!Put,
     Pool!RejectPut, Pool!AbandonSave, Pool!CompleteSave, Pool!Compensate, Pool!CompleteDelete,
     Pool!AbandonDelete, Pool!ClearStore, Pool!Expire, Pool!LandLate, Pool!SaveRequest,
     Pool!Accepts, Pool!Replace, Pool!Replaced, Pool!EndRecords, Pool!ReleaseWrite,
     Pool!MarkPersisted, Pool!MayFly, Pool!AbandonWrite, Pool!DeleteRequest, Pool!CleansUp,
     Pool!LandUnlocked, Pool!LockedRows, Pool!Unlocked, Pool!Rotates, Pool!Execute,
     Pool!DeleteSource, Pool!SourceFound, Pool!Commit, Pool!Reject, Pool!Abandon, Regenerate,
     Destroy, DropHandle, BeginSave, RefuseSave, BeginBackendWrite, RefuseBackendWrite,
     BeginDelete, EnterDelete, RefuseDelete, history, vars, FamilyOf, OriginConflict,
     DeleteTarget, CanCreate, Move, Discard, NoSession, ClaimsCreation, Superseded, AdmitsWrite,
     AdmitsDelete, Put, RejectPut, AbandonSave, CompleteSave, Compensate, CompleteDelete,
     AbandonDelete, ClearStore, Expire, LandLate, SaveRequest, Accepts, Replace, Replaced,
     EndRecords, ReleaseWrite, MarkPersisted, MayFly, AbandonWrite, DeleteRequest, CleansUp,
     LandUnlocked, LockedRows, Unlocked, Rotates, Execute, DeleteSource, SourceFound, Commit,
     Reject, Abandon

\* Calls that execute a statement, or are about to when they are connected.
InStatement(h) == handle[h].at \in {"write", "insert", "delete"} \/ Pool!Overtaken(h)

\* A connection in use is used by one statement of a running call, for which
\* it waits for no second one; a rotation keeps the one it has begun on.
ConnectionsAreInUse ==
    /\ \A c \in connections : \E h \in Handles : c = <<h, Pool!Use(h)>> /\ InStatement(h)
    /\ \A h \in Handles : handle[h].at = "insert" => Pool!Connected(h)

PoolInv == SqlInv /\ SqlContract!LocksAreInUse /\ ConnectionsAreInUse

\* What a call does to its own connections.
LEMMA PoolFrame ==
  ASSUME ConnectionsAreInUse, NEW h \in Handles,
         \A g \in Handles \ {h} : handle'[g] = handle[g],
         \A g \in Handles : Pool!Overtaken(g) /\ handle'[g] = handle[g] => Pool!Overtaken(g)',
         \A g \in Handles \ {h} : \A u : <<g, u>> \in connections' <=> <<g, u>> \in connections,
         \A c \in connections' : c \in connections \/ c = <<h, Pool!Use(h)>>',
         \A u : <<h, u>> \in connections' => u = Pool!Use(h)' /\ InStatement(h)',
         handle'[h].at = "insert" => Pool!Connected(h)'
  PROVE  ConnectionsAreInUse'
<1>1. ASSUME NEW g \in Handles, g # h, InStatement(g)
      PROVE  InStatement(g)' /\ Pool!Use(g)' = Pool!Use(g)
  BY <1>1 DEF InStatement, Pool!Use, Pool!Overtaken
<1>2. ASSUME NEW c \in connections'
      PROVE  \E g \in Handles : c = <<g, Pool!Use(g)>>' /\ InStatement(g)'
  <2>1. CASE c \in connections
    <3>1. PICK g \in Handles : c = <<g, Pool!Use(g)>> /\ InStatement(g)
      BY <2>1 DEF ConnectionsAreInUse
    <3> QED
      BY <1>1, <1>2, <3>1
  <2>2. CASE c = <<h, Pool!Use(h)>>'
    BY <1>2, <2>2
  <2> QED
    BY <1>2, <2>1, <2>2
<1>3. ASSUME NEW g \in Handles, handle'[g].at = "insert" PROVE Pool!Connected(g)'
  <2>1. CASE g # h
    <3>1. Pool!Connected(g) /\ InStatement(g)
      BY <1>3, <2>1 DEF ConnectionsAreInUse, InStatement
    <3> QED
      BY <1>1, <2>1, <3>1 DEF Pool!Connected
  <2> QED
    BY <1>3, <2>1
<1> QED
  BY <1>2, <1>3 DEF ConnectionsAreInUse

\* The pool allows what the store allows.
LEMMA PoolRefines ==
  ASSUME [Pool!PoolNext]_(Pool!poolVars)
  PROVE  [SqlNext]_vars
<1>1. ASSUME NEW h \in Handles, Pool!RequestStep(h) PROVE ApplicationStep(h)
  BY <1>1, PoolSteps DEF Pool!RequestStep, ApplicationStep
<1>2. ASSUME NEW h \in Handles,
             Pool!Statement(h) \/ Pool!CompleteSave(h) \/ Pool!Abandon(h) \/ Pool!AbandonDelete(h)
      PROVE  SqlNext
  <2>1. \/ Execute(h) \/ DeleteSource(h) \/ Commit(h) \/ Reject(h) \/ Abandon(h)
        \/ CompleteSave(h)
        \/ Unlocked(handle[h].id) /\ Compensate(h)
        \/ Unlocked(handle[h].target) /\ CompleteDelete(h)
        \/ AbandonDelete(h)
    BY <1>2, PoolSteps DEF Pool!Statement
  <2> QED
    BY <2>1 DEF SqlNext
<1>3. ASSUME \/ LockedRows = {} /\ ClearStore(Ids)
             \/ \E i \in Ids : Unlocked(i) /\ Expire(i)
             \/ \E r \in flying : LandUnlocked(r)
      PROVE  SqlNext
  BY <1>3 DEF SqlNext
<1>4. (\E h \in Handles : ApplicationStep(h)) => SqlNext
  BY DEF SqlNext
<1>5. CASE UNCHANGED Pool!poolVars
  BY <1>5, PoolSteps DEF Pool!poolVars
<1>6. CASE \E h \in Handles : Pool!Connect(h)
  BY <1>6, PoolSteps DEF Pool!Connect
<1>7. CASE \E h \in Handles :
             \/ Pool!RequestStep(h) \/ Pool!Statement(h) \/ Pool!CompleteSave(h)
             \/ Pool!Abandon(h) \/ Pool!AbandonDelete(h)
  BY <1>1, <1>2, <1>4, <1>7
<1> QED
  BY <1>3, <1>5, <1>6, <1>7, PoolSteps DEF Pool!PoolNext

\* Connections stay with the statements that use them.
LEMMA PoolStep ==
  ASSUME PoolInv, [Pool!PoolNext]_(Pool!poolVars)
  PROVE  PoolInv'
<1>0. /\ SqlInv /\ SqlContract!LocksAreInUse /\ ConnectionsAreInUse
      /\ handle \in [Handles -> HandleStates]
      /\ SqlContract!IInv /\ SqlContract!HandlesAreSessions /\ SqlContract!Locking
  BY DEF PoolInv, SqlInv, SqlContract!FullInv, SqlContract!IInv
<1>1. [SqlContract!Next]_(SqlContract!vars) /\ SqlInv'
  BY <1>0, PoolRefines, SqlStep, SqlInvStep, SqlUnchanged
<1>2. SqlContract!LocksAreInUse'
  BY <1>0, <1>1, NoneAssumption, CanOutliveAssumption, SqlContract!InUseStep
<1>3. \A f \in Families : family[f].destroy => family'[f].destroy
  BY <1>0, <1>1, NoneAssumption, CanOutliveAssumption, SqlContract!FlagsStay
<1>4. ASSUME NEW g \in Handles, Pool!Overtaken(g), handle'[g] = handle[g]
      PROVE  Pool!Overtaken(g)'
  <2>1. ContractHandle[g] = handle[g] /\ handle[g].at = "wrote"
    BY <1>4, SqlFields DEF Pool!Overtaken
  <2>2. handle[g].family \in Families
    BY <1>0, <2>1 DEF SqlContract!HandlesAreSessions, SqlContract!Present
  <2> QED
    BY <1>3, <1>4, <2>2 DEF Pool!Overtaken, Pool!FamilyOf
<1>5. ASSUME NEW h \in Handles, NEW u, <<h, u>> \in connections
      PROVE  u = Pool!Use(h) /\ InStatement(h)
  BY <1>0, <1>5 DEF ConnectionsAreInUse
<1>6. ASSUME NEW h \in Handles, \A g \in Handles \ {h} : handle'[g] = handle[g],
             Pool!Disconnect(h), handle'[h].at # "insert"
      PROVE  ConnectionsAreInUse'
  <2>1. \A u : <<h, u>> \in connections => u \in Pool!Uses
    BY <1>5 DEF Pool!Use, Pool!Uses
  <2>2. /\ connections' \subseteq connections
        /\ \A u : <<h, u>> \notin connections'
        /\ \A g \in Handles \ {h} : \A u : <<g, u>> \in connections' <=> <<g, u>> \in connections
    BY <1>6, <2>1 DEF Pool!Disconnect
  <2> QED
    BY <1>0, <1>4, <1>6, <2>2, PoolFrame
<1>7. ASSUME NEW h \in Handles, Pool!RequestStep(h), connections' = connections
      PROVE  ConnectionsAreInUse'
  <2>1. ApplicationStep(h) /\ handle[h].at \in {"live", "lock", "dlock"}
    BY <1>7, PoolSteps DEF Pool!RequestStep, ApplicationStep, Regenerate, Destroy, DropHandle,
       BeginSave, RefuseSave, BeginBackendWrite, RefuseBackendWrite, BeginDelete, EnterDelete,
       RefuseDelete
  <2>2. \A u : <<h, u>> \notin connections
    BY <1>5, <2>1 DEF InStatement, Pool!Overtaken
  <2>3. \A g \in Handles \ {h} : handle'[g] = handle[g]
    <3>1. CASE (\E i \in Ids : Regenerate(h, i)) \/ BeginSave(h) \/ BeginBackendWrite(h)
               \/ EnterDelete(h)
      BY <1>0, <3>1 DEF Regenerate, BeginSave, BeginBackendWrite, EnterDelete
    <3>2. CASE Destroy(h) \/ BeginDelete(h)
      BY <1>0, <3>2 DEF Destroy, BeginDelete, Move
    <3>3. CASE DropHandle(h) \/ RefuseSave(h) \/ RefuseBackendWrite(h) \/ RefuseDelete(h)
      BY <1>0, <3>3 DEF DropHandle, RefuseSave, RefuseBackendWrite, RefuseDelete, Discard
    <3> QED
      BY <1>7, <3>1, <3>2, <3>3, PoolSteps DEF Pool!RequestStep
  <2>4. handle'[h].at # "insert"
    BY <1>0, <2>1, SqlQuiet
  <2> QED
    BY <1>0, <1>4, <1>7, <2>2, <2>3, <2>4, PoolFrame
<1>8. ASSUME NEW h \in Handles, Pool!Connect(h)
      PROVE  ConnectionsAreInUse'
  <2>1. /\ UNCHANGED <<family, handle>> /\ InStatement(h)
        /\ connections' = connections \cup {<<h, Pool!Use(h)>>}
    BY <1>8, PoolSteps DEF Pool!Connect, vars, InStatement
  <2>2. Pool!Use(h)' = Pool!Use(h) /\ InStatement(h)'
    BY <2>1 DEF Pool!Use, Pool!Overtaken, Pool!FamilyOf, InStatement
  <2>3. Pool!Connected(h)' /\ \A g \in Handles : handle'[g] = handle[g]
    BY <2>1, <2>2 DEF Pool!Connected
  <2>4. /\ \A g \in Handles \ {h} : \A u : <<g, u>> \in connections' <=> <<g, u>> \in connections
        /\ \A c \in connections' : c \in connections \/ c = <<h, Pool!Use(h)>>'
        /\ \A u : <<h, u>> \in connections' => u = Pool!Use(h)' /\ InStatement(h)'
    BY <1>5, <2>1, <2>2
  <2> QED
    BY <1>0, <1>4, <2>3, <2>4, PoolFrame
<1>9. ASSUME NEW h \in Handles, Pool!Statement(h)
      PROVE  ConnectionsAreInUse'
  <2>1. CASE DeleteSource(h) /\ connections' = connections
    <3>1. /\ handle[h].at = "write" /\ handle'[h].at = "insert"
          /\ \A g \in Handles \ {h} : handle'[g] = handle[g]
      BY <1>0, <2>1 DEF DeleteSource, Move, HandleStates
    <3>2. Pool!Use(h) = "statement" /\ Pool!Use(h)' = "statement" /\ InStatement(h)'
      BY <3>1 DEF Pool!Use, Pool!Overtaken, InStatement
    <3>3. Pool!Connected(h)'
      BY <1>9, <2>1, <3>2 DEF Pool!Statement, Pool!Connected
    <3> QED
      BY <1>0, <1>4, <1>5, <2>1, <3>1, <3>2, <3>3, PoolFrame
  <2>2. CASE (Execute(h) \/ Commit(h)) /\ connections' = Pool!AfterStatement(h)
    <3>1. /\ handle[h].at \in {"write", "insert"} /\ handle'[h].at = "wrote"
          /\ \A g \in Handles \ {h} : handle'[g] = handle[g]
      BY <1>0, <2>2 DEF Execute, Put, Commit, Move, HandleStates
    <3>2. Pool!Use(h) = "statement"
      BY <3>1 DEF Pool!Use, Pool!Overtaken
    <3>3. /\ connections' \subseteq connections
          /\ \A u : <<h, u>> \notin connections'
          /\ \A g \in Handles \ {h} : \A u : <<g, u>> \in connections' <=> <<g, u>> \in connections
      BY <1>5, <2>2, <3>2 DEF Pool!AfterStatement
    <3> QED
      BY <1>0, <1>4, <3>1, <3>3, PoolFrame
  <2>3. CASE (Reject(h) \/ Compensate(h) \/ CompleteDelete(h)) /\ Pool!Disconnect(h)
    <3>1. Discard(h) /\ NoSession.at # "insert"
      BY <2>3 DEF Reject, RejectPut, Compensate, CompleteDelete, NoSession
    <3>2. /\ \A g \in Handles \ {h} : handle'[g] = handle[g]
          /\ handle'[h].at # "insert"
      BY <1>0, <3>1 DEF Discard
    <3> QED
      BY <1>6, <2>3, <3>2
  <2> QED
    BY <1>9, <2>1, <2>2, <2>3, PoolSteps DEF Pool!Statement
<1>10. ASSUME NEW h \in Handles, Pool!Disconnect(h),
              Pool!CompleteSave(h) \/ Pool!Abandon(h) \/ Pool!AbandonDelete(h)
       PROVE  ConnectionsAreInUse'
  <2>1. Discard(h) /\ NoSession.at # "insert"
    BY <1>10, PoolSteps DEF CompleteSave, Abandon, AbandonSave, AbandonWrite, AbandonDelete, NoSession
  <2>2. /\ \A g \in Handles \ {h} : handle'[g] = handle[g]
        /\ handle'[h].at # "insert"
    BY <1>0, <2>1 DEF Discard
  <2> QED
    BY <1>6, <1>10, <2>2
<1>11. ASSUME UNCHANGED <<family, handle, connections>> PROVE ConnectionsAreInUse'
  BY <1>0, <1>11 DEF ConnectionsAreInUse, InStatement, Pool!Connected, Pool!Use,
     Pool!Overtaken, Pool!FamilyOf
<1>12. ASSUME connections' = connections,
              \/ ClearStore(Ids) \/ \E i \in Ids : Expire(i)
              \/ \E r \in flying : LandUnlocked(r)
       PROVE  ConnectionsAreInUse'
  BY <1>11, <1>12 DEF ClearStore, Expire, LandUnlocked, LandLate
<1>13. ASSUME UNCHANGED Pool!poolVars PROVE ConnectionsAreInUse'
  <2>1. UNCHANGED vars /\ connections' = connections
    BY <1>13, PoolSteps DEF Pool!poolVars
  <2> QED
    BY <1>11, <2>1 DEF vars, history
<1>14. ConnectionsAreInUse'
  <2>1. CASE \E h \in Handles :
               \/ Pool!RequestStep(h) /\ UNCHANGED connections
               \/ Pool!Connect(h) \/ Pool!Statement(h)
               \/ /\ Pool!CompleteSave(h) \/ Pool!Abandon(h) \/ Pool!AbandonDelete(h)
                  /\ Pool!Disconnect(h)
    BY <1>7, <1>8, <1>9, <1>10, <2>1
  <2>2. CASE /\ UNCHANGED connections
             /\ \/ Pool!ClearStore(Ids) \/ \E i \in Ids : Pool!Expire(i)
                \/ \E r \in flying : Pool!LandUnlocked(r)
    BY <1>12, <2>2, PoolSteps
  <2>3. CASE Pool!PoolNext
    BY <2>1, <2>2, <2>3 DEF Pool!PoolNext
  <2> QED
    BY <1>13, <2>3
<1> QED
  BY <1>1, <1>2, <1>14 DEF PoolInv

\* Initially there is one session, whose families are idle and know it.
LEMMA PoolInitially ==
  ASSUME Record \in Ids, Owner \in Handles, Home \in [Handles -> Families], Pool!PoolInit
  PROVE  PoolInv
<1>0. Home[Owner] \in Families /\ NoId # Record /\ NoFamily \notin Families
  BY NoneAssumption
<1>1. \A f \in Families :
        /\ family[f].used /\ family[f].persisted_id = Record
        /\ family[f].fresh <=> f = Home[Owner]
        /\ family[f].creation_claimed <=> f = Home[Owner]
        /\ ~family[f].destroy /\ ~family[f].uncertain /\ family[f].holder = NoHandle
        /\ family[f] \in FamilyStates
  BY DEF Pool!PoolInit, Pool!NewFamily, FamilyStates
<1>2. \A h \in Handles :
        /\ handle[h].at = "live" /\ handle[h].family = Home[h] /\ handle[h].id = Record
        /\ handle[h].rotation_from = NoId
        /\ handle[h] \in HandleStates
  BY DEF Pool!PoolInit, Pool!NoSession, HandleStates, Stages
<1>3. /\ \A i \in Ids : maker[i] = IF i = Record THEN Home[Owner] ELSE NoFamily
      /\ \A i \in Ids : lineage[i] = IF i = Record THEN Record ELSE NoId
      /\ maker \in [Ids -> Families \cup {NoFamily}] /\ lineage \in [Ids -> Ids \cup {NoId}]
      /\ records = {Record} /\ flying = {} /\ gone = {} /\ ended = {}
      /\ deleted = {} /\ revoked = {} /\ connections = {}
  BY <1>0 DEF Pool!PoolInit
<1>4. /\ family \in [Families -> FamilyStates] /\ handle \in [Handles -> HandleStates]
      /\ ContractHandle = handle
  <2>1. /\ family = [f \in Families |-> family[f]]
        /\ handle = [h \in Handles |-> handle[h]]
    BY DEF Pool!PoolInit
  <2>2. family \in [Families -> FamilyStates] /\ handle \in [Handles -> HandleStates]
    BY <1>1, <1>2, <2>1
  <2>3. ContractHandle = [h \in Handles |-> handle[h]]
    BY <1>2 DEF ContractHandle
  <2> QED
    BY <2>1, <2>2, <2>3
<1>5. SqlContract!Stored = {Record}
  BY <1>3 DEF SqlContract!Stored
<1>6. SqlContract!TypeOK
  BY <1>3, <1>4 DEF SqlContract!TypeOK, SqlContract!FamilyStates, SqlContract!HandleStates,
     SqlContract!Stages, SqlContract!Requests, FamilyStates, HandleStates, Stages
<1>7. SqlContract!HandlesAreSessions /\ SqlContract!DrawnIds /\ SqlContract!FreshIsUsed
  BY <1>0, <1>1, <1>2, <1>3, <1>4, <1>5 DEF SqlContract!HandlesAreSessions, SqlContract!Present,
     SqlContract!DrawnIds, SqlContract!FreshIsUsed
<1>8. SqlContract!PersistedIsStored /\ SqlContract!RotationsAreSound /\ SqlContract!OneSource
  BY <1>1, <1>2, <1>3, <1>4, <1>5 DEF SqlContract!PersistedIsStored,
     SqlContract!RotationsAreSound, SqlContract!OneSource
<1>9. SqlContract!OriginsAreOwn /\ SqlContract!TicketsAreUnique
  BY <1>2, <1>3, <1>4 DEF SqlContract!OriginsAreOwn, SqlContract!TicketsAreUnique,
     SqlContract!HasTicket
<1>10. SqlContract!FreshLineage /\ SqlContract!ClaimedOnceStored
  BY <1>0, <1>1, <1>2, <1>3, <1>4 DEF SqlContract!FreshLineage, SqlContract!ClaimedOnceStored,
     SqlContract!Fresh, SqlContract!Present, SqlContract!FamilyOf
<1>11. /\ SqlContract!EndedWasStored /\ SqlContract!NoResurrection /\ SqlContract!NoFork
       /\ SqlContract!EndedStaysEnded /\ SqlContract!RotationKeepsSession
  BY <1>3 DEF SqlContract!EndedWasStored, SqlContract!NoResurrection, SqlContract!NoFork,
     SqlContract!EndedStaysEnded, SqlContract!RotationKeepsSession
<1>12. SqlContract!Locking
  BY <1>0, <1>1, <1>2, <1>3, <1>4 DEF SqlContract!Locking, SqlContract!Locks, SqlContract!OwnsId,
     SqlContract!HoldsLock, SqlContract!WritesCurrent, SqlContract!MarksDeletion,
     SqlContract!Writing, SqlContract!HasTicket, SqlContract!Present, SqlContract!FamilyOf
<1>13. SqlContract!Fence
  BY <1>0, <1>1, <1>3 DEF SqlContract!Fence, SqlContract!MakersAreUsed,
     SqlContract!LateWritesAreFenced, SqlContract!NoStrayRecord, SqlContract!Known
<1>14. SqlContract!Finality
  BY <1>3 DEF SqlContract!Finality, SqlContract!DeletedIsFenced,
     SqlContract!RevokedFamilyHasNoRecord
<1>15. SqlContract!FullInv
  BY <1>6, <1>7, <1>8, <1>9, <1>10, <1>11, <1>12, <1>13, <1>14
  DEF SqlContract!FullInv, SqlContract!IInv
<1>16. SqlInv /\ SqlContract!LocksAreInUse
  BY <1>1, <1>2, <1>4, <1>15 DEF SqlInv, RowsHeld, SqlContract!LocksAreInUse
<1>17. ConnectionsAreInUse
  BY <1>2, <1>3 DEF ConnectionsAreInUse
<1> QED
  BY <1>16, <1>17 DEF PoolInv

\* What a running call needs to go on: the lifecycle lock of its family, a
\* connection that is free, or, with a connection, the row of its statement.
PoolCanGoOn(h) ==
    \/ handle[h].at \in {"lock", "dlock"} /\ FamilyOf(h).holder = NoHandle
    \/ handle[h].at = "wrote" /\ ~FamilyOf(h).destroy
    \/ InStatement(h) /\ ~Pool!Connected(h) /\ Cardinality(connections) < PoolSize
    \/ /\ Pool!Connected(h)
       /\ \/ handle[h].at = "write" /\ Unlocked(Replaced(h))
          \/ handle[h].at = "insert"
          \/ Pool!Overtaken(h) /\ Unlocked(handle[h].id)
          \/ handle[h].at = "delete" /\ Unlocked(handle[h].target)

NoExhaustion == (\E h \in Handles : Running(h)) => \E h \in Handles : PoolCanGoOn(h)

\* A rotation between its statements has its connection.  Without one, no row
\* is locked and whoever has a connection can use it; and without anyone who
\* has, there is one for each that needs it.
LEMMA SomeoneConnects == PoolInv /\ PoolSize \in Nat \ {0} => NoExhaustion
<1> SUFFICES ASSUME PoolInv, PoolSize \in Nat \ {0}, NEW h \in Handles, Running(h)
             PROVE  \E g \in Handles : PoolCanGoOn(g)
  BY DEF NoExhaustion
<1>0. handle \in [Handles -> HandleStates] /\ ConnectionsAreInUse
  BY DEF PoolInv, SqlInv
<1>1. CASE \E g \in Handles : handle[g].at = "insert"
  BY <1>0, <1>1 DEF PoolCanGoOn, ConnectionsAreInUse
<1>2. CASE LockedRows = {} /\ connections # {}
  <2>1. PICK g \in Handles : Pool!Connected(g) /\ InStatement(g)
    BY <1>0, <1>2 DEF ConnectionsAreInUse, Pool!Connected
  <2>2. \A i : Unlocked(i)
    BY <1>2 DEF Unlocked
  <2> QED
    BY <2>1, <2>2 DEF PoolCanGoOn, InStatement
<1>3. CASE LockedRows = {} /\ connections = {}
  <2>1. Cardinality(connections) < PoolSize
    <3>1. Cardinality({}) = 0
      BY FS_EmptySet
    <3> QED
      BY <1>3, <3>1
  <2>2. ASSUME NEW g \in Handles, handle[g].at \in {"write", "insert", "wrote", "delete"}
        PROVE  PoolCanGoOn(g)
    <3>1. ~Pool!Connected(g)
      BY <1>3 DEF Pool!Connected
    <3>2. InStatement(g) \/ (handle[g].at = "wrote" /\ ~FamilyOf(g).destroy)
      BY <2>2 DEF InStatement, Pool!Overtaken, Pool!FamilyOf, FamilyOf
    <3> QED
      BY <2>1, <3>1, <3>2 DEF PoolCanGoOn
  <2>3. CASE handle[h].at \in {"lock", "dlock"} /\ FamilyOf(h).holder # NoHandle
    BY <2>2, <2>3, HolderIsBusy DEF PoolInv
  <2>4. handle[h].at \in Stages
    BY <1>0 DEF HandleStates
  <2> QED
    BY <2>2, <2>3, <2>4 DEF Running, Stages, PoolCanGoOn
<1> QED
  BY <1>1, <1>2, <1>3 DEF LockedRows

LEMMA PoolInvariant ==
  ASSUME Record \in Ids, Owner \in Handles, Home \in [Handles -> Families]
  PROVE  Pool!PoolSpec => []PoolInv
<1>1. Pool!PoolInit => PoolInv
  BY PoolInitially
<1>2. PoolInv /\ [Pool!PoolNext]_(Pool!poolVars) => PoolInv'
  BY PoolStep
<1> QED
  BY <1>1, <1>2, PTL DEF Pool!PoolSpec

-----------------------------------------------------------------------------
(* The theorems.                                                           *)

\* When clear_store of a SQL store has returned Ok, no ID that was stored
\* when its DELETE took its snapshot is stored, nor ever again, though
\* rotations were under way, rolled back, or landed late.
THEOREM SqlClearIsThorough == ClearSpec => []ClearIsThorough
<1>1. ClearingInv => ClearIsThorough
  BY DEF ClearingInv, SqlInv, SqlContract!FullInv, SqlContract!IInv, SqlContract!NoResurrection,
     ClearHolds, ClearIsThorough
<1> QED
  BY <1>1, ClearingInvariant, PTL

\* clear_store of PostgreSQL, which deletes row by row and shows it all at its
\* end, and the rotations that it meets implement the store contract.
THEOREM SqlClearImplementsContract == ClearSpec => ImplementsContract
<1>1. ClearInit => Contract!Init
  BY SqlImplements DEF ClearInit
<1>2. ClearingInv /\ [ClearNext]_clearVars => [Contract!Next]_(Contract!vars)
  BY ClearingStep, SqlContractSame
<1> QED
  BY <1>1, <1>2, ClearingInvariant, PTL DEF ClearSpec, ImplementsContract, Contract!Spec

\* While clear_store holds rows that rotations wait for, or waits for theirs,
\* sessions survive their rotations, families know their records or are
\* marked uncertain, and a successful destroy_session leaves no record.
THEOREM SqlClearKeepsFamilies ==
  ClearSpec => [](RotationKeepsSession /\ KnownUnlessUncertain /\ RevokedFamilyHasNoRecord)
<1>1. ClearingInv => RotationKeepsSession /\ KnownUnlessUncertain /\ RevokedFamilyHasNoRecord
  BY SqlPromises DEF ClearingInv
<1> QED
  BY <1>1, ClearingInvariant, PTL

\* Rotations that hold their sources, a clear_store that holds the rows it has
\* deleted, and the lifecycle locks never wait for each other in a circle:
\* while a call or clear_store runs, one of them can go on without anyone
\* giving up.
THEOREM SqlClearNeverStandsStill == ClearSpec => []NoStandstill
  BY SomeoneGoesOn, ClearingInvariant, PTL

\* However small the pool, connections, lifecycle locks and rows never wait for
\* each other in a circle, though a save that destruction overtook asks for a
\* second connection under its lifecycle lock: while a call runs, one can go on
\* without a timeout.
THEOREM SqlPoolNeverExhausted ==
  ASSUME PoolSize \in Nat \ {0}, Record \in Ids, Owner \in Handles, Home \in [Handles -> Families]
  PROVE  Pool!PoolSpec => []NoExhaustion
<1>1. PoolInv => NoExhaustion
  BY SomeoneConnects
<1> QED
  BY <1>1, PoolInvariant, PTL
=============================================================================
