------------------------------- MODULE SqlPool -------------------------------
(***************************************************************************)
(* What the calls of a SQL store wait for (sqlx_store.rs): the lifecycle   *)
(* lock of a family, then a connection of the pool, then the row locks     *)
(* that other transactions hold.  A rotation keeps its connection from     *)
(* BEGIN to COMMIT, every other statement takes one for itself, and a save *)
(* that destruction overtook needs a second one for its compensating       *)
(* delete while it still holds the lifecycle lock.                         *)
(*                                                                         *)
(* The pool's acquire timeout and the database's lock timeouts are left    *)
(* out: nothing here may depend on them to go on.                          *)
(***************************************************************************)
EXTENDS SqlStore

CONSTANTS
    PoolSize,  \* max_connections of the sqlx pool
    Record,    \* the ID of a session that is stored when the model starts
    Owner,     \* the handles of the request that created it
    Home       \* the family each handle belongs to

ASSUME PoolSizeAssumption == PoolSize \in Nat \ {0}
ASSUME RecordAssumption == Record \in Ids
ASSUME OwnerAssumption == Owner \in Handles
ASSUME HomeAssumption == Home \in [Handles -> Families]

VARIABLE connections  \* the connections in use: by which call, for what

poolVars == <<vars, connections>>

Uses == {"statement", "compensation"}

\* A session was created and saved; other requests have loaded it, and
\* each has its clones.
PoolInit ==
    /\ connections = {}
    /\ family = [f \in Families |->
         [NewFamily EXCEPT !.used = TRUE, !.persisted_id = Record,
                           !.fresh = f = Home[Owner],
                           !.creation_claimed = f = Home[Owner]]]
    /\ handle = [h \in Handles |->
         [NoSession EXCEPT !.at = "live", !.family = Home[h], !.id = Record]]
    /\ maker = [i \in Ids |-> IF i = Record THEN Home[Owner] ELSE NoFamily]
    /\ lineage = [i \in Ids |-> IF i = Record THEN Record ELSE NoId]
    /\ records = {Record}
    /\ flying = {} /\ gone = {} /\ ended = {} /\ deleted = {} /\ revoked = {}

\* Destruction overtook the save: it has to remove its record again.
Overtaken(h) == handle[h].at = "wrote" /\ FamilyOf(h).destroy

Use(h) == IF Overtaken(h) THEN "compensation" ELSE "statement"
Connected(h) == <<h, Use(h)>> \in connections

\* Pool::acquire, for a transaction or for one statement
Connect(h) ==
    /\ handle[h].at \in {"write", "delete"} \/ Overtaken(h)
    /\ ~Connected(h) /\ Cardinality(connections) < PoolSize
    /\ connections' = connections \cup {<<h, Use(h)>>}
    /\ UNCHANGED vars

\* The bug of a transaction that lives as long as store_session.
KeptAfterCommit(h) == connections

\* What is left in use when the transaction or statement of h has ended.
AfterStatement(h) == connections \ {<<h, "statement">>}

\* A call has returned or its future was dropped.
Disconnect(h) == connections' = connections \ ({h} \X Uses)

\* A statement of a save or a deletion waits for row locks and is executed.
Statement(h) ==
    /\ Connected(h)
    /\ \/ DeleteSource(h) /\ UNCHANGED connections
       \/ (Execute(h) \/ Commit(h)) /\ connections' = AfterStatement(h)
       \/ /\ \/ Reject(h)
             \/ Unlocked(handle[h].id) /\ Compensate(h)
             \/ Unlocked(handle[h].target) /\ CompleteDelete(h)
          /\ Disconnect(h)

\* The requests go on with the clones they have.
RequestStep(h) ==
    \/ \E i \in Ids : Regenerate(h, i)
    \/ Destroy(h) \/ DropHandle(h)
    \/ BeginSave(h) \/ RefuseSave(h) \/ BeginBackendWrite(h) \/ RefuseBackendWrite(h)
    \/ BeginDelete(h) \/ EnterDelete(h) \/ RefuseDelete(h)

PoolNext ==
    \/ \E h \in Handles :
         \/ RequestStep(h) /\ UNCHANGED connections
         \/ Connect(h) \/ Statement(h)
         \/ (CompleteSave(h) \/ Abandon(h) \/ AbandonDelete(h)) /\ Disconnect(h)
    \/ /\ Cardinality(connections) < PoolSize
       /\ \/ LockedRows = {} /\ ClearStore(Ids)
          \/ \E i \in Ids : Unlocked(i) /\ Expire(i)
       /\ UNCHANGED connections
    \/ (\E r \in flying : LandUnlocked(r)) /\ UNCHANGED connections

\* The database answers, and the application polls its futures.  Every handle
\* makes one call, so the lock, the pool and the row locks need not be fair.
PoolFairness ==
    \A h \in Handles :
        /\ WF_poolVars((BeginBackendWrite(h) \/ RefuseBackendWrite(h)) /\ UNCHANGED connections)
        /\ WF_poolVars((EnterDelete(h) \/ RefuseDelete(h)) /\ UNCHANGED connections)
        /\ WF_poolVars(Connect(h))
        /\ WF_poolVars(Statement(h))
        /\ WF_poolVars(CompleteSave(h) /\ Disconnect(h))

PoolSpec == PoolInit /\ [][PoolNext]_poolVars /\ PoolFairness

-----------------------------------------------------------------------------

\* EveryCallReturns of ServerStore is checked here too: however small the
\* pool, no call hangs.  Whoever holds a row lock has its connection, whoever
\* waits for a row lock needs no other, and whoever waits for a connection
\* holds at most the lifecycle lock; so no timeout is needed to go on.
=============================================================================
