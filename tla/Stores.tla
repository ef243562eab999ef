------------------------------- MODULE Stores --------------------------------
(***************************************************************************)
(* The stores that take several steps where the contract has one, and what *)
(* a site may expect of any of them.  A site uses one store for all of its *)
(* sessions: in each behaviour it is one of MemoryStore, CustomStore,      *)
(* LockedStore, SqlStore and MongoStore.                                   *)
(***************************************************************************)
EXTENDS ServerStore

VARIABLES
    kind,   \* the store of this site
    owner,  \* the handle with the lock of a store that has one of its own
    spent   \* saves of CustomStore whose token was consumed

Memory == INSTANCE MemoryStore WITH CanOutliveFuture <- FALSE, writer <- owner
Custom == INSTANCE CustomStore WITH CanOutliveFuture <- TRUE
Locked == INSTANCE LockedStore WITH CanOutliveFuture <- FALSE
Sql == INSTANCE SqlStore WITH CanOutliveFuture <- TRUE
Mongo == INSTANCE MongoStore WITH CanOutliveFuture <- TRUE

storesVars == <<vars, kind, owner, spent>>

StoresInit ==
    /\ Init
    /\ kind \in {"memory", "custom", "locked", "sql", "mongo"}
    /\ owner = NoHandle
    /\ spent = {}

StoresNext ==
    /\ UNCHANGED kind
    /\ \/ kind = "memory" /\ Memory!MemoryNext /\ UNCHANGED spent
       \/ kind = "custom" /\ Custom!CustomNext /\ UNCHANGED owner
       \/ kind = "locked" /\ Locked!LockedNext /\ UNCHANGED spent
       \/ kind = "sql" /\ Sql!SqlNext /\ UNCHANGED <<owner, spent>>
       \/ kind = "mongo" /\ Mongo!MongoNext /\ UNCHANGED <<owner, spent>>

StoresSpec == StoresInit /\ [][StoresNext]_storesVars

-----------------------------------------------------------------------------

\* What a step of the site is in the contract of its store.
ContractStep ==
    CASE kind = "memory" -> [Memory!Next]_(Memory!vars)
      [] kind = "custom" -> [Custom!Next]_(Custom!vars)
      [] kind = "locked" -> [Locked!Contract!Next]_(Locked!Contract!vars)
      [] kind = "sql" -> [Sql!Contract!Next]_(Sql!Contract!vars)
      [] kind = "mongo" -> \A i \in records' \ records : maker[i] \notin deleted

\* Every store implements the contract, except MongoStore, whose rotation is
\* two writes, and which at least creates no record of a deleted family.  The
\* rest do it by the critical section of MemoryStore, in which destruction can
\* strike; the transaction of the SQL stores, which is invisible until its
\* COMMIT; a lock of a store's own held from the check to the completion, and
\* from the selection of the target to its removal, which is what complete
\* and prepare_delete ask for; and SessionSave, whatever a store confuses:
\* it confirms no save but the one whose guard it is given.
ImplementsContract ==
    /\ Memory!Init /\ Custom!Init /\ Locked!Contract!Init /\ Sql!Contract!Init
    /\ [][ContractStep]_storesVars

\* Whenever the locks are free, a family knows every record it has made or
\* has marked itself uncertain.  Stores whose requests end with their futures
\* do without that escape: an interrupted save leaves nothing behind.
RecordsAreKnown ==
    \A i \in records : LET f == family[maker[i]] IN
        \/ f.persisted_id = i \/ f.holder # NoHandle \/ owner # NoHandle
        \/ kind \notin {"memory", "locked"} /\ f.uncertain

\* What MongoDB's two writes leave of the contract is all that revokes: a
\* removed ID does not come back, a session neither splits nor outlives its
\* end, and a successful destroy_session leaves no record of its family.
MongoRevokes ==
    kind = "mongo" =>
        NoResurrection /\ NoFork /\ EndedStaysEnded /\ RevokedFamilyHasNoRecord

\* The price of MongoDB's two writes is bounded (LossIsFenced of MongoStore).
MongoLossIsFenced == kind = "mongo" => Mongo!LossIsFenced
=============================================================================
