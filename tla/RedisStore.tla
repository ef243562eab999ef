----------------------------- MODULE RedisStore ------------------------------
(***************************************************************************)
(* RedisStore (redis_store.rs): SET NX, SET XX and the rotation script are *)
(* one step each, as Redis executes commands and scripts one at a time.    *)
(* clear_store is not: it scans the keys with a cursor and unlinks what a  *)
(* SCAN returned in batches, while sessions are saved and rotated.         *)
(*                                                                         *)
(* SCAN promises to return, before its cursor comes back to zero, every    *)
(* key that was there from start to end; other keys it may return or not.  *)
(* The keys of this model are the ones that begin with the store's prefix. *)
(***************************************************************************)
EXTENDS ServerStore

CONSTANT BatchSize  \* SCAN_BATCH_SIZE, the most keys in one UNLINK

ASSUME BatchSizeAssumption == BatchSize \in Nat \ {0}

VARIABLE clear  \* the clear_store that is running

redisVars == <<vars, clear>>

ClearStates == [at : {"idle", "scan", "unlink", "lost", "done"},
                start : SUBSET Ids,   \* history: the keys there at its start
                unseen : SUBSET Ids,  \* ... that no SCAN has returned yet
                keys : SUBSET Ids,    \* returned, and not yet unlinked
                last : BOOLEAN]       \* the cursor came back to zero

NoClear == [at |-> "idle", start |-> {}, unseen |-> {}, keys |-> {}, last |-> FALSE]

RedisInit == Init /\ clear = NoClear

-----------------------------------------------------------------------------
(* Saves.                                                                  *)

Rotates(h) == handle[h].origin \notin {NoId, handle[h].id}

\* The bug of a script that does not look for the source.
ScriptCreates(h) == handle[h].id \notin records

\* The script's EXISTS of the source and of the new key.
ScriptAdmits(h) == handle[h].origin \in records /\ handle[h].id \notin records

\* The options NX for a first save and XX for an update.
SetAdmits(h) == handle[h].origin = NoId <=> handle[h].id \notin records

Admits(h) == IF Rotates(h) THEN ScriptAdmits(h) ELSE SetAdmits(h)

\* SET, or the script's SET and DEL.
Store(h) ==
    /\ handle[h].at = "write" /\ Admits(h)
    /\ Replace(handle[h].origin, handle[h].id)
    /\ Move(h, "wrote")
    /\ UNCHANGED <<family, maker, flying, lineage, deleted, revoked>>

\* SET answers nil, the script zero.
Refuse(h) ==
    /\ handle[h].at = "write" /\ ~Admits(h)
    /\ ReleaseWrite(h, FALSE)
    /\ Discard(h)
    /\ UNCHANGED <<maker, records, flying, history>>

SessionStep(h) ==
    \/ ApplicationStep(h)
    \/ \E f \in Families, i \in Ids : Load(h, f, i)
    \/ Store(h) \/ Refuse(h) \/ AbandonSave(h)
    \/ DiscardExpired(h) \/ AbandonDiscard(h)
    \/ CompleteSave(h) \/ Compensate(h)
    \/ CompleteDelete(h) \/ AbandonDelete(h)

\* SCAN owes a key only as long as it stays.
Forget(ids) == clear' = [clear EXCEPT !.unseen = @ \cap ids]

-----------------------------------------------------------------------------
(* clear_store.                                                            *)

\* The first SCAN has cursor zero.
StartClear ==
    /\ clear.at \in {"idle", "lost", "done"}
    /\ clear' = [at |-> "scan", start |-> records, unseen |-> records,
                 keys |-> {}, last |-> FALSE]
    /\ UNCHANGED vars

\* SCAN returns some keys; at its last call none is owed any more.
Scan(keys, last) ==
    /\ clear.at = "scan"
    /\ last => clear.unseen \subseteq keys
    /\ clear' = [clear EXCEPT !.at = "unlink", !.keys = keys, !.last = last,
                              !.unseen = @ \ keys]
    /\ UNCHANGED vars

\* keys.chunks(SCAN_BATCH_SIZE)
Batches(keys) ==
    {batch \in SUBSET keys :
        \/ Cardinality(batch) = BatchSize
        \/ batch = keys /\ Cardinality(keys) < BatchSize}

\* The next UNLINK of what the SCAN returned; unknown keys are ignored.
Unlink(batch) ==
    /\ clear.at = "unlink" /\ clear.keys # {}
    /\ ClearStore(batch)
    /\ clear' = [clear EXCEPT !.keys = @ \ batch]

\* The bug of leaving the loop as soon as the cursor is zero.
ScannedAll == clear.last

\* The loop ends when the last keys are unlinked and the cursor is zero.
Finished == clear.keys = {} /\ clear.last

\* The next round of the loop, with the cursor of the last SCAN.
NextScan ==
    /\ clear.at = "unlink" /\ clear.keys = {} /\ ~clear.last
    /\ clear' = [clear EXCEPT !.at = "scan"]
    /\ UNCHANGED vars

\* clear_store returns Ok.
EndClear ==
    /\ clear.at = "unlink" /\ Finished
    /\ clear' = [NoClear EXCEPT !.at = "done", !.start = clear.start]
    /\ UNCHANGED vars

\* clear_store fails or is dropped; one UNLINK may be on its way.
AbandonClear ==
    /\ clear.at \in {"scan", "unlink"}
    /\ \E batch \in {{}} \cup Batches(clear.keys) :
         clear' = IF batch = {} THEN NoClear
                  ELSE [NoClear EXCEPT !.at = "lost", !.keys = batch]
    /\ UNCHANGED vars

\* It reaches Redis after all.
LandUnlink ==
    /\ clear.at = "lost"
    /\ ClearStore(clear.keys)
    /\ clear' = NoClear

RedisNext ==
    \/ /\ \/ \E h \in Handles : SessionStep(h)
          \/ \E i \in Ids : Expire(i)
          \/ \E r \in flying : LandLate(r)
       /\ Forget(records')
    \/ StartClear
    \/ \E keys \in SUBSET records, last \in BOOLEAN : Scan(keys, last)
    \/ \E batch \in Batches(clear.keys) : Unlink(batch)
    \/ NextScan \/ EndClear \/ AbandonClear \/ LandUnlink

RedisSpec == RedisInit /\ [][RedisNext]_redisVars

-----------------------------------------------------------------------------

\* When clear_store returns Ok, no ID that was stored when it started is
\* stored, nor ever again, though other requests deleted, rotated and created
\* records between its SCANs.
ClearIsThorough == clear.at = "done" => clear.start \cap records = {}

\* The commands of RedisStore, its clear in pieces included, implement the
\* store contract.
CommandsImplementContract == Spec
=============================================================================
