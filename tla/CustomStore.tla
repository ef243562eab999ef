---------------------------- MODULE CustomStore ------------------------------
(***************************************************************************)
(* A store outside this crate that saves with SessionSave                  *)
(* (session_save.rs) and deletes with begin_delete.  Its backend keeps the *)
(* contract, but it may confuse the tokens and guards of several saves,    *)
(* complete a save that was destroyed meanwhile, or call complete() on a   *)
(* save that began the guarded protocol.                                   *)
(*                                                                         *)
(* In stage "lock" the store has the token of a save; in "write" and       *)
(* "wrote" it also has the guard that begin_write made for it.             *)
(***************************************************************************)
EXTENDS ServerStore

VARIABLE spent  \* saves whose token was consumed, and not their guard

HasToken(h) == handle[h].at \in {"lock", "write", "wrote"} /\ h \notin spent
HasGuard(h) == handle[h].at \in {"write", "wrote"}

\* What becomes of spent saves, when the tokens of consumed are consumed.
Spend(consumed) == spent' = {h \in spent \cup consumed : handle'[h].at # "absent"}

\* The bug of not comparing receipts.
MatchesAny(g, h) == TRUE

\* The guard of h belongs to the token of g: their receipts are the same.
Matches(g, h) == g = h

\* validate_current
ValidCurrent(h) == ~FamilyOf(h).destroy /\ ~Superseded(h)

\* validate_current refuses: the store sends nothing and drops the save.
RefuseCurrent(h) ==
    /\ HasToken(h) /\ ~ValidCurrent(h)
    /\ AbandonWrite(h, "write", {})
    /\ Spend({})

\* complete_with_guard publishes g and releases the guard of h.
Publish(g, h) ==
    /\ ~FamilyOf(h).destroy
    /\ family' = [family EXCEPT
         ![handle[g].family].persisted_id = MarkPersisted(g),
         ![handle[h].family].holder = NoHandle]
    /\ Discard(h)
    /\ UNCHANGED <<maker, records, flying, history>>

\* The bug of dropping a destroyed save's guard as finish left it, settled.
DropFinished(h) == ReleaseWrite(h, TRUE) /\ Discard(h)

\* require_cleanup, and the drop of the guard: nobody will remove the record.
DropUnremoved(h) == ReleaseWrite(h, FALSE) /\ Discard(h)

\* complete_with_guard, called too late: destruction came after the store had
\* looked at is_destroyed.
CompleteTooLate(h) ==
    /\ FamilyOf(h).destroy
    /\ DropUnremoved(h)
    /\ UNCHANGED <<maker, records, flying, history>>

\* complete_with_guard after the backend's answer.
CompleteWithGuard(g, h) ==
    /\ handle[g].at = "wrote" /\ HasToken(g) /\ HasGuard(h) /\ Matches(g, h)
    /\ Publish(g, h) \/ CompleteTooLate(h)
    /\ Spend({g})

\* complete_with_guard or confirm_removed refuses another save's guard and
\* drops it; what that save has sent may still be under way.
ForeignGuard(g, h) ==
    /\ HasToken(g) /\ HasGuard(h) /\ ~Matches(g, h)
    /\ AbandonSave(h)
    /\ Spend({g})

\* complete() acknowledges nothing for a token that began the guarded protocol.
CompleteStarted(g) ==
    /\ HasToken(g) /\ HasGuard(g)
    /\ UNCHANGED vars
    /\ Spend({g})

CustomNext ==
    \/ \E g, h \in Handles : CompleteWithGuard(g, h) \/ ForeignGuard(g, h)
    \/ \E h \in Handles : RefuseCurrent(h) \/ CompleteStarted(h)
    \/ /\ \/ \E h \in Handles \ spent :
               \/ ApplicationStep(h)
               \/ \E f \in Families, i \in Ids : Load(h, f, i)
               \/ Put(h) \/ RejectPut(h) \/ Compensate(h)
               \/ CompleteDelete(h) \/ AbandonDelete(h)
          \/ \E h \in spent : DropHandle(h)
          \/ \E h \in Handles : AbandonSave(h)
          \/ \E ids \in SUBSET records : ClearStore(ids)
          \/ \E i \in Ids : Expire(i)
          \/ \E r \in flying : LandLate(r)
       /\ Spend({})
=============================================================================
