------------------------ MODULE UnsavedRegeneration --------------------------
(***************************************************************************)
(* The deletion of a session that was regenerated and not saved.  A handle *)
(* that was itself regenerated is told from a clone that was superseded by *)
(* the regeneration of another handle: the first one is promised to delete *)
(* the persisted source, the second one only its own old ID.               *)
(***************************************************************************)
EXTENDS ServerStore

VARIABLE regenerated_from  \* history: the ID that each handle had before its
                           \* own first regenerate, NoId if there was none

\* A handle that is live before and after a step changes its ID in Regenerate
\* only.  A clone has not been regenerated itself.
RememberSource ==
    regenerated_from' = [h \in Handles |->
        IF handle'[h].at = "absent" THEN NoId
        ELSE IF regenerated_from[h] = NoId /\ handle[h].at = "live"
                                           /\ handle'[h].id # handle[h].id
             THEN handle[h].id
             ELSE regenerated_from[h]]

InitUnsaved == Init /\ regenerated_from = [h \in Handles |-> NoId]

NextUnsaved == Next /\ RememberSource

SpecUnsaved == InitUnsaved /\ [][NextUnsaved]_<<vars, regenerated_from>>

\* "Deleting a session after an unsaved regeneration targets its persisted
\* source" (docs/session-lifecycle.md): destroy_session on a handle whose own
\* regenerate has left the persisted ID, and whose new ID was never stored,
\* deletes the record it was regenerated from.
UnsavedRegenerationDeletesSource ==
    \A h \in Handles :
        /\ handle[h].at = "delete"
        /\ regenerated_from[h] # NoId
        /\ regenerated_from[h] = FamilyOf(h).persisted_id
        /\ handle[h].id \notin records \cup gone
        => handle[h].target = regenerated_from[h]
=============================================================================
