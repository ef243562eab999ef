----------------------------- MODULE SharedData ------------------------------
(***************************************************************************)
(* Which Session values share their data, and what they report as changed  *)
(* (Clone, validate_loaded, set_expiry, data_changed in session.rs).       *)
(*                                                                         *)
(* Clones share one allocation, Arc<RwLock<SessionData>>.  A store decodes *)
(* a record, or keeps Session values and clones one, and passes the result *)
(* to validate_loaded, which must give the request data of its own: it     *)
(* looks at the reference count and then copies the data or resets its     *)
(* bookkeeping in place, while other threads clone, edit, save and drop    *)
(* the other values.  SaveTracking and Session take this isolation for     *)
(* granted: a family there is the values that share an allocation here.    *)
(*                                                                         *)
(* Revisions are reduced to the comparisons the code makes of them         *)
(* (SaveTracking shows that these are exact).                              *)
(***************************************************************************)
EXTENDS Naturals, FiniteSets

CONSTANTS
    Handles,   \* Session values (slots, reused)
    Cells,     \* allocations of SessionData (reused when nobody refers to one)
    Values,    \* contents of the map
    NoCell, NoData

ASSUME HandlesAssumption == IsFiniteSet(Handles)
ASSUME NoneAssumption == NoCell \notin Cells

VARIABLES handle, cell

vars == <<handle, cell>>

\* "copy" and "reset": validate_loaded has read the reference count.
\* "saving": moved into store_session, together with its SaveRevision.
\* edited: the data changed after the SaveRevision was captured.
\* moved: history, expiry, identity or outgoing cookie are not those of the
\* load, the creation or the last reset.
HandleStates == [at : {"absent", "live", "copy", "reset", "saving"},
                 data : Cells \cup {NoCell},
                 metadata_changed : BOOLEAN, moved : BOOLEAN, edited : BOOLEAN]

\* unsaved: revision and persisted_revision differ.
CellStates == [values : Values, unsaved : BOOLEAN, active_saves : Nat,
               overlapping_saves : BOOLEAN, uncertain_save : BOOLEAN]

TypeOK ==
    /\ handle \in [Handles -> HandleStates]
    /\ cell \in [Cells -> CellStates \cup {NoData}]

Held == {h \in Handles : handle[h].at # "absent"}
Sharing(c) == {h \in Held : handle[h].data = c}
SavingOn(c) == {h \in Sharing(c) : handle[h].at = "saving"}
FreeCells == {c \in Cells : Sharing(c) = {}}

Absent == [at |-> "absent", data |-> NoCell,
           metadata_changed |-> FALSE, moved |-> FALSE, edited |-> FALSE]

\* SessionData::default with values v
Untouched(v) == [values |-> v, unsaved |-> FALSE, active_saves |-> 0,
                 overlapping_saves |-> FALSE, uncertain_save |-> FALSE]

Fresh(c) == [at |-> "live", data |-> c,
             metadata_changed |-> FALSE, moved |-> FALSE, edited |-> FALSE]

Init ==
    /\ handle = [h \in Handles |-> Absent]
    /\ cell = [c \in Cells |-> NoData]

\* Session::data_changed
DataChanged(h) ==
    \/ handle[h].metadata_changed
    \/ cell[handle[h].data].uncertain_save
    \/ cell[handle[h].data].unsaved

\* The allocations after h has let go of its own: the last reference frees it.
Released(h, cells) ==
    LET c == handle[h].data
    IN  IF Sharing(c) = {h} THEN [cells EXCEPT ![c] = NoData] ELSE cells

-----------------------------------------------------------------------------

\* Session::new, or a store decodes a record.
Create(h, c, v) ==
    /\ handle[h].at = "absent" /\ c \in FreeCells
    /\ handle' = [handle EXCEPT ![h] = Fresh(c)]
    /\ cell' = [cell EXCEPT ![c] = Untouched(v)]

\* The bug of a clone that starts without changes.
CleanCopy(h) == [handle[h] EXCEPT !.metadata_changed = FALSE]

\* What a clone takes over.
CopyOf(h) == handle[h]

\* Clone for Session
Clone(h, g) ==
    /\ handle[h].at = "live" /\ handle[g].at = "absent"
    /\ handle' = [handle EXCEPT ![g] = CopyOf(h)]
    /\ UNCHANGED cell

\* The value goes out of scope, or validate_loaded rejects it.
DropHandle(h) ==
    /\ handle[h].at \in {"live", "copy", "reset"}
    /\ handle' = [handle EXCEPT ![h] = Absent]
    /\ cell' = Released(h, cell)

\* insert_raw or remove: the revision moves on.
Edit(h, v) ==
    LET c == handle[h].data IN
    /\ handle[h].at = "live" /\ cell[c].values # v
    /\ cell' = [cell EXCEPT ![c].values = v, ![c].unsaved = TRUE]
    /\ handle' = [g \in Handles |->
         IF g \in Sharing(c) /\ handle[g].at = "saving"
         THEN [handle[g] EXCEPT !.edited = TRUE] ELSE handle[g]]

\* set_expiry, regenerate or set_cookie_value, to a new value or back again
SetMetadata(h) ==
    /\ handle[h].at = "live"
    /\ \E moved \in BOOLEAN :
         handle' = [handle EXCEPT ![h].moved = moved, ![h].metadata_changed = TRUE]
    /\ UNCHANGED cell

\* reset_data_changed
ResetDataChanged(h) ==
    LET c == handle[h].data IN
    /\ handle[h].at = "live"
    /\ cell' = [cell EXCEPT ![c].unsaved = FALSE, ![c].uncertain_save = FALSE]
    /\ handle' = [handle EXCEPT ![h].metadata_changed = FALSE, ![h].moved = FALSE]

\* store_session captures the data (SaveRevision::capture).
Capture(h) ==
    LET c == handle[h].data IN
    /\ handle[h].at = "live"
    /\ cell' = [cell EXCEPT ![c].active_saves = @ + 1,
                            ![c].overlapping_saves = cell[c].active_saves # 0,
                            ![c].uncertain_save = @ \/ cell[c].active_saves # 0]
    /\ handle' = [handle EXCEPT ![h].at = "saving", ![h].edited = FALSE]

\* The bug of a SaveRevision that is dropped again after it was acknowledged.
OneFewerTwice(n) == n - 2

\* The bug of a SaveRevision that ends without being counted out.
Stranded(n) == n

\* The count after a SaveRevision has ended.
OneFewer(n) == n - 1

\* acknowledge_revision; the store drops the session.
Acknowledge(h) ==
    LET c == handle[h].data IN
    /\ handle[h].at = "saving"
    /\ cell' = Released(h, [cell EXCEPT
         ![c].active_saves = OneFewer(@),
         ![c].unsaved = IF cell[c].overlapping_saves THEN @ ELSE handle[h].edited,
         ![c].uncertain_save = cell[c].overlapping_saves])
    /\ handle' = [handle EXCEPT ![h] = Absent]

\* Drop for SaveRevision: the save failed or was cancelled.
DropSave(h) ==
    LET c == handle[h].data IN
    /\ handle[h].at = "saving"
    /\ cell' = Released(h, [cell EXCEPT ![c].active_saves = OneFewer(@),
                                        ![c].uncertain_save = TRUE])
    /\ handle' = [handle EXCEPT ![h] = Absent]

-----------------------------------------------------------------------------
(* validate_loaded.                                                        *)

\* The bug of taking the store's own value for no owner.
SharedByRequests(h) == Cardinality(Sharing(handle[h].data)) > 2

\* Arc::strong_count(&self.data) > 1
Shared(h) == Sharing(handle[h].data) # {h}

\* It reads the reference count, ...
CheckShared(h) ==
    /\ handle[h].at = "live"
    /\ handle' = [handle EXCEPT ![h].at = IF Shared(h) THEN "copy" ELSE "reset"]
    /\ UNCHANGED cell

Loaded(h, c) == handle' = [handle EXCEPT ![h] = Fresh(c)]

\* ... copies the values under the read lock, ...
CopyShared(h, c) ==
    /\ handle[h].at = "copy" /\ c \in FreeCells
    /\ cell' = [Released(h, cell) EXCEPT ![c] = Untouched(cell[handle[h].data].values)]
    /\ Loaded(h, c)

\* ... or resets the bookkeeping in place: active_saves is left as it is.
ResetOwned(h) ==
    LET c == handle[h].data IN
    /\ handle[h].at = "reset"
    /\ cell' = [cell EXCEPT ![c].unsaved = FALSE, ![c].uncertain_save = FALSE,
                            ![c].overlapping_saves = FALSE]
    /\ Loaded(h, c)

Next ==
    \E h \in Handles :
        \/ \E c \in Cells, v \in Values : Create(h, c, v)
        \/ CheckShared(h) \/ ResetOwned(h) \/ \E c \in Cells : CopyShared(h, c)
        \/ \E g \in Handles : Clone(h, g)
        \/ \E v \in Values : Edit(h, v)
        \/ SetMetadata(h) \/ DropHandle(h) \/ ResetDataChanged(h)
        \/ Capture(h) \/ Acknowledge(h) \/ DropSave(h)

Spec == Init /\ [][Next]_vars

-----------------------------------------------------------------------------

\* The count of active saves is that of the saves under way, also in data
\* that validate_loaded has taken over without setting it.
SavesAreCounted ==
    \A c \in Cells \ FreeCells : cell[c].active_saves = Cardinality(SavingOn(c))

\* A handle that reports no change of its own has the expiry and identity it
\* was loaded, created or reset with, and so have the clones made of it.
MetadataIsTracked ==
    \A h \in Held : handle[h].moved => handle[h].metadata_changed

FinishesLoad(h) == handle[h].at \in {"copy", "reset"} /\ handle'[h].at = "live"

\* A load yields the values in a clean session, on data that it shares with
\* nobody and on which no save is active; it leaves what all others read and
\* report as it was.  No dirty session turns clean because a store loads the
\* same data, and two loads at the same time do not meet (validate_loaded).
LoadsAreIsolated ==
    [][\A h \in Handles : FinishesLoad(h) =>
         LET c == handle[h].data
             d == handle'[h].data
         IN  /\ ~DataChanged(h)'
             /\ cell'[d].values = cell[c].values /\ cell'[d].active_saves = 0
             /\ \A g \in Held \ {h} :
                  /\ handle[g].data # d
                  /\ handle'[g] = handle[g]
                  /\ cell'[handle[g].data] = cell[handle[g].data]]_vars
=============================================================================
