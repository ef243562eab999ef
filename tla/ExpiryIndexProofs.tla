------------------------- MODULE ExpiryIndexProofs --------------------------
(***************************************************************************)
(* Proofs about ExpiryIndex, for every set of IDs, every number of         *)
(* cleanups, every limit and every chunk size.                             *)
(***************************************************************************)
EXTENDS ExpiryIndex, TLAPS

\* A cleanup works with a time that has passed.
CleanersLookBack == \A c \in Cleaners : cleaner[c].now <= clock

Inv == TypeOK /\ IndexExact /\ CleanersLookBack

\* Index entries are pairs of a time and an ID.
LEMMA EntryIsPair ==
  ASSUME NEW x \in Entries
  PROVE  x[1] \in Times /\ x[2] \in Ids /\ x = <<x[1], x[2]>>
  BY DEF Entries

\* Any change of some records that takes the entries of the old records out
\* of the index and puts those of the new records in keeps the index exact.
LEMMA IndexFollows ==
  ASSUME TypeOK, IndexExact, NEW S \in SUBSET Ids,
         records' \in [Ids -> Times \cup {Never, Absent}],
         \A i \in Ids \ S : records'[i] = records[i],
         expiries' = (expiries \ EntriesOf(S))
                       \cup {x \in Entries : x[2] \in S /\ records'[x[2]] = x[1]}
  PROVE  IndexExact'
<1>1. ASSUME NEW x \in Entries
      PROVE  x \in EntriesOf(S) <=> x[2] \in S /\ records[x[2]] = x[1]
  <2>1. x[1] \in Times /\ x[2] \in Ids /\ x = <<x[1], x[2]>>
    BY EntryIsPair
  <2>2. x[1] # Absent
    BY <2>1, TimeAssumption DEF Times
  <2> QED
    BY <2>1, <2>2 DEF EntriesOf, Present
<1>2. ASSUME NEW x \in Entries
      PROVE  x \in expiries' <=> records'[x[2]] = x[1]
  BY <1>1, <1>2, EntryIsPair DEF IndexExact
<1>3. expiries' \subseteq Entries
  BY DEF TypeOK
<1> QED
  BY <1>2, <1>3 DEF IndexExact

\* The initial store is empty.
LEMMA InitInv == Init => Inv
<1> SUFFICES ASSUME Init PROVE Inv
  OBVIOUS
<1>1. 0 \in Times
  BY TimeAssumption DEF Times
<1>2. TypeOK
  BY <1>1 DEF Calls, Init, TypeOK, Idle
<1>3. ASSUME NEW x \in Entries PROVE records[x[2]] # x[1]
  BY EntryIsPair, TimeAssumption DEF Init, Times
<1>4. IndexExact
  BY <1>3 DEF Init, IndexExact
<1>5. CleanersLookBack
  BY TimeAssumption DEF Init, CleanersLookBack, Idle
<1> QED
  BY <1>2, <1>4, <1>5 DEF Inv

\* Insert indexes the new expiry in the place of the old one.
LEMMA InsertInv ==
  ASSUME Inv, NEW i \in Ids, NEW e \in Times \cup {Never}, Insert(i, e)
  PROVE  Inv'
<1>1. records' \in [Ids -> Times \cup {Never, Absent}]
  BY DEF Inv, TypeOK, Insert
<1>2. NewEntry(i, e) = {x \in Entries : x[2] \in {i} /\ records'[x[2]] = x[1]}
  <2>1. ASSUME NEW x \in Entries
        PROVE  x = <<e, i>> <=> x[2] = i /\ records'[x[2]] = x[1]
    BY EntryIsPair DEF Inv, TypeOK, Insert
  <2>2. NewEntry(i, e) = {<<e, i>>} \cap Entries
    BY TimeAssumption DEF NewEntry, Entries, Times
  <2> QED
    BY <2>1, <2>2
<1>3. IndexExact'
  BY <1>1, <1>2, IndexFollows DEF Inv, TypeOK, Insert, OldEntry
<1>4. TypeOK'
  BY <1>1, <1>2 DEF Inv, TypeOK, Insert
<1> QED
  BY <1>3, <1>4 DEF Inv, Insert, CleanersLookBack

\* Removing records takes their entries out and indexes nothing.
LEMMA RemovalIndex ==
  ASSUME TypeOK, IndexExact, NEW S \in SUBSET Ids,
         records' = [i \in Ids |-> IF i \in S THEN Absent ELSE records[i]],
         expiries' = expiries \ EntriesOf(S)
  PROVE  /\ IndexExact'
         /\ records' \in [Ids -> Times \cup {Never, Absent}]
         /\ expiries' \in SUBSET Entries
<1>1. records' \in [Ids -> Times \cup {Never, Absent}]
  BY DEF TypeOK
<1>2. {x \in Entries : x[2] \in S /\ records'[x[2]] = x[1]} = {}
  BY EntryIsPair, TimeAssumption DEF Times
<1>3. IndexExact'
  BY <1>1, <1>2, IndexFollows
<1> QED
  BY <1>1, <1>3 DEF TypeOK

\* MemoryState::remove keeps the index exact.
LEMMA RemoveInv ==
  ASSUME Inv, NEW i \in Ids, Remove(i)
  PROVE  Inv'
<1>1. records' = [j \in Ids |-> IF j \in {i} THEN Absent ELSE records[j]]
  BY DEF Inv, TypeOK, Remove
<1>2. /\ IndexExact'
      /\ records' \in [Ids -> Times \cup {Never, Absent}]
      /\ expiries' \in SUBSET Entries
  BY <1>1, RemovalIndex DEF Inv, Remove
<1> QED
  BY <1>2 DEF Inv, TypeOK, Remove, CleanersLookBack

\* MemoryState::clear empties both.
LEMMA ClearInv ==
  ASSUME Inv, Clear
  PROVE  Inv'
<1>1. records' \in [Ids -> Times \cup {Never, Absent}]
  BY DEF Clear
<1>2. IndexExact'
  BY EntryIsPair, TimeAssumption DEF Clear, IndexExact, Times
<1> QED
  BY <1>1, <1>2 DEF Inv, TypeOK, Clear, CleanersLookBack

\* Time that passes makes no cleanup look ahead.
LEMMA TickInv ==
  ASSUME Inv, Tick
  PROVE  Inv'
<1>1. clock' \in Times
  BY TimeAssumption DEF Inv, TypeOK, Tick, Times
<1>2. CleanersLookBack'
  BY DEF Calls, Inv, TypeOK, CleanersLookBack, Tick, Times
<1> QED
  BY <1>1, <1>2 DEF Inv, TypeOK, Tick, IndexExact

\* What a cleanup does to itself: it keeps a time that has passed.
LEMMA CleanerInv ==
  ASSUME Inv, NEW c \in Cleaners, NEW r \in Calls, r.now <= clock,
         cleaner' = [cleaner EXCEPT ![c] = r],
         UNCHANGED clock
  PROVE  /\ cleaner' \in [Cleaners -> Calls]
         /\ CleanersLookBack'
  BY DEF Inv, TypeOK, CleanersLookBack, Calls

\* A cleanup that ends is idle again.
LEMMA CancelInv ==
  ASSUME Inv, NEW c \in Cleaners,
         cleaner' = [cleaner EXCEPT ![c] = Idle],
         UNCHANGED clock
  PROVE  /\ cleaner' \in [Cleaners -> Calls]
         /\ CleanersLookBack'
<1>1. 0 \in Times /\ 0 <= clock
  BY TimeAssumption DEF Inv, TypeOK, Times
<1>2. Idle \in Calls /\ Idle.now = 0
  BY <1>1 DEF Idle, Calls
<1> QED
  BY <1>1, <1>2, CleanerInv

\* Selecting candidates changes nothing but the cleanup.
LEMMA SelectInv ==
  ASSUME Inv, NEW c \in Cleaners, NEW limit \in Limits, Select(c, limit)
  PROVE  Inv'
<1> DEFINE candidates == ExpiredCandidates(cleaner[c].now, limit)
<1>1. candidates \in SUBSET Entries
  BY DEF Inv, TypeOK, ExpiredCandidates, First
<1>2. /\ cleaner[c] \in Calls
      /\ cleaner[c].now <= clock
  BY DEF Inv, TypeOK, CleanersLookBack, Calls
<1>3. /\ cleaner' \in [Cleaners -> Calls]
      /\ CleanersLookBack'
  <2>1. CASE candidates = {}
    BY <2>1, CancelInv DEF Select
  <2>2. CASE candidates # {}
    <3> DEFINE r == [cleaner[c] EXCEPT !.todo = candidates]
    <3>1. r \in Calls /\ r.now = cleaner[c].now
      BY <1>1, <1>2 DEF Calls
    <3>2. cleaner' = [cleaner EXCEPT ![c] = r] /\ clock' = clock
      BY <2>2 DEF Select
    <3> HIDE DEF r
    <3> QED
      BY <1>1, <1>2, <3>1, <3>2, CleanerInv
  <2> QED
    BY <2>1, <2>2
<1> QED
  BY <1>3 DEF Inv, TypeOK, Select, IndexExact

\* Removing a chunk takes its records out of the map and the index.
LEMMA RemoveChunkInv ==
  ASSUME Inv, NEW c \in Cleaners, RemoveChunk(c)
  PROVE  Inv'
<1> DEFINE chunk == First(CleanupBatchSize, cleaner[c].todo)
           expired == {i \in Ids : /\ \E x \in chunk : x[2] = i
                                   /\ StillExpired(i, cleaner[c].now)}
           rest == cleaner[c].todo \ chunk
<1>1. /\ cleaner[c] \in Calls
      /\ cleaner[c].now <= clock
  BY DEF Inv, TypeOK, CleanersLookBack
<1>2. rest \in SUBSET Entries
  BY <1>1 DEF Calls
<1>3. /\ records' = [i \in Ids |-> IF i \in expired THEN Absent ELSE records[i]]
      /\ expiries' = expiries \ EntriesOf(expired)
      /\ cleaner' = [cleaner EXCEPT ![c] = IF rest = {} THEN Idle
                                           ELSE [@ EXCEPT !.todo = rest]]
      /\ clock' = clock
  BY DEF RemoveChunk
<1>4. /\ IndexExact'
      /\ records' \in [Ids -> Times \cup {Never, Absent}]
      /\ expiries' \in SUBSET Entries
  <2> HIDE DEF expired
  <2>1. expired \in SUBSET Ids
    BY DEF expired
  <2> QED
    BY <1>3, <2>1, RemovalIndex DEF Inv
<1>5. /\ cleaner' \in [Cleaners -> Calls]
      /\ CleanersLookBack'
  <2> HIDE DEF rest
  <2>1. CASE rest = {}
    BY <1>3, <2>1, CancelInv
  <2>2. CASE rest # {}
    <3> DEFINE r == [cleaner[c] EXCEPT !.todo = rest]
    <3>1. r \in Calls /\ r.now = cleaner[c].now
      BY <1>1, <1>2 DEF Calls
    <3>2. cleaner' = [cleaner EXCEPT ![c] = r] /\ clock' = clock
      BY <1>3, <2>2
    <3> HIDE DEF r
    <3> QED
      BY <1>1, <1>2, <3>1, <3>2, CleanerInv
  <2> QED
    BY <2>1, <2>2
<1> QED
  BY <1>3, <1>4, <1>5 DEF Inv, TypeOK

\* Every step keeps the invariant.
LEMMA NextInv == Inv /\ [Next]_vars => Inv'
<1> SUFFICES ASSUME Inv, [Next]_vars PROVE Inv'
  OBVIOUS
<1>1. ASSUME NEW c \in Cleaners, Start(c) PROVE Inv'
  <2>1. /\ cleaner' \in [Cleaners -> Calls]
        /\ CleanersLookBack'
    <3> DEFINE r == [running |-> TRUE, now |-> clock, todo |-> {}]
    <3>1. r \in Calls /\ r.now <= clock
      BY TimeAssumption DEF Inv, TypeOK, Times, Calls
    <3>2. cleaner' = [cleaner EXCEPT ![c] = r] /\ clock' = clock
      BY <1>1 DEF Start
    <3> HIDE DEF r
    <3> QED
      BY <3>1, <3>2, CleanerInv
  <2> QED
    BY <1>1, <2>1 DEF Inv, TypeOK, Start, IndexExact
<1>2. ASSUME NEW c \in Cleaners, Cancel(c) PROVE Inv'
  <2>1. /\ cleaner' \in [Cleaners -> Calls]
        /\ CleanersLookBack'
    BY <1>2, CancelInv DEF Cancel
  <2> QED
    BY <1>2, <2>1 DEF Inv, TypeOK, Cancel, IndexExact
<1>3. CASE UNCHANGED vars
  BY <1>3 DEF vars, Inv, TypeOK, IndexExact, CleanersLookBack
<1> QED
  BY <1>1, <1>2, <1>3, InsertInv, RemoveInv, ClearInv, TickInv, SelectInv, RemoveChunkInv
  DEF Next

\* Records, index and candidates keep their types: what cleanup_batch removes
\* are always IDs with times (memory_store.rs).
THEOREM ExpiryIndexTypes == Spec => []TypeOK
<1>1. Inv => TypeOK
  BY DEF Inv
<1> QED
  BY <1>1, InitInv, NextInv, PTL DEF Spec

\* The expiry index of MemoryState always holds exactly the current expiry
\* of every record that can expire (memory_store.rs, insert and remove).
THEOREM IndexStaysExact == Spec => []IndexExact
<1>1. Inv => IndexExact
  BY DEF Inv
<1> QED
  BY <1>1, InitInv, NextInv, PTL DEF Spec

\* Cleanup removes no session that has not expired, even if it was renewed
\* after it was selected (remove_expired_candidates, memory_store.rs).
THEOREM CleanupIsSafe == Spec => CleanupRemovesOnlyExpired
<1>1. ASSUME Inv, NEW c \in Cleaners, RemoveChunk(c),
             NEW i \in Ids, Present(i), ~Present(i)'
      PROVE  records[i] \in Times /\ records[i] < clock
  <2>1. StillExpired(i, cleaner[c].now)
    BY <1>1 DEF RemoveChunk, Present
  <2>2. cleaner[c].now <= clock /\ cleaner[c].now \in Times
    BY <1>1 DEF Calls, Inv, TypeOK, CleanersLookBack
  <2> QED
    BY <1>1, <2>1, <2>2 DEF StillExpired, Inv, TypeOK, Times
<1>2. Inv /\ [Next]_vars
        => [\A c \in Cleaners : RemoveChunk(c) =>
              \A i \in Ids : Present(i) /\ ~Present(i)' =>
                records[i] \in Times /\ records[i] < clock]_vars
  BY <1>1
<1> QED
  BY <1>2, InitInv, NextInv, PTL DEF Spec, CleanupRemovesOnlyExpired
=============================================================================
