------------------------- MODULE StoredExpiryProofs --------------------------
(***************************************************************************)
(* Proofs about StoredExpiry, for every scale of the clocks, every number  *)
(* of savers and every horizon.                                            *)
(***************************************************************************)
EXTENDS StoredExpiry, TLAPS

\* What a request of a save carries, in terms of the exact expiry.
Fits(store, op, e, sent, started) ==
    IF e = None
    THEN sent = IF store = "redis" /\ op = "rotate" THEN 0 ELSE None
    ELSE /\ sent \in Nat
         /\ store = "sql" => sent = ExpirySeconds(e)
         /\ store = "mongo" => sent = ExpiryMillis(e)
         /\ store = "redis" =>
               /\ sent > 0
               /\ e <= started + sent * TicksPerMilli
               /\ started + sent * TicksPerMilli <= e + TicksPerMilli

\* What a backend keeps, in terms of the exact expiry.
Keeps(e, deadline, delay) ==
    /\ e = None <=> deadline = None
    /\ e # None =>
         /\ backend = "sql" => deadline = ExpirySeconds(e)
         /\ backend = "mongo" => deadline = ExpiryMillis(e)
         /\ backend = "redis" =>
               /\ e < deadline * TicksPerMilli + TicksPerMilli
               /\ deadline * TicksPerMilli <= e + delay + TicksPerMilli

SavesFit ==
    \A s \in Savers : save[s].op \in {"insert", "rotate", "update"} =>
        /\ save[s].started <= clock
        /\ Fits(backend, save[s].op, save[s].expiry, save[s].sent, save[s].started)

RecordKeeps ==
    record.life = "stored" => Keeps(record.expiry, record.deadline, record.delay)

ClocksLookBack ==
    /\ cleanup.at # "idle" => backend = "sql" /\ cleanup.now <= UnixSeconds(clock)
    /\ load.at = "asked" => load.now <= UnixSeconds(clock)

Inv == TypeOK /\ SavesFit /\ RecordKeeps /\ ClocksLookBack

-----------------------------------------------------------------------------
(* Arithmetic of the conversions.                                          *)

LEMMA FloorBounds ==
  ASSUME NEW t \in Nat, NEW d \in Nat \ {0}
  PROVE  /\ t \div d \in Nat
         /\ (t \div d) * d <= t
         /\ t < (t \div d) * d + d
<1>1. t = d * (t \div d) + (t % d) /\ t % d \in 0..(d - 1) /\ t \div d \in Int
  OBVIOUS
<1>2. d * (t \div d) = (t \div d) * d
  BY <1>1
<1>3. t \div d \in Nat
  BY <1>1
<1> QED
  BY <1>1, <1>2, <1>3

\* A multiple of d that is not above t is not above t rounded down to d.
LEMMA FloorAtLeast ==
  ASSUME NEW t \in Nat, NEW d \in Nat \ {0}, NEW q \in Nat, q * d <= t
  PROVE  q <= t \div d
<1> DEFINE p == t \div d
<1>1. p \in Nat /\ t < p * d + d
  BY FloorBounds
<1> HIDE DEF p
<1>2. SUFFICES ASSUME p < q PROVE FALSE
  BY <1>1 DEF p
<1>3. (p + 1) * d <= q * d
  BY <1>1, <1>2
<1>4. (p + 1) * d = p * d + d
  BY <1>1
<1> QED
  BY <1>1, <1>3, <1>4

LEMMA FloorMonotone ==
  ASSUME NEW t \in Nat, NEW u \in Nat, t <= u, NEW d \in Nat \ {0}
  PROVE  t \div d <= u \div d
<1>1. t \div d \in Nat /\ (t \div d) * d <= t
  BY FloorBounds
<1>2. (t \div d) * d <= u
  BY <1>1
<1> QED
  BY <1>1, <1>2, FloorAtLeast

LEMMA NextMultiple ==
  ASSUME NEW q \in Nat, NEW d \in Nat
  PROVE  (q + 1) * d = q * d + d /\ q * d \in Nat
  OBVIOUS

LEMMA CeilDivBounds ==
  ASSUME NEW a \in Nat, NEW b \in Nat \ {0}
  PROVE  /\ CeilDiv(a, b) \in Nat
         /\ a <= CeilDiv(a, b) * b
         /\ CeilDiv(a, b) * b < a + b
<1> DEFINE t == a + b - 1
<1>1. t \in Nat
  OBVIOUS
<1>2. t \div b \in Nat /\ (t \div b) * b <= t /\ t < (t \div b) * b + b
  BY <1>1, FloorBounds
<1> QED
  BY <1>2 DEF CeilDiv

\* The scales are positive.
LEMMA Scales ==
  /\ TicksPerMilli \in Nat \ {0}
  /\ MillisPerSecond \in Nat
  /\ Second \in Nat \ {0}
  /\ 2 * TicksPerMilli <= Second
<1>1. TicksPerMilli \in Nat \ {0} /\ MillisPerSecond \in Nat /\ MillisPerSecond >= 2
  BY ScaleAssumption
<1>2. 2 * TicksPerMilli <= MillisPerSecond * TicksPerMilli
  BY <1>1
<1> QED
  BY <1>1, <1>2 DEF Second

\* A BSON date lies less than a millisecond above the exact expiry.
LEMMA ExpiryMillisBounds ==
  ASSUME NEW e \in Nat
  PROVE  /\ ExpiryMillis(e) \in Nat
         /\ e <= ExpiryMillis(e) * TicksPerMilli
         /\ ExpiryMillis(e) * TicksPerMilli < e + TicksPerMilli
<1> DEFINE q == e \div Second
           r == e % Second
           c == CeilDiv(r, TicksPerMilli)
<1>1. q \in Nat /\ r \in Nat /\ e = Second * q + r
  BY Scales, FloorBounds
<1>2. c \in Nat /\ r <= c * TicksPerMilli /\ c * TicksPerMilli < r + TicksPerMilli
  BY <1>1, Scales, CeilDivBounds
<1>3. ExpiryMillis(e) = q * MillisPerSecond + c
  BY DEF ExpiryMillis, UnixSeconds
<1>4. q * MillisPerSecond \in Nat
  BY <1>1, Scales
<1> HIDE DEF q, r, c
<1>5. (q * MillisPerSecond + c) * TicksPerMilli
         = Second * q + c * TicksPerMilli
  <2>1. (q * MillisPerSecond + c) * TicksPerMilli
          = (q * MillisPerSecond) * TicksPerMilli + c * TicksPerMilli
    BY <1>2, <1>4, Scales
  <2>2. (q * MillisPerSecond) * TicksPerMilli = (MillisPerSecond * TicksPerMilli) * q
    BY <1>1, Scales
  <2> QED
    BY <2>1, <2>2 DEF Second
<1> QED
  BY <1>1, <1>2, <1>3, <1>4, <1>5, Scales

\* A time to live is positive and at most a millisecond too long.
LEMMA TtlMillisBounds ==
  ASSUME NEW ticks \in Nat
  PROVE  /\ TtlMillis(ticks) \in Nat \ {0}
         /\ ticks <= TtlMillis(ticks) * TicksPerMilli
         /\ TtlMillis(ticks) * TicksPerMilli <= ticks + TicksPerMilli
<1> DEFINE c == CeilDiv(ticks, TicksPerMilli)
<1>1. c \in Nat /\ ticks <= c * TicksPerMilli /\ c * TicksPerMilli < ticks + TicksPerMilli
  BY Scales, CeilDivBounds
<1>2. TtlMillis(ticks) = IF c = 0 THEN 1 ELSE c
  BY DEF TtlMillis
<1> HIDE DEF c
<1>3. CASE c = 0
  BY <1>1, <1>2, <1>3, Scales
<1>4. CASE c # 0
  BY <1>1, <1>2, <1>4, Scales
<1> QED
  BY <1>3, <1>4

-----------------------------------------------------------------------------
(* Requests and records.                                                   *)

\* What store_session sends fits the expiry of its snapshot.
LEMMA SentFits ==
  ASSUME TypeOK, NEW op, NEW e \in Times, ~Discards(e)
  PROVE  Fits(backend, op, e, Sent(op, e), clock) /\ Sent(op, e) \in Times
<1>1. CASE e = None
  BY <1>1, NoneAssumption DEF Fits, Sent, Times
<1>2. CASE e # None /\ backend = "sql"
  <2>1. ExpirySeconds(e) \in Nat
    BY <1>2, Scales, FloorBounds DEF Times, ExpirySeconds, UnixSeconds
  <2> QED
    BY <1>2, <2>1 DEF Fits, Sent, Times
<1>3. CASE e # None /\ backend = "mongo"
  <2>1. ExpiryMillis(e) \in Nat
    BY <1>3, ExpiryMillisBounds DEF Times
  <2> QED
    BY <1>3, <2>1 DEF Fits, Sent, Times
<1>4. CASE e # None /\ backend = "redis"
  <2>1. e \in Nat /\ clock \in Nat /\ clock <= e
    BY <1>4 DEF Times, TypeOK, Discards, Expired
  <2> DEFINE m == TtlMillis(e - clock)
  <2>2. /\ m \in Nat \ {0}
        /\ e - clock <= m * TicksPerMilli
        /\ m * TicksPerMilli <= e - clock + TicksPerMilli
    <3>1. e - clock \in Nat
      BY <2>1
    <3> QED
      BY <3>1, TtlMillisBounds
  <2>3. Sent(op, e) = m
    BY <1>4 DEF Sent
  <2> HIDE DEF m
  <2>4. m * TicksPerMilli \in Nat
    BY <2>2, Scales
  <2>5. e <= clock + m * TicksPerMilli /\ clock + m * TicksPerMilli <= e + TicksPerMilli
    BY <2>1, <2>2, <2>4, Scales
  <2> QED
    BY <1>4, <2>2, <2>3, <2>5 DEF Fits, Times
<1> QED
  BY <1>1, <1>2, <1>3, <1>4 DEF TypeOK

\* What the backend makes of a fitting request keeps the expiry.
LEMMA DeadlineKeeps ==
  ASSUME TypeOK, NEW op, NEW e \in Times, NEW sent \in Times, NEW started \in Nat,
         started <= clock, Fits(backend, op, e, sent, started)
  PROVE  Keeps(e, Deadline(op, sent), clock - started) /\ Deadline(op, sent) \in Times
<1>1. CASE e = None
  BY <1>1, NoneAssumption DEF Fits, Deadline, Keeps, Times
<1>2. CASE e # None /\ backend # "redis"
  BY <1>2, NoneAssumption DEF Fits, Deadline, Keeps, Times
<1>3. CASE e # None /\ backend = "redis"
  <2> DEFINE m == UnixMillis(clock)
  <2>1. /\ sent \in Nat /\ sent > 0
        /\ e <= started + sent * TicksPerMilli
        /\ started + sent * TicksPerMilli <= e + TicksPerMilli
    BY <1>3 DEF Fits
  <2>2. clock \in Nat /\ e \in Nat
    BY <1>3 DEF TypeOK, Times
  <2>3. m \in Nat /\ m * TicksPerMilli <= clock /\ clock < m * TicksPerMilli + TicksPerMilli
    BY <2>2, Scales, FloorBounds DEF UnixMillis
  <2>4. Deadline(op, sent) = m + sent
    BY <1>3, <2>1, NoneAssumption DEF Deadline
  <2> HIDE DEF m
  <2>5. (m + sent) * TicksPerMilli = m * TicksPerMilli + sent * TicksPerMilli
    BY <2>1, <2>3, Scales
  <2>6. m * TicksPerMilli \in Nat /\ sent * TicksPerMilli \in Nat
    BY <2>1, <2>3, Scales
  <2>7. e < (m + sent) * TicksPerMilli + TicksPerMilli
    BY <2>1, <2>2, <2>3, <2>5, <2>6, Scales
  <2>8. (m + sent) * TicksPerMilli <= e + (clock - started) + TicksPerMilli
    BY <2>1, <2>2, <2>3, <2>5, <2>6, Scales
  <2> QED
    BY <1>3, <2>1, <2>3, <2>4, <2>7, <2>8, NoneAssumption DEF Keeps, Times
<1> QED
  BY <1>1, <1>2, <1>3

\* No deadline ends before the exact expiry; in SQL and Redis it has passed.
LEMMA PurgeableIsExpired ==
  ASSUME TypeOK, RecordKeeps, Purgeable
  PROVE  /\ record.expiry \in Nat /\ record.expiry <= clock
         /\ backend # "mongo" => record.expiry < clock
<1> DEFINE e == record.expiry
           d == record.deadline
<1>1. /\ clock \in Nat /\ e \in Nat /\ d \in Nat
      /\ Keeps(e, d, record.delay)
  BY DEF TypeOK, RecordStates, Times, RecordKeeps, Keeps, Purgeable
<1>2. CASE backend = "sql"
  <2>1. d = e \div Second /\ d < clock \div Second
    BY <1>1, <1>2, NoneAssumption DEF Keeps, ExpirySeconds, UnixSeconds, Purgeable
  <2>2. SUFFICES ASSUME clock <= e PROVE FALSE
    BY <1>1
  <2>3. clock \div Second <= e \div Second
    BY <1>1, <2>2, FloorMonotone, Scales
  <2>4. clock \div Second \in Nat /\ e \div Second \in Nat
    BY <1>1, FloorBounds, Scales
  <2> QED
    BY <2>1, <2>3, <2>4
<1>3. CASE backend = "redis"
  <2> DEFINE m == clock \div TicksPerMilli
  <2>1. d < m /\ e < d * TicksPerMilli + TicksPerMilli
    BY <1>1, <1>3, NoneAssumption DEF Keeps, UnixMillis, Purgeable
  <2>2. m \in Nat /\ m * TicksPerMilli <= clock
    BY <1>1, FloorBounds, Scales
  <2> HIDE DEF m
  <2>3. d * TicksPerMilli + TicksPerMilli <= m * TicksPerMilli
    <3>1. (d + 1) * TicksPerMilli <= m * TicksPerMilli
      BY <1>1, <2>1, <2>2, Scales
    <3>2. (d + 1) * TicksPerMilli = d * TicksPerMilli + TicksPerMilli
      BY <1>1, Scales
    <3> QED
      BY <3>1, <3>2
  <2>4. d * TicksPerMilli \in Nat /\ m * TicksPerMilli \in Nat
    BY <1>1, <2>2, Scales
  <2> QED
    BY <1>1, <2>1, <2>2, <2>3, <2>4, Scales
<1>4. CASE backend = "mongo"
  <2> DEFINE m == clock \div TicksPerMilli
  <2>1. d <= m /\ d = ExpiryMillis(e)
    BY <1>1, <1>4, NoneAssumption DEF Keeps, UnixMillis, Purgeable
  <2>2. m \in Nat /\ m * TicksPerMilli <= clock
    BY <1>1, FloorBounds, Scales
  <2>3. e <= d * TicksPerMilli
    BY <1>1, <2>1, ExpiryMillisBounds
  <2> HIDE DEF m
  <2>4. d * TicksPerMilli <= m * TicksPerMilli
    BY <1>1, <2>1, <2>2, Scales
  <2>5. d * TicksPerMilli \in Nat /\ m * TicksPerMilli \in Nat
    BY <1>1, <2>2, Scales
  <2> QED
    BY <1>1, <1>4, <2>2, <2>3, <2>4, <2>5
<1> QED
  BY <1>1, <1>2, <1>3, <1>4 DEF TypeOK

LEMMA PurgeableIsOutlived ==
  ASSUME TypeOK, RecordKeeps, Purgeable
  PROVE  Outlived(record.expiry)
<1>1. clock \in Nat
  BY DEF TypeOK
<1> QED
  BY <1>1, PurgeableIsExpired, NoneAssumption DEF Outlived, Expired

\* A column before a time that has passed belongs to an expired session.
LEMMA StaleIsExpired ==
  ASSUME Inv, cleanup.at # "idle", Stale
  PROVE  Purgeable
<1>1. /\ backend = "sql" /\ cleanup.now <= UnixSeconds(clock)
      /\ record.deadline < cleanup.now /\ record.deadline \in Nat
      /\ cleanup.now \in Nat /\ record.life = "stored" /\ clock \in Nat
  BY DEF Inv, ClocksLookBack, Stale, TypeOK, RecordStates, CleanupStates, Times
<1>2. UnixSeconds(clock) \in Nat
  BY <1>1, FloorBounds, Scales DEF UnixSeconds
<1> QED
  BY <1>1, <1>2, NoneAssumption DEF Purgeable

-----------------------------------------------------------------------------
(* The invariant.                                                          *)

LEMMA InitInv == Init => Inv
<1> SUFFICES ASSUME Init PROVE Inv
  OBVIOUS
<1>1. TypeOK
  BY DEF Init, TypeOK, RecordStates, SaveStates, CleanupStates, LoadStates, Times,
     Idle, NoCleanup, NoLoad
<1>2. SavesFit /\ RecordKeeps /\ ClocksLookBack
  BY DEF Init, SavesFit, RecordKeeps, ClocksLookBack, Idle, NoCleanup, NoLoad
<1> QED
  BY <1>1, <1>2 DEF Inv

\* A step that leaves the savers alone, or makes some of them idle, keeps
\* their requests fitting: time only grows.
LEMMA SavesStayFit ==
  ASSUME TypeOK, SavesFit, clock' \in Nat, clock <= clock', backend' = backend,
         \A s \in Savers : save'[s] = save[s] \/ save'[s].op \in {"idle", "discard"}
  PROVE  SavesFit'
<1> SUFFICES ASSUME NEW s \in Savers, save'[s].op \in {"insert", "rotate", "update"}
             PROVE  /\ save'[s].started <= clock'
                    /\ Fits(backend', save'[s].op, save'[s].expiry, save'[s].sent, save'[s].started)
  BY DEF SavesFit
<1>1. save'[s] = save[s]
  OBVIOUS
<1>2. /\ save[s].started <= clock /\ save[s].started \in Nat
      /\ Fits(backend, save[s].op, save[s].expiry, save[s].sent, save[s].started)
  BY <1>1 DEF SavesFit, TypeOK, SaveStates
<1> QED
  BY <1>1, <1>2 DEF Fits, TypeOK

\* So do the times that a cleanup and a load are bound to.
LEMMA ClocksStayBehind ==
  ASSUME TypeOK, ClocksLookBack, clock' \in Nat, clock <= clock', backend' = backend,
         \/ cleanup' = cleanup
         \/ cleanup'.at = "idle"
         \/ cleanup.at # "idle" /\ cleanup'.now = cleanup.now,
         load' = load \/ load'.at # "asked"
  PROVE  ClocksLookBack'
<1>1. UnixSeconds(clock) <= UnixSeconds(clock')
  BY FloorMonotone, Scales DEF UnixSeconds, TypeOK
<1>2. UnixSeconds(clock) \in Nat /\ UnixSeconds(clock') \in Nat
  BY FloorBounds, Scales DEF UnixSeconds, TypeOK
<1>3. cleanup.now \in Nat /\ load.now \in Nat
  BY DEF TypeOK, CleanupStates, LoadStates
<1> QED
  BY <1>1, <1>2, <1>3 DEF ClocksLookBack

\* A record that is removed, or stays as it is, keeps its expiry.
LEMMA RecordStays ==
  ASSUME RecordKeeps, backend' = backend, record' = record \/ record'.life # "stored"
  PROVE  RecordKeeps'
  BY DEF RecordKeeps, Keeps

LEMMA NextInv == Inv /\ [Next]_vars => Inv'
<1> SUFFICES ASSUME Inv, [Next]_vars PROVE Inv'
  OBVIOUS
<1> USE DEF Inv
<1>0. clock \in Nat
  BY DEF TypeOK
<1>1. ASSUME NEW s \in Savers, NEW op \in {"insert", "rotate", "update"},
             NEW e \in {None} \cup 0..Horizon, SendSave(s, op, e)
      PROVE  Inv'
  <2> USE <1>1
  <2>1. e \in Times
    BY HorizonAssumption DEF Times
  <2>2. record' \in RecordStates /\ record'.life \in {"claimed", record.life}
        /\ (record'.life = "stored" => record' = record)
    BY DEF SendSave, TypeOK, RecordStates
  <2>3. CASE Discards(e)
    <3>1. save' = [save EXCEPT ![s] = [Idle EXCEPT !.op = "discard"]]
      BY <2>3 DEF SendSave
    <3>2. TypeOK'
      BY <2>2, <3>1 DEF SendSave, TypeOK, SaveStates, Idle, Times
    <3>3. \A t \in Savers : save'[t] = save[t] \/ save'[t].op \in {"idle", "discard"}
      BY <3>1 DEF TypeOK, Idle
    <3> QED
      BY <1>0, <2>2, <3>2, <3>3, SavesStayFit, ClocksStayBehind, RecordStays
      DEF SendSave
  <2>4. CASE ~Discards(e)
    <3> DEFINE r == [op |-> op, expiry |-> e, sent |-> Sent(op, e), started |-> clock]
    <3>1. save' = [save EXCEPT ![s] = r]
      BY <2>4 DEF SendSave
    <3>2. Fits(backend, op, e, Sent(op, e), clock) /\ Sent(op, e) \in Times
      BY <2>1, <2>4, SentFits
    <3>3. r \in SaveStates
      BY <1>0, <2>1, <3>2 DEF SaveStates
    <3>4. TypeOK'
      BY <2>2, <3>1, <3>3 DEF SendSave, TypeOK
    <3>5. SavesFit'
      <4> SUFFICES ASSUME NEW t \in Savers,
                          save'[t].op \in {"insert", "rotate", "update"}
                   PROVE  /\ save'[t].started <= clock'
                          /\ Fits(backend', save'[t].op, save'[t].expiry,
                                  save'[t].sent, save'[t].started)
        BY DEF SavesFit
      <4>1. clock' = clock /\ backend' = backend
        BY DEF SendSave
      <4>2. CASE t = s
        BY <1>0, <3>1, <3>2, <4>1, <4>2 DEF TypeOK, Fits
      <4>3. CASE t # s
        BY <3>1, <4>1, <4>3 DEF TypeOK, SavesFit, Fits
      <4> QED
        BY <4>2, <4>3
    <3> QED
      BY <1>0, <2>2, <3>4, <3>5, ClocksStayBehind, RecordStays DEF SendSave
  <2> QED
    BY <2>3, <2>4
<1>2. ASSUME NEW s \in Savers, ExecuteSave(s) PROVE Inv'
  <2> USE <1>2
  <2> DEFINE q == save[s]
             d == Deadline(q.op, q.sent)
  <2>1. /\ q.expiry \in Times /\ q.sent \in Times /\ q.started \in Nat
        /\ q.started <= clock /\ Fits(backend, q.op, q.expiry, q.sent, q.started)
    BY DEF ExecuteSave, TypeOK, SaveStates, SavesFit
  <2>2. Keeps(q.expiry, d, clock - q.started) /\ d \in Times
    BY <2>1, DeadlineKeeps
  <2>3. clock - q.started \in Nat
    BY <1>0, <2>1
  <2>4. save' = [save EXCEPT ![s] = Idle] /\ UNCHANGED <<backend, clock, cleanup, load>>
    BY DEF ExecuteSave
  <2>5. \/ record' = record
        \/ record' = [life |-> "stored", expiry |-> q.expiry, deadline |-> d,
                      delay |-> clock - q.started]
    BY DEF ExecuteSave
  <2> HIDE DEF d
  <2>6. TypeOK'
    BY <2>1, <2>2, <2>3, <2>4, <2>5 DEF TypeOK, RecordStates, SaveStates, Idle, Times
  <2>7. RecordKeeps'
    BY <2>2, <2>4, <2>5 DEF RecordKeeps, Keeps
  <2>8. \A t \in Savers : save'[t] = save[t] \/ save'[t].op \in {"idle", "discard"}
    BY <2>4 DEF TypeOK, Idle
  <2> QED
    BY <1>0, <2>4, <2>6, <2>7, <2>8, SavesStayFit, ClocksStayBehind
<1>3. ASSUME NEW s \in Savers, ExecuteDiscard(s) \/ LoseSave(s) PROVE Inv'
  <2> USE <1>3
  <2>1. /\ save' = [save EXCEPT ![s] = Idle]
        /\ record' = record \/ record' = NoRecord
        /\ UNCHANGED <<backend, clock, cleanup, load>>
    BY DEF ExecuteDiscard, LoseSave
  <2>2. TypeOK'
    BY <2>1 DEF TypeOK, RecordStates, SaveStates, Idle, NoRecord, Times
  <2>3. \A t \in Savers : save'[t] = save[t] \/ save'[t].op \in {"idle", "discard"}
    BY <2>1 DEF TypeOK, Idle
  <2>4. record' = record \/ record'.life # "stored"
    BY <2>1 DEF NoRecord
  <2> QED
    BY <1>0, <2>1, <2>2, <2>3, <2>4, SavesStayFit, ClocksStayBehind, RecordStays
<1>4. ASSUME Remove \/ Sweep \/ DeleteStale PROVE Inv'
  <2> USE <1>4
  <2>1. /\ record' = record \/ record' = NoRecord
        /\ cleanup' = cleanup \/ cleanup' = NoCleanup
        /\ UNCHANGED <<backend, clock, save, load>>
    BY DEF Remove, Sweep, DeleteStale, RemoveStale
  <2>2. TypeOK'
    BY <2>1 DEF TypeOK, RecordStates, CleanupStates, NoCleanup, NoRecord, Times
  <2>3. /\ record' = record \/ record'.life # "stored"
        /\ cleanup' = cleanup \/ cleanup'.at = "idle"
    BY <2>1 DEF NoRecord, NoCleanup
  <2> QED
    BY <1>0, <2>1, <2>2, <2>3, SavesStayFit, ClocksStayBehind, RecordStays
<1>5. ASSUME BindCleanup PROVE Inv'
  <2> USE <1>5
  <2>1. UnixSeconds(clock) \in Nat
    BY <1>0, FloorBounds, Scales DEF UnixSeconds
  <2>2. /\ cleanup' = [at |-> "bound", now |-> UnixSeconds(clock)] /\ backend = "sql"
        /\ UNCHANGED <<backend, clock, record, save, load>>
    BY DEF BindCleanup
  <2>3. TypeOK'
    BY <2>1, <2>2 DEF TypeOK, CleanupStates
  <2>4. ClocksLookBack'
    BY <2>1, <2>2 DEF ClocksLookBack, UnixSeconds
  <2> QED
    BY <1>0, <2>2, <2>3, <2>4, SavesStayFit, RecordStays
<1>6. ASSUME SelectStale PROVE Inv'
  <2> USE <1>6
  <2>1. /\ cleanup.at = "bound"
        /\ cleanup' = [cleanup EXCEPT !.at = "chosen"] \/ cleanup' = NoCleanup
        /\ UNCHANGED <<backend, clock, record, save, load>>
    BY DEF SelectStale
  <2>2. TypeOK'
    BY <2>1 DEF TypeOK, CleanupStates, NoCleanup
  <2>3. cleanup'.at = "idle" \/ (cleanup.at # "idle" /\ cleanup'.now = cleanup.now)
    BY <2>1 DEF TypeOK, CleanupStates, NoCleanup
  <2> QED
    BY <1>0, <2>1, <2>2, <2>3, SavesStayFit, ClocksStayBehind, RecordStays
<1>7. ASSUME SendLoad PROVE Inv'
  <2> USE <1>7
  <2>1. UnixSeconds(clock) \in Nat
    BY <1>0, FloorBounds, Scales DEF UnixSeconds
  <2>2. /\ load' = [at |-> "asked", now |-> UnixSeconds(clock), expiry |-> None]
        /\ UNCHANGED <<backend, clock, record, save, cleanup>>
    BY DEF SendLoad
  <2>3. TypeOK'
    BY <2>1, <2>2 DEF TypeOK, LoadStates, Times
  <2>4. ClocksLookBack'
    BY <2>1, <2>2 DEF ClocksLookBack, UnixSeconds
  <2> QED
    BY <1>0, <2>2, <2>3, <2>4, SavesStayFit, RecordStays
<1>8. ASSUME ExecuteLoad \/ ValidateLoad PROVE Inv'
  <2> USE <1>8
  <2>1. /\ load' \in LoadStates /\ load'.at # "asked"
        /\ UNCHANGED <<backend, clock, record, save, cleanup>>
    <3>1. load \in LoadStates /\ record.expiry \in Times
      BY DEF TypeOK, RecordStates
    <3>2. CASE ExecuteLoad
      BY <3>1, <3>2 DEF ExecuteLoad, LoadStates, NoLoad, Times
    <3>3. CASE ValidateLoad
      BY <3>1, <3>3 DEF ValidateLoad, LoadStates, NoLoad, Times
    <3> QED
      BY <3>2, <3>3
  <2>2. TypeOK'
    BY <2>1 DEF TypeOK
  <2> QED
    BY <1>0, <2>1, <2>2, SavesStayFit, ClocksStayBehind, RecordStays
<1>9. ASSUME Tick PROVE Inv'
  <2> USE <1>9
  <2>1. clock' = clock + 1 /\ UNCHANGED <<backend, record, save, cleanup, load>>
    BY DEF Tick
  <2>2. TypeOK' /\ clock' \in Nat /\ clock <= clock'
    BY <1>0, <2>1 DEF TypeOK
  <2> QED
    BY <1>0, <2>1, <2>2, SavesStayFit, ClocksStayBehind, RecordStays
<1>10. CASE UNCHANGED vars
  <2> USE <1>10
  <2>1. TypeOK'
    BY DEF TypeOK, vars
  <2> QED
    BY <1>0, <2>1, SavesStayFit, ClocksStayBehind, RecordStays DEF vars
<1> QED
  BY <1>1, <1>2, <1>3, <1>4, <1>5, <1>6, <1>7, <1>8, <1>9, <1>10 DEF Next

LEMMA SpecInv == Spec => []Inv
<1> QED
  BY InitInv, NextInv, PTL DEF Spec

-----------------------------------------------------------------------------

\* Every variable of StoredExpiry keeps its type.
THEOREM StoredExpiryTypes == Spec => []TypeOK
<1>1. Inv => TypeOK
  BY DEF Inv
<1> QED
  BY <1>1, SpecInv, PTL

\* No store may remove a session for its age before its exact expiry, with
\* seconds, milliseconds and ticks of any ratio (expiry_unix,
\* expiry_datetime, ttl_millis).
THEOREM DeadlinesAreNotEarly == Spec => []DeadlineNotEarly
<1>1. Inv => DeadlineNotEarly
  BY PurgeableIsOutlived DEF Inv, DeadlineNotEarly
<1> QED
  BY <1>1, SpecInv, PTL

\* A stored session has a deadline exactly if it has an expiry: no time to
\* live of ttl_millis is taken for the zero that means none.
THEOREM DeadlinesMatchExpiries == Spec => []DeadlineIffExpiry
<1>1. Inv => DeadlineIffExpiry
  BY DEF Inv, RecordKeeps, Keeps, DeadlineIffExpiry
<1> QED
  BY <1>1, SpecInv, PTL

\* A record is removable at the latest a second after its expiry, plus the
\* time that its request was under way.
THEOREM RetentionIsBounded == Spec => []RetentionBounded
<1>1. ASSUME Inv PROVE RetentionBounded
  <2> SUFFICES ASSUME record.life = "stored", record.expiry # None,
                      clock >= record.expiry + record.delay + Second
               PROVE  Purgeable
    BY DEF RetentionBounded
  <2> DEFINE e == record.expiry
             d == record.deadline
             w == record.delay
  <2>1. /\ clock \in Nat /\ e \in Nat /\ d \in Nat /\ w \in Nat
        /\ Keeps(e, d, w)
    BY <1>1 DEF Inv, TypeOK, RecordStates, Times, RecordKeeps, Keeps
  <2>2. d # None
    BY <2>1, NoneAssumption
  <2>3. CASE backend = "sql"
    <3>1. d = e \div Second
      BY <2>1, <2>3, NoneAssumption DEF Keeps, ExpirySeconds, UnixSeconds
    <3>2. d * Second <= e
      BY <2>1, <3>1, FloorBounds, Scales
    <3>3. (d + 1) * Second = d * Second + Second /\ d * Second \in Nat
      BY <2>1, Scales, NextMultiple
    <3>4. (d + 1) * Second <= clock
      BY <2>1, <3>2, <3>3, Scales
    <3>5. d + 1 <= clock \div Second /\ clock \div Second \in Nat
      BY <2>1, <3>4, FloorAtLeast, FloorBounds, Scales
    <3> QED
      BY <2>1, <2>2, <2>3, <3>5 DEF Purgeable, UnixSeconds
  <2>4. CASE backend = "redis"
    <3>1. d * TicksPerMilli <= e + w + TicksPerMilli
      BY <2>1, <2>4, NoneAssumption DEF Keeps
    <3>2. /\ (d + 1) * TicksPerMilli = d * TicksPerMilli + TicksPerMilli
          /\ d * TicksPerMilli \in Nat
      BY <2>1, Scales, NextMultiple
    <3>3. (d + 1) * TicksPerMilli <= clock
      BY <2>1, <3>1, <3>2, Scales
    <3>4. d + 1 <= clock \div TicksPerMilli /\ clock \div TicksPerMilli \in Nat
      BY <2>1, <3>3, FloorAtLeast, FloorBounds, Scales
    <3> QED
      BY <2>1, <2>2, <2>4, <3>4 DEF Purgeable, UnixMillis
  <2>5. CASE backend = "mongo"
    <3>1. d = ExpiryMillis(e) /\ d * TicksPerMilli < e + TicksPerMilli
      BY <2>1, <2>5, NoneAssumption, ExpiryMillisBounds DEF Keeps
    <3>2. d * TicksPerMilli \in Nat
      BY <2>1, Scales
    <3>3. d * TicksPerMilli <= clock
      BY <2>1, <3>1, <3>2, Scales
    <3>4. d <= clock \div TicksPerMilli
      BY <2>1, <3>3, FloorAtLeast, Scales
    <3> QED
      BY <2>2, <2>5, <3>4 DEF Purgeable, UnixMillis
  <2> QED
    BY <1>1, <2>3, <2>4, <2>5 DEF Inv, TypeOK
<1> QED
  BY <1>1, SpecInv, PTL

\* No cleanup and no time to live removes a session that was renewed.
THEOREM OnlyExpiredAreRemoved == Spec => RemovesOnlyExpired
<1>1. ASSUME Inv, Sweep \/ DeleteStale, record' # record
      PROVE  Outlived(record.expiry)
  <2>1. Purgeable
    BY <1>1, StaleIsExpired DEF Sweep, DeleteStale, RemoveStale
  <2> QED
    BY <1>1, <2>1, PurgeableIsOutlived DEF Inv
<1> QED
  BY <1>1, SpecInv, PTL DEF RemovesOnlyExpired, Spec

\* No load misses a session that has not reached its exact expiry.
THEOREM LoadsMissNothing == Spec => LoadsMissOnlyExpired
<1>1. ASSUME Inv, [Next]_vars, load.at = "asked", load'.at = "missed",
             record.life = "stored"
      PROVE  Expired(record.expiry)
  <2>1. ~Returned(load.now)
    <3>1. load' # load
      BY <1>1
    <3>2. ExecuteLoad
      BY <1>1, <3>1 DEF Next, vars, SendSave, ExecuteSave, ExecuteDiscard, LoseSave,
         Remove, Sweep, BindCleanup, SelectStale, DeleteStale, SendLoad, ValidateLoad,
         Tick
    <3> QED
      BY <1>1, <3>2 DEF ExecuteLoad, Inv, TypeOK, LoadStates
  <2>2. CASE Present
    <3>1. /\ backend = "sql" /\ record.deadline # None
          /\ ~(record.deadline >= load.now)
      BY <2>1, <2>2 DEF Returned
    <3>2. /\ record.deadline \in Nat /\ load.now \in Nat /\ clock \in Nat
          /\ load.now <= UnixSeconds(clock) /\ UnixSeconds(clock) \in Nat
      <4>1. clock \in Nat
        BY <1>1 DEF Inv, TypeOK
      <4> QED
        BY <1>1, <3>1, <4>1, FloorBounds, Scales
        DEF Inv, TypeOK, RecordStates, LoadStates, Times, ClocksLookBack, UnixSeconds
    <3>3. Purgeable
      BY <1>1, <3>1, <3>2 DEF Purgeable
    <3> QED
      BY <1>1, <3>1, <3>2, <3>3, PurgeableIsExpired, NoneAssumption DEF Inv, Expired
  <2>3. CASE ~Present
    BY <1>1, <2>3, PurgeableIsExpired, NoneAssumption DEF Present, Inv, Expired
  <2> QED
    BY <2>2, <2>3
<1>2. Inv /\ [Next]_vars =>
        [load.at = "asked" /\ load'.at = "missed"
           => record.life # "stored" \/ Expired(record.expiry)]_vars
  BY <1>1
<1> QED
  BY <1>2, SpecInv, PTL DEF LoadsMissOnlyExpired, Spec
=============================================================================
