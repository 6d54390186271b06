------------------------ MODULE HeaderKpiCache_proofs ------------------------
(***************************************************************************)
(* Proofs about HeaderKpiCache, for any roster, whitelists and requests:   *)
(* what is answered is recent and of the caller's columns, it only         *)
(* improves, and nobody waits for a scan that is not running.              *)
(***************************************************************************)
EXTENDS HeaderKpiCache, FiniteSetTheorems, TLAPS

(***************************************************************************)
(* The inductive invariant, for an object o that holds s when the hour to  *)
(* read is t.                                                              *)
(***************************************************************************)
\* Readings are of this whitelist, and none of an hour not yet read.
ReadingsSound(s, t) ==
  /\ s.current # None =>
       /\ s.current.sig = s.sig /\ s.current.hour <= t
       /\ s.current.value \cap s.current.unread = {}
  /\ s.previous # None =>
       s.previous.sig = s.sig /\ s.previous.value \cap s.previous.unread = {}

\* The scan in flight is the newest that runs; an hour found empty is no newer.
ScansSound(o, s, running, t) ==
  /\ s.inflight # None => <<o, s.inflight>> \in running
  /\ s.emptyHour # None =>
       s.emptyHour <= t /\ (s.inflight # None => s.emptyHour <= s.inflight)
  /\ s.retriedHour # None => s.retriedHour <= t
  /\ \A h \in Hours : <<o, h>> \in running =>
       h <= t /\ (s.inflight # None => h <= s.inflight)

\* An hour found to hold values is the one held, or was superseded; it is
\* read again under retriedHour only.
CountsSound(o, s, found, t) ==
  \A h \in Hours :
    /\ found[<<o, h>>] > 0 => h < t \/ (s.current # None /\ h <= s.current.hour)
    /\ found[<<o, h>>] <= 2
    /\ found[<<o, h>>] = 2 => s.retriedHour # None /\ h <= s.retriedHour

Sound(o, s, running, found, t) ==
  ReadingsSound(s, t) /\ ScansSound(o, s, running, t) /\ CountsSound(o, s, found, t)

\* Objects are numbered from 1.
Numbered(made) == \E n \in 0..MaxStates : made = 1..n

ObjInv ==
  /\ st \in [Objects -> LayerStates \cup {None}]
  /\ live \in objects \cup {None}
  /\ scans \subseteq Objects \X Hours /\ \A x \in scans : x[1] \in objects
  /\ settled \in [Objects \X Hours -> Nat]
  /\ \A o \in Objects \ objects : \A h \in Hours : settled[<<o, h>>] = 0
  /\ Numbered(objects)
  /\ \A o \in objects : Sound(o, st[o], scans, settled, targetHourStart(now))

\* A request keeps its object, and is answered within a phase.
ReqSound(q, made, running, t) ==
  \/ q = Idle
  \/ /\ q.at \in {"waits", "reads"} /\ q.obj \in made /\ q.now \in Ticks
     /\ t = q.now \/ t = q.now + 1
     /\ q.at = "waits" => <<q.obj, targetHourStart(q.now)>> \in running

Slots == [at : {"idle", "waits", "reads"}, obj : Objects \cup {None}, now : Ticks]

ReqInv ==
  req \in [Requests -> Slots] /\ \A r \in Requests : ReqSound(req[r], objects, scans, now)

Fits(p) ==
  p.state = "hit" =>
    p.bucket.hour \in (hourFloor(p.at) - 2)..hourFloor(p.at) /\ p.bucket.sig = p.sig

IInv == now \in Ticks /\ ObjInv /\ ReqInv /\ replies \subseteq Replies /\ \A p \in replies : Fits(p)

-----------------------------------------------------------------------------
(***************************************************************************)
(* The clock.                                                              *)
(***************************************************************************)
\* The hour to read is one or two behind the hour in progress.
LEMMA Target ==
  ASSUME NEW t \in Ticks
  PROVE  /\ hourFloor(t) \in Hours /\ targetHourStart(t) \in Hours
         /\ t \in Int /\ hourFloor(t) \in Int /\ targetHourStart(t) \in Int
         /\ targetHourStart(t) >= hourFloor(t) - 2 /\ targetHourStart(t) < hourFloor(t)
<1>1. t \in Int /\ 6 <= t /\ t <= FirstTick + 2 + MaxTicks /\ MaxTicks \in Nat
  BY TicksAssumption DEF Ticks, FirstTick
<1>2. t \div 3 \in Int /\ 2 <= t \div 3 /\ t \div 3 <= (6 + 2 + MaxTicks) \div 3
  BY <1>1 DEF FirstTick
<1>3. (6 + 2 + MaxTicks) \div 3 \in Int
  BY <1>1
<1> QED
  BY <1>1, <1>2, <1>3 DEF hourFloor, targetHourStart, Hours, FirstTick

\* It never goes back, and in one phase it stays in reach of a reader.
LEMMA TargetGrows ==
  ASSUME NEW t \in Ticks, t + 1 \in Ticks
  PROVE  /\ targetHourStart(t) <= targetHourStart(t + 1)
         /\ targetHourStart(t) >= hourFloor(t + 1) - 2
         /\ hourFloor(t) >= hourFloor(t + 1) - 1 /\ hourFloor(t) <= hourFloor(t + 1)
<1>1. t \in Int
  BY Target
<1> DEFINE d == t \div 3
           m == t % 3
<1>2. d \in Int /\ m \in 0..2 /\ t = 3 * d + m
  BY <1>1
<1>3. CASE m = 2
  <2>1. (t + 1) \div 3 = d + 1 /\ (t + 1) % 3 = 0
    BY <1>1, <1>2, <1>3
  <2> QED
    BY <1>2, <1>3, <2>1 DEF hourFloor, targetHourStart
<1>4. CASE m # 2
  <2>1. (t + 1) \div 3 = d /\ (t + 1) % 3 = m + 1
    BY <1>1, <1>2, <1>4
  <2> QED
    BY <1>2, <1>4, <2>1 DEF hourFloor, targetHourStart
<1> QED
  BY <1>3, <1>4

-----------------------------------------------------------------------------
(***************************************************************************)
(* Objects and readings.                                                   *)
(***************************************************************************)
LEMMA HourInt == \A h \in Hours : h \in Int
  BY DEF Hours

LEMMA BucketFields ==
  \A b \in Buckets : /\ b # None /\ b.hour \in Hours /\ b.hour \in Int /\ b.sig \in Signatures
                     /\ b.value \subseteq Services /\ b.unread \subseteq Services
  BY NoneAssumption, HourInt DEF Buckets

LEMMA StateFields ==
  ASSUME NEW s \in LayerStates
  PROVE  /\ s # None /\ s.sig \in Signatures
         /\ s.current \in Buckets \cup {None} /\ s.previous \in Buckets \cup {None}
         /\ s.inflight \in Hours \cup {None} /\ s.emptyHour \in Hours \cup {None}
         /\ s.retriedHour \in Hours \cup {None} /\ s.emptyCurrentHour \in Hours \cup {None}
         /\ s.lastReadAt \in Ticks
  BY NoneAssumption DEF LayerStates

\* A write of one object leaves the others.
LEMMA Written ==
  ASSUME st \in [Objects -> LayerStates \cup {None}], NEW o \in Objects, NEW z \in LayerStates,
         st' = [st EXCEPT ![o] = z]
  PROVE  /\ st' \in [Objects -> LayerStates \cup {None}] /\ st'[o] = z
         /\ \A x \in Objects : x # o => st'[x] = st[x]
         /\ objects' = objects \cup {o}
<1>1. /\ st' \in [Objects -> LayerStates \cup {None}] /\ st'[o] = z
      /\ \A x \in Objects : x # o => st'[x] = st[x]
  OBVIOUS
<1>2. z # None
  BY StateFields
<1> QED
  BY <1>1, <1>2 DEF objects

\* The next number is free, and leaves no gap.
LEMMA NextNumber ==
  ASSUME Numbered(objects), Cardinality(objects) + 1 \in Objects
  PROVE  /\ Cardinality(objects) + 1 \notin objects
         /\ Numbered(objects \cup {Cardinality(objects) + 1})
<1>1. PICK n \in 0..MaxStates : objects = 1..n
  BY DEF Numbered
<1>2. n \in Nat /\ MaxStates \in Nat
  BY StatesAssumption
<1>3. Cardinality(1..n) = n
  <2>1. Cardinality(1..n) = IF 1 > n THEN 0 ELSE n - 1 + 1
    BY <1>2, FS_Interval
  <2> QED
    BY <1>2, <2>1
<1>4. Cardinality(objects) = n
  BY <1>1, <1>3
<1>5. n + 1 \in 0..MaxStates
  BY <1>2, <1>4 DEF Objects
<1>6. n + 1 \notin 1..n /\ (1..n) \cup {n + 1} = 1..(n + 1)
  BY <1>2
<1> QED
  BY <1>1, <1>4, <1>5, <1>6 DEF Numbered

\* A step that writes one object soundly, and touches only its scans.
LEMMA ObjectStep ==
  ASSUME IInv, now' = now, NEW o \in Objects, NEW z \in LayerStates,
         st' = [st EXCEPT ![o] = z], Numbered(objects \cup {o}),
         live' \in objects \cup {o, None},
         scans' \subseteq Objects \X Hours, settled' \in [Objects \X Hours -> Nat],
         \A x \in Objects, h \in Hours : x # o =>
           /\ (<<x, h>> \in scans') = (<<x, h>> \in scans)
           /\ settled'[<<x, h>>] = settled[<<x, h>>],
         Sound(o, z, scans', settled', targetHourStart(now))
  PROVE  ObjInv'
<1>1. st \in [Objects -> LayerStates \cup {None}]
  BY DEF IInv, ObjInv
<1>2. /\ st' \in [Objects -> LayerStates \cup {None}] /\ st'[o] = z
      /\ \A x \in Objects : x # o => st'[x] = st[x]
      /\ objects' = objects \cup {o}
  BY <1>1, Written
<1>3. \A x \in scans' : x[1] \in objects'
  <2> TAKE x \in scans'
  <2>1. x[1] \in Objects /\ x[2] \in Hours /\ x = <<x[1], x[2]>>
    OBVIOUS
  <2>2. x[1] # o => x \in scans
    BY <2>1
  <2> QED
    BY <1>2, <2>2 DEF IInv, ObjInv
<1>4. \A x \in Objects \ objects' : \A h \in Hours : settled'[<<x, h>>] = 0
  <2> SUFFICES ASSUME NEW x \in Objects, x \notin objects', NEW h \in Hours
               PROVE  settled'[<<x, h>>] = 0
    OBVIOUS
  <2>1. x # o /\ x \notin objects
    BY <1>2
  <2>2. settled'[<<x, h>>] = settled[<<x, h>>]
    BY <2>1
  <2> QED
    BY <2>1, <2>2 DEF IInv, ObjInv
<1>5. ASSUME NEW x \in objects' PROVE Sound(x, st'[x], scans', settled', targetHourStart(now))
  <2>1. CASE x = o
    BY <1>2, <2>1
  <2>2. CASE x # o
    <3>1. x \in objects /\ x \in Objects /\ st'[x] = st[x] /\ st[x] \in LayerStates
      BY <1>1, <1>2, <2>2 DEF objects
    <3>2. Sound(x, st[x], scans, settled, targetHourStart(now))
      BY <3>1 DEF IInv, ObjInv
    <3> DEFINE s == st[x]
    <3>3. s.inflight \in Hours \cup {None}
      BY <3>1, StateFields
    <3>4. ScansSound(x, s, scans', targetHourStart(now))
      BY <2>2, <3>1, <3>2, <3>3 DEF Sound, ScansSound
    <3>5. CountsSound(x, s, settled', targetHourStart(now))
      BY <2>2, <3>1, <3>2 DEF Sound, CountsSound
    <3> QED
      BY <3>1, <3>2, <3>4, <3>5 DEF Sound
  <2> QED
    BY <2>1, <2>2
<1>6. targetHourStart(now)' = targetHourStart(now)
  BY DEF targetHourStart, hourFloor
<1>7. live' \in objects' \cup {None} /\ Numbered(objects)'
  BY <1>2 DEF Numbered
<1> QED
  BY <1>2, <1>3, <1>4, <1>5, <1>6, <1>7 DEF ObjInv

\* A scan begins, of an hour not found yet or found once and not read again.
LEMMA Begin ==
  ASSUME IInv, NEW o \in Objects, NEW s \in LayerStates, NEW z \in LayerStates, NEW want,
         want = targetHourStart(now), Sound(o, s, scans, settled, want),
         z.sig = s.sig, z.current = s.current, z.previous \in {s.previous, None},
         z.emptyHour = s.emptyHour, z.inflight = want, z.retriedHour \in {s.retriedHour, want},
         \/ settled[<<o, want>>] = 0
         \/ settled[<<o, want>>] <= 1 /\ z.retriedHour = want,
         IF s.inflight = want THEN UNCHANGED <<scans, settled>>
         ELSE /\ scans' = scans \cup {<<o, want>>}
              /\ settled' = [settled EXCEPT ![<<o, want>>] = IF @ > 0 THEN @ + 1 ELSE @]
  PROVE  /\ scans' \subseteq Objects \X Hours /\ settled' \in [Objects \X Hours -> Nat]
         /\ scans \subseteq scans' /\ <<o, want>> \in scans'
         /\ \A x \in Objects, h \in Hours : x # o =>
              /\ (<<x, h>> \in scans') = (<<x, h>> \in scans)
              /\ settled'[<<x, h>>] = settled[<<x, h>>]
         /\ Sound(o, z, scans', settled', want)
<1>1. want \in Hours /\ want \in Int
  BY Target DEF IInv
<1>2. scans \subseteq Objects \X Hours /\ settled \in [Objects \X Hours -> Nat]
  BY DEF IInv, ObjInv
<1>3. /\ s.inflight \in Hours \cup {None} /\ s.emptyHour \in Hours \cup {None}
      /\ s.retriedHour \in Hours \cup {None} /\ want # None
  BY <1>1, NoneAssumption, StateFields
<1>4. scans' \subseteq Objects \X Hours /\ scans \subseteq scans'
  BY <1>1, <1>2
<1>5. <<o, want>> \in scans'
  BY <1>3 DEF Sound, ScansSound
<1>6. settled' \in [Objects \X Hours -> Nat]
  <2>1. settled[<<o, want>>] \in Nat
    BY <1>1, <1>2
  <2> QED
    BY <1>2, <2>1
<1>7. \A x \in Objects, h \in Hours : <<x, h>> # <<o, want>> =>
        /\ (<<x, h>> \in scans') = (<<x, h>> \in scans)
        /\ settled'[<<x, h>>] = settled[<<x, h>>]
  BY <1>2
<1>8. /\ settled'[<<o, want>>] \in {settled[<<o, want>>], settled[<<o, want>>] + 1}
      /\ settled[<<o, want>>] = 0 => settled'[<<o, want>>] = 0
  <2>1. <<o, want>> \in Objects \X Hours /\ settled[<<o, want>>] \in Nat
    BY <1>1, <1>2
  <2> QED
    BY <1>2, <2>1
<1>9. ReadingsSound(z, want)
  BY DEF Sound, ReadingsSound
<1>10. ScansSound(o, z, scans', want)
  <2>1. \A h \in Hours : <<o, h>> \in scans' => h <= want
    BY <1>1, <1>7 DEF Sound, ScansSound
  <2>2. z.emptyHour # None => z.emptyHour <= want
    BY DEF Sound, ScansSound
  <2>3. z.retriedHour # None => z.retriedHour <= want
    BY <1>1 DEF Sound, ScansSound
  <2> QED
    BY <1>5, <2>1, <2>2, <2>3 DEF ScansSound
<1>11. CountsSound(o, z, settled', want)
  <2> SUFFICES ASSUME NEW h \in Hours
               PROVE  /\ settled'[<<o, h>>] > 0 => h < want \/ (z.current # None /\ h <= z.current.hour)
                      /\ settled'[<<o, h>>] <= 2
                      /\ settled'[<<o, h>>] = 2 => z.retriedHour # None /\ h <= z.retriedHour
    BY DEF CountsSound
  <2>1. /\ settled[<<o, h>>] > 0 => h < want \/ (s.current # None /\ h <= s.current.hour)
        /\ settled[<<o, h>>] <= 2
        /\ settled[<<o, h>>] = 2 => s.retriedHour # None /\ h <= s.retriedHour
    BY DEF Sound, CountsSound
  <2>2. h \in Int /\ settled[<<o, h>>] \in Nat
    BY <1>2, HourInt
  <2>3. CASE h # want
    <3>1. settled'[<<o, h>>] = settled[<<o, h>>]
      BY <1>7, <2>3
    <3>2. s.retriedHour # None => s.retriedHour \in Int /\ s.retriedHour <= want
      BY <1>3, HourInt DEF Sound, ScansSound
    <3>3. s.retriedHour # None /\ h <= s.retriedHour => z.retriedHour # None /\ h <= z.retriedHour
      BY <1>1, <1>3, <2>2, <3>2
    <3> QED
      BY <2>1, <3>1, <3>3
  <2>4. CASE h = want
    <3>1. settled'[<<o, h>>] <= 2
      BY <1>8, <2>2, <2>4
    <3>2. settled'[<<o, h>>] > 0 => settled[<<o, h>>] > 0
      BY <1>8, <2>2, <2>4
    <3>3. settled'[<<o, h>>] = 2 => z.retriedHour = want
      BY <1>8, <2>2, <2>4
    <3> QED
      BY <1>1, <1>3, <2>1, <2>4, <3>1, <3>2, <3>3
  <2> QED
    BY <2>3, <2>4
<1> QED
  BY <1>4, <1>5, <1>6, <1>7, <1>9, <1>10, <1>11 DEF Sound

\* The hour rolls: what was current is of an earlier hour, and may be served on.
LEMMA Rolls ==
  ASSUME IInv, NEW o \in Objects, NEW s \in LayerStates, NEW want, want = targetHourStart(now),
         Sound(o, s, scans, settled, want), ~holds(s.current, want)
  PROVE  LET z == rolled(s, want)
         IN  /\ z \in LayerStates /\ z.sig = s.sig /\ z.current = None
             /\ Sound(o, z, scans, settled, want) /\ settled[<<o, want>>] = 0
<1>1. want \in Hours /\ want \in Int
  BY Target DEF IInv
<1> DEFINE p == IF s.current # None THEN s.current ELSE s.previous
           e == IF s.emptyHour = want THEN s.emptyHour ELSE None
           z == [s EXCEPT !.previous = p, !.current = None, !.emptyHour = e]
<1>2. rolled(s, want) = z
  BY DEF rolled
<1>3. /\ s.current \in Buckets \cup {None} /\ s.previous \in Buckets \cup {None}
      /\ s.inflight \in Hours \cup {None} /\ s.emptyHour \in Hours \cup {None}
      /\ s.retriedHour \in Hours \cup {None}
  BY StateFields
<1>4. p \in Buckets \cup {None} /\ e \in Hours \cup {None} /\ e \in {s.emptyHour, None}
  BY <1>3
<1>5. /\ z \in LayerStates /\ z.sig = s.sig /\ z.current = None /\ z.previous = p
      /\ z.inflight = s.inflight /\ z.emptyHour = e /\ z.retriedHour = s.retriedHour
  BY <1>4 DEF LayerStates
<1>6. s.current # None => s.current.hour \in Int /\ s.current.hour < want
  <2> SUFFICES ASSUME s.current # None PROVE s.current.hour \in Int /\ s.current.hour < want
    OBVIOUS
  <2>1. s.current.hour \in Int /\ s.current.hour # want /\ s.current.hour <= want
    BY <1>3, BucketFields DEF holds, Sound, ReadingsSound
  <2> QED
    BY <1>1, <2>1
<1> HIDE DEF z
<1>7. ReadingsSound(z, want)
  BY <1>5 DEF Sound, ReadingsSound
<1>8. ScansSound(o, z, scans, want)
  BY <1>4, <1>5 DEF Sound, ScansSound
<1>9. \A h \in Hours : settled[<<o, h>>] > 0 => h < want
  <2> TAKE h \in Hours
  <2>1. settled[<<o, h>>] > 0 => h < want \/ (s.current # None /\ h <= s.current.hour)
    BY DEF Sound, CountsSound
  <2> QED
    BY <1>1, <1>6, <2>1, HourInt
<1>10. CountsSound(o, z, settled, want)
  BY <1>5, <1>9 DEF Sound, CountsSound
<1>11. settled[<<o, want>>] = 0
  <2>1. settled[<<o, want>>] \in Nat
    BY <1>1 DEF IInv, ObjInv
  <2> QED
    BY <1>1, <1>9, <2>1
<1> QED
  BY <1>2, <1>5, <1>7, <1>8, <1>10, <1>11 DEF Sound

-----------------------------------------------------------------------------
(***************************************************************************)
(* Requests.                                                               *)
(***************************************************************************)
\* What a step may do to what is served (CurrentOnlyImproves).
Improves ==
  \A o \in Objects : st[o] # None /\ st[o].current # None /\ st'[o].current # None =>
    /\ st'[o].current.hour >= st[o].current.hour
    /\ st'[o].current.hour = st[o].current.hour =>
         st[o].current.value \subseteq st'[o].current.value

\* What is held now is served as it is.
LEMMA Kept ==
  ASSUME IInv, NEW o \in Objects, \A x \in Objects : x # o => st'[x] = st[x],
         o \in objects => st'[o].current \in {st[o].current, None}
  PROVE  Improves
<1>1. \A x \in objects : st[x].current # None => st[x].current.hour \in Int
  BY StateFields, BucketFields DEF IInv, ObjInv, objects
<1> SUFFICES ASSUME NEW x \in Objects, st[x] # None, st[x].current # None, st'[x].current # None
             PROVE  /\ st'[x].current.hour >= st[x].current.hour
                    /\ st[x].current.value \subseteq st'[x].current.value
  BY DEF Improves
<1>2. x \in objects /\ st'[x].current = st[x].current
  BY DEF objects
<1> QED
  BY <1>1, <1>2

\* The object a request takes: the one in the map, or a new and empty one.
LEMMA Taken ==
  ASSUME IInv, NEW sig \in Signatures, objectFor(sig) \in Objects
  PROVE  LET o == objectFor(sig)
             s == stateFor(sig)
         IN  /\ s \in LayerStates /\ s.sig = sig
             /\ Sound(o, s, scans, settled, targetHourStart(now))
             /\ Numbered(objects \cup {o})
             /\ o \in objects => s.current = st[o].current
<1> DEFINE o == objectFor(sig)
           s == stateFor(sig)
           T == targetHourStart(now)
<1>1. CASE reusable(sig)
  <2>1. o = live /\ live \in objects /\ s = [st[live] EXCEPT !.lastReadAt = now] /\ st[live].sig = sig
    BY <1>1 DEF objectFor, stateFor, reusable, IInv, ObjInv
  <2>2. st[live] \in LayerStates /\ Sound(o, st[live], scans, settled, T)
    BY <2>1 DEF IInv, ObjInv, objects
  <2> DEFINE q == st[live]
  <2>3. /\ s \in LayerStates /\ s.sig = q.sig /\ s.current = q.current /\ s.previous = q.previous
        /\ s.inflight = q.inflight /\ s.emptyHour = q.emptyHour /\ s.retriedHour = q.retriedHour
    BY <2>1, <2>2 DEF LayerStates, IInv
  <2>4. objects \cup {o} = objects
    BY <2>1
  <2> HIDE DEF q, s, o
  <2>5. Sound(o, s, scans, settled, T)
    BY <2>2, <2>3 DEF q, Sound, ReadingsSound, ScansSound, CountsSound
  <2> QED
    BY <2>1, <2>3, <2>4, <2>5 DEF q, s, o, IInv, ObjInv
<1>2. CASE ~reusable(sig)
  <2>1. o = Cardinality(objects) + 1 /\ s = fresh(sig)
    BY <1>2 DEF objectFor, stateFor
  <2>2. o \notin objects /\ Numbered(objects \cup {o})
    BY <2>1, NextNumber DEF IInv, ObjInv
  <2>3. /\ s \in LayerStates /\ s.sig = sig /\ s.current = None /\ s.previous = None
        /\ s.inflight = None /\ s.emptyHour = None /\ s.retriedHour = None
    BY <2>1 DEF fresh, LayerStates, IInv
  <2>4. \A h \in Hours : <<o, h>> \notin scans /\ settled[<<o, h>>] = 0
    BY <2>2 DEF IInv, ObjInv
  <2> HIDE DEF s, o
  <2>5. Sound(o, s, scans, settled, T)
    BY <2>3, <2>4 DEF Sound, ReadingsSound, ScansSound, CountsSound
  <2> QED
    BY <2>2, <2>3, <2>5 DEF s, o
<1> QED
  BY <1>1, <1>2

LEMMA RecordTypes ==
  /\ Idle \in Slots /\ Idle.at = "idle"
  /\ \A state \in {"hit", "warming", "empty", "failed"}, sig \in Signatures, b \in Buckets \cup {None} :
       now \in Ticks => reply(state, sig, b) \in Replies
<1>1. FirstTick \in Ticks
  BY TicksAssumption DEF Ticks, FirstTick
<1> QED
  BY <1>1 DEF Idle, Slots, reply, Replies

\* The requests that go on keep their object and their scan.
LEMMA RequestsStay ==
  ASSUME IInv, now' = now, objects \subseteq objects', scans \subseteq scans'
  PROVE  \A r \in Requests : ReqSound(req[r], objects', scans', now)
  BY DEF IInv, ReqInv, ReqSound

\* A hit of the hour, which may start its one re-read.
LEMMA HeldStep ==
  ASSUME IInv, NEW r \in Requests, NEW sig \in Signatures,
         NEW o, o = objectFor(sig), o \in Objects, NEW s, s = stateFor(sig),
         NEW want, want = targetHourStart(now),
         live' = o, now' = now, servesHeld(r, o, s, want)
  PROVE  IInv' /\ Improves
<1>1. /\ s \in LayerStates /\ s.sig = sig /\ Sound(o, s, scans, settled, want)
      /\ Numbered(objects \cup {o}) /\ (o \in objects => s.current = st[o].current)
  BY Taken
<1>2. st \in [Objects -> LayerStates \cup {None}]
  BY DEF IInv, ObjInv
<1>3. want \in Hours /\ want \in Int
  BY Target DEF IInv
<1>4. s.current \in Buckets /\ s.current.hour = want
  BY <1>1, StateFields DEF servesHeld, holds
<1>5. /\ ObjInv' /\ scans \subseteq scans' /\ objects \subseteq objects'
      /\ \A x \in Objects : x # o => st'[x] = st[x]
      /\ st'[o].current = s.current
  <2>1. CASE retries(s, want)
    <3> DEFINE y == [s EXCEPT !.retriedHour = want]
               z == [y EXCEPT !.inflight = want]
    <3>1. y \in LayerStates /\ y.inflight = s.inflight
      BY <1>1, <1>3 DEF LayerStates
    <3>2. /\ z \in LayerStates /\ z.sig = s.sig /\ z.current = s.current /\ z.previous = s.previous
          /\ z.emptyHour = s.emptyHour /\ z.inflight = want /\ z.retriedHour = want
      BY <1>1, <1>3 DEF LayerStates
    <3>3. beginScan(o, y, want)
      BY <2>1 DEF servesHeld
    <3>4. st' = [st EXCEPT ![o] = z]
      BY <3>3 DEF beginScan
    <3>5. IF s.inflight = want THEN UNCHANGED <<scans, settled>>
          ELSE /\ scans' = scans \cup {<<o, want>>}
               /\ settled' = [settled EXCEPT ![<<o, want>>] = IF @ > 0 THEN @ + 1 ELSE @]
      BY <3>1, <3>3 DEF beginScan
    <3> HIDE DEF y, z
    <3>6. settled[<<o, want>>] <= 1
      <4>1. settled[<<o, want>>] \in Nat
        BY <1>3 DEF IInv, ObjInv
      <4>2. s.retriedHour # want /\ s.retriedHour \in Hours \cup {None}
        BY <1>1, <2>1, StateFields DEF retries
      <4>3. /\ settled[<<o, want>>] <= 2
            /\ settled[<<o, want>>] = 2 => s.retriedHour # None /\ want <= s.retriedHour
            /\ s.retriedHour # None => s.retriedHour <= want
        BY <1>1, <1>3 DEF Sound, CountsSound, ScansSound
      <4>4. ASSUME settled[<<o, want>>] = 2 PROVE FALSE
        <5>1. s.retriedHour # None /\ want <= s.retriedHour /\ s.retriedHour <= want
          BY <4>3, <4>4
        <5>2. s.retriedHour \in Int
          BY <4>2, <5>1, HourInt
        <5> QED
          BY <1>3, <4>2, <5>1, <5>2
      <4> QED
        BY <4>1, <4>3, <4>4
    <3>7. /\ scans' \subseteq Objects \X Hours /\ settled' \in [Objects \X Hours -> Nat]
          /\ scans \subseteq scans'
          /\ \A x \in Objects, h \in Hours : x # o =>
               /\ (<<x, h>> \in scans') = (<<x, h>> \in scans)
               /\ settled'[<<x, h>>] = settled[<<x, h>>]
          /\ Sound(o, z, scans', settled', want)
      BY <1>1, <3>2, <3>5, <3>6, Begin
    <3>8. ObjInv'
      BY <1>1, <3>2, <3>4, <3>7, ObjectStep
    <3> QED
      BY <1>2, <3>2, <3>4, <3>7, <3>8, Written
  <2>2. CASE ~retries(s, want)
    <3>1. st' = [st EXCEPT ![o] = s] /\ scans' = scans /\ settled' = settled
      BY <2>2 DEF servesHeld, noScan
    <3>2. scans \subseteq Objects \X Hours /\ settled \in [Objects \X Hours -> Nat]
      BY DEF IInv, ObjInv
    <3>3. ObjInv'
      BY <1>1, <3>1, <3>2, ObjectStep
    <3> QED
      BY <1>1, <1>2, <3>1, <3>3, Written
  <2> QED
    BY <2>1, <2>2
<1>6. ReqInv'
  <2>1. req' = req
    BY DEF servesHeld
  <2> QED
    BY <1>5, <2>1, RequestsStay DEF IInv, ReqInv
<1>7. replies' = {reply("hit", s.sig, s.current)}
  BY DEF servesHeld
<1>8. replies' \subseteq Replies /\ \A p \in replies' : Fits(p)
  <2>1. reply("hit", s.sig, s.current) \in Replies
    BY <1>1, <1>4, RecordTypes DEF IInv
  <2>2. s.current.sig = s.sig
    BY <1>1, <1>4, BucketFields DEF Sound, ReadingsSound
  <2>3. want \in (hourFloor(now) - 2)..hourFloor(now)
    BY Target DEF IInv
  <2>4. Fits(reply("hit", s.sig, s.current))
    BY <1>4, <2>2, <2>3 DEF Fits, reply
  <2> QED
    BY <1>7, <2>1, <2>4
<1>9. Improves
  BY <1>1, <1>5, Kept
<1> QED
  BY <1>5, <1>6, <1>8, <1>9 DEF IInv, Fits

\* No completed hour is held: the object after its roll, with or without a scan.
LEMMA OtherObject ==
  ASSUME IInv, NEW o \in Objects, NEW s \in LayerStates, NEW want, want = targetHourStart(now),
         Sound(o, s, scans, settled, want), settled[<<o, want>>] = 0, s.current = None,
         Numbered(objects \cup {o}), live' = o, now' = now,
         NEW previous \in {s.previous, None}, NEW left, left = [s EXCEPT !.previous = previous],
         IF s.emptyHour # want THEN beginScan(o, left, want) ELSE noScan(o, left)
  PROVE  /\ ObjInv' /\ scans \subseteq scans' /\ objects' = objects \cup {o}
         /\ s.emptyHour # want \/ s.inflight # None => <<o, want>> \in scans'
         /\ \A x \in Objects : x # o => st'[x] = st[x]
         /\ st'[o].current = None
<1>1. st \in [Objects -> LayerStates \cup {None}]
  BY DEF IInv, ObjInv
<1>2. want \in Hours /\ want \in Int /\ want # None
  BY Target, NoneAssumption DEF IInv
<1>3. /\ s.previous \in Buckets \cup {None} /\ s.inflight \in Hours \cup {None}
      /\ s.emptyHour \in Hours \cup {None} /\ s.retriedHour \in Hours \cup {None}
  BY StateFields
<1>4. /\ left \in LayerStates /\ left.sig = s.sig /\ left.current = None
      /\ left.previous = previous /\ left.inflight = s.inflight
      /\ left.emptyHour = s.emptyHour /\ left.retriedHour = s.retriedHour
  BY <1>3 DEF LayerStates
<1>5. CASE s.emptyHour # want
  <2> DEFINE z == [left EXCEPT !.inflight = want]
  <2>1. /\ z \in LayerStates /\ z.sig = s.sig /\ z.current = None /\ z.previous = previous
        /\ z.emptyHour = s.emptyHour /\ z.inflight = want /\ z.retriedHour = s.retriedHour
    BY <1>2, <1>4 DEF LayerStates
  <2>2. st' = [st EXCEPT ![o] = z]
    BY <1>5 DEF beginScan
  <2>3. IF s.inflight = want THEN UNCHANGED <<scans, settled>>
        ELSE /\ scans' = scans \cup {<<o, want>>}
             /\ settled' = [settled EXCEPT ![<<o, want>>] = IF @ > 0 THEN @ + 1 ELSE @]
    BY <1>4, <1>5 DEF beginScan
  <2> HIDE DEF z
  <2>4. /\ scans' \subseteq Objects \X Hours /\ settled' \in [Objects \X Hours -> Nat]
        /\ scans \subseteq scans' /\ <<o, want>> \in scans'
        /\ \A x \in Objects, h \in Hours : x # o =>
             /\ (<<x, h>> \in scans') = (<<x, h>> \in scans)
             /\ settled'[<<x, h>>] = settled[<<x, h>>]
        /\ Sound(o, z, scans', settled', want)
    BY <2>1, <2>3, Begin
  <2>5. ObjInv'
    BY <2>1, <2>2, <2>4, ObjectStep
  <2> QED
    BY <1>1, <2>1, <2>2, <2>4, <2>5, Written
<1>6. CASE s.emptyHour = want
  <2>1. st' = [st EXCEPT ![o] = left] /\ scans' = scans /\ settled' = settled
    BY <1>6 DEF noScan
  <2>2. scans \subseteq Objects \X Hours /\ settled \in [Objects \X Hours -> Nat]
    BY DEF IInv, ObjInv
  <2>3. Sound(o, left, scans, settled, want)
    <3>1. ReadingsSound(left, want)
      BY <1>4 DEF Sound, ReadingsSound
    <3>2. ScansSound(o, left, scans, want)
      BY <1>4 DEF Sound, ScansSound
    <3>3. CountsSound(o, left, settled, want)
      BY <1>4 DEF Sound, CountsSound
    <3> QED
      BY <3>1, <3>2, <3>3 DEF Sound
  <2>4. ObjInv'
    BY <1>4, <2>1, <2>2, <2>3, ObjectStep
  <2>5. ASSUME s.inflight # None PROVE <<o, want>> \in scans'
    <3>1. s.inflight \in Hours /\ s.inflight \in Int
      BY <1>3, <2>5, HourInt
    <3>2. <<o, s.inflight>> \in scans /\ want <= s.inflight
      BY <1>2, <1>6, <2>5 DEF Sound, ScansSound
    <3>3. s.inflight <= want
      BY <3>1, <3>2 DEF Sound, ScansSound
    <3> QED
      BY <1>2, <2>1, <3>1, <3>2, <3>3
  <2> QED
    BY <1>1, <1>4, <1>6, <2>1, <2>4, <2>5, Written
<1> QED
  BY <1>5, <1>6

\* A request no completed hour answers at once is answered with the hour
\* before, waits for the scan, reads the hour in progress, or hears "empty".
LEMMA OtherStep ==
  ASSUME IInv, NEW r \in Requests, NEW sig \in Signatures,
         NEW o, o = objectFor(sig), o \in Objects, NEW s, s = stateFor(sig),
         NEW want, want = targetHourStart(now),
         live' = o, now' = now, ~holds(s.current, want), servesOther(r, o, rolled(s, want), want)
  PROVE  IInv' /\ Improves
<1>1. /\ s \in LayerStates /\ s.sig = sig /\ Sound(o, s, scans, settled, want)
      /\ Numbered(objects \cup {o})
  BY Taken
<1> DEFINE z == rolled(s, want)
           previous == IF servesPrevious(z, want) THEN z.previous ELSE None
           left == [z EXCEPT !.previous = previous]
<1>2. /\ z \in LayerStates /\ z.sig = sig /\ z.current = None
      /\ Sound(o, z, scans, settled, want) /\ settled[<<o, want>>] = 0
  BY <1>1, Rolls
<1>3. /\ IF z.emptyHour # want THEN beginScan(o, left, want) ELSE noScan(o, left)
      /\ \/ /\ previous # None
            /\ replies' = {reply("hit", z.sig, previous)}
            /\ UNCHANGED req
         \/ previous = None /\ waits(r, o, z, want)
  BY DEF servesOther
<1>4. previous \in {z.previous, None}
  OBVIOUS
<1>5. previous # None => z.previous # None /\ z.previous.hour >= hourFloor(now) - 2 /\ z.previous.hour < want
  BY DEF servesPrevious, oldest
<1> HIDE DEF z, previous
<1>6. /\ ObjInv' /\ scans \subseteq scans' /\ objects' = objects \cup {o}
      /\ z.emptyHour # want \/ z.inflight # None => <<o, want>> \in scans'
      /\ \A x \in Objects : x # o => st'[x] = st[x]
      /\ st'[o].current = None
  BY <1>1, <1>2, <1>3, <1>4, OtherObject
<1> HIDE DEF left
<1>7. Improves
  BY <1>6, Kept
<1>8. \A x \in Requests : ReqSound(req[x], objects', scans', now)
  BY <1>6, RequestsStay
<1>9. now \in Ticks /\ now = now /\ req \in [Requests -> Slots] /\ o \in objects'
  BY <1>6 DEF IInv, ReqInv
<1>10. CASE previous # None /\ replies' = {reply("hit", z.sig, previous)} /\ UNCHANGED req
  <2>1. previous \in Buckets /\ previous.sig = z.sig
    BY <1>2, <1>4, <1>10, StateFields DEF Sound, ReadingsSound
  <2>2. previous.hour \in Int /\ want \in Int /\ want < hourFloor(now) /\ hourFloor(now) \in Int
    BY <1>9, <2>1, BucketFields, Target
  <2>3. previous.hour \in (hourFloor(now) - 2)..hourFloor(now)
    BY <1>4, <1>5, <1>10, <2>2
  <2>4. reply("hit", z.sig, previous) \in Replies
    BY <1>2, <1>9, <2>1, RecordTypes
  <2>5. Fits(reply("hit", z.sig, previous))
    BY <2>1, <2>3 DEF Fits, reply
  <2>6. replies' \subseteq Replies /\ \A p \in replies' : Fits(p)
    BY <1>10, <2>4, <2>5
  <2>7. ReqInv'
    BY <1>8, <1>9, <1>10 DEF ReqInv
  <2> QED
    BY <1>6, <1>7, <1>9, <2>6, <2>7 DEF IInv, Fits
<1>11. CASE waits(r, o, z, want)
  <2>1. ASSUME NEW at \in {"waits", "reads"}, at = "waits" => <<o, want>> \in scans',
               req' = [req EXCEPT ![r] = [at |-> at, obj |-> o, now |-> now]]
        PROVE  ReqInv'
    <3> DEFINE q == [at |-> at, obj |-> o, now |-> now]
    <3>1. q \in Slots
      BY <1>9 DEF Slots
    <3>2. ReqSound(q, objects', scans', now)
      BY <1>9, <2>1 DEF ReqSound
    <3>3. req' = [req EXCEPT ![r] = q]
      BY <2>1
    <3> HIDE DEF q
    <3>4. req' \in [Requests -> Slots]
      BY <1>9, <3>1, <3>3
    <3>5. \A x \in Requests : req'[x] = IF x = r THEN q ELSE req[x]
      BY <1>9, <3>3
    <3> QED
      BY <1>8, <3>2, <3>4, <3>5 DEF ReqInv
  <2>2. CASE /\ z.emptyHour # want \/ z.inflight # None
             /\ req' = [req EXCEPT ![r] = [at |-> "waits", obj |-> o, now |-> now]]
             /\ replies' = {}
    <3>1. ReqInv'
      BY <1>6, <2>1, <2>2
    <3> QED
      BY <1>6, <1>7, <1>9, <2>2, <3>1 DEF IInv
  <2>3. CASE req' = [req EXCEPT ![r] = [at |-> "reads", obj |-> o, now |-> now]] /\ replies' = {}
    <3>1. ReqInv'
      BY <2>1, <2>3
    <3> QED
      BY <1>6, <1>7, <1>9, <2>3, <3>1 DEF IInv
  <2>4. CASE UNCHANGED req /\ replies' = {reply("empty", z.sig, None)}
    <3>1. reply("empty", z.sig, None) \in Replies
      BY <1>2, <1>9, RecordTypes
    <3>2. Fits(reply("empty", z.sig, None))
      BY DEF Fits, reply
    <3>3. replies' \subseteq Replies /\ \A p \in replies' : Fits(p)
      BY <2>4, <3>1, <3>2
    <3>4. ReqInv'
      BY <1>8, <1>9, <2>4 DEF ReqInv
    <3> QED
      BY <1>6, <1>7, <1>9, <3>3, <3>4 DEF IInv, Fits
  <2> QED
    BY <1>11, <2>2, <2>3, <2>4 DEF waits
<1> QED
  BY <1>3, <1>10, <1>11

LEMMA GetStep ==
  ASSUME IInv, NEW r \in Requests, NEW sig \in Signatures, getHeaderKpis(r, sig)
  PROVE  IInv' /\ Improves
<1> DEFINE o == objectFor(sig)
           s == stateFor(sig)
           want == targetHourStart(now)
<1>1. /\ o \in Objects /\ live' = o /\ now' = now
      /\ \/ servesHeld(r, o, s, want)
         \/ ~holds(s.current, want) /\ servesOther(r, o, rolled(s, want), want)
  BY DEF getHeaderKpis
<1> HIDE DEF o, s, want
<1>2. o = objectFor(sig) /\ s = stateFor(sig) /\ want = targetHourStart(now)
  BY DEF o, s, want
<1> QED
  BY <1>1, <1>2, HeldStep, OtherStep

-----------------------------------------------------------------------------
(***************************************************************************)
(* Scans.                                                                  *)
(***************************************************************************)
\* What becomes of s when the scan of an hour brings `value`, and resolves to b.
LandedSound(s, hour, value, b, l) ==
  /\ b \in Buckets \cup {None} /\ l \in LayerStates
  /\ l.sig = s.sig /\ l.inflight = s.inflight /\ l.retriedHour = s.retriedHour
  /\ l.previous \in {s.previous, None} /\ l.emptyHour \in {s.emptyHour, hour}
  /\ b # None => b.hour = hour /\ b.sig = s.sig /\ b.value \cap b.unread = {}
  /\ value # {} => l.current # None /\ l.current.hour >= hour
  /\ \/ l.current = s.current
     \/ /\ l.current = b /\ b # None
        /\ s.current # None =>
             s.current.hour <= hour /\ (s.current.hour = hour => s.current.value \subseteq b.value)

\* What a scan brought goes into its object: into the bucket of its own hour,
\* or in place of an older one, and never over a newer one.
LEMMA Lands ==
  ASSUME NEW o, NEW s \in LayerStates, NEW hour \in Hours, ReadingsSound(s, targetHourStart(now)),
         NEW value \in SUBSET Services, NEW unread \in SUBSET (Services \ value),
         NEW read, read = [hour |-> hour, sig |-> s.sig, value |-> value, unread |-> unread],
         NEW b, b = result(s, read), NEW l, l = landed(s, read)
  PROVE  LandedSound(s, hour, value, b, l)
<1>1. /\ s.sig \in Signatures /\ s.current \in Buckets \cup {None} /\ s.previous \in Buckets \cup {None}
      /\ s.emptyHour \in Hours \cup {None} /\ s.inflight \in Hours \cup {None}
  BY StateFields
<1>2. /\ read \in Buckets /\ read.hour = hour /\ read.sig = s.sig /\ read.value = value
      /\ read.unread = unread /\ value \cap unread = {}
  BY <1>1 DEF Buckets
<1>3. hour \in Int /\ hour >= hour
  BY HourInt
<1> DEFINE m == mergeInto(s.current, read)
<1>4. ASSUME holds(s.current, hour)
      PROVE  /\ m \in Buckets /\ m.hour = hour /\ m.sig = s.sig /\ m.value \cap m.unread = {}
             /\ s.current.value \subseteq m.value
  <2>1. /\ s.current \in Buckets /\ s.current.hour = hour /\ s.current.sig = s.sig
        /\ s.current.value \cap s.current.unread = {}
    BY <1>1, <1>4 DEF holds, ReadingsSound
  <2> DEFINE c == s.current
             v == c.value \cup value
             u == c.unread \cap unread
  <2>2. v \subseteq Services /\ u \subseteq Services /\ v \cap u = {} /\ c.value \subseteq v
    BY <1>2, <2>1, BucketFields
  <2>3. m = [c EXCEPT !.value = v, !.unread = u]
    BY <1>2 DEF mergeInto
  <2> HIDE DEF v, u
  <2>4. m \in Buckets /\ m.hour = c.hour /\ m.sig = c.sig /\ m.value = v /\ m.unread = u
    BY <2>1, <2>2, <2>3 DEF Buckets
  <2> QED
    BY <2>1, <2>2, <2>4
<1> HIDE DEF m
<1>5. b = IF holds(s.current, hour) THEN m ELSE IF value = {} THEN None ELSE read
  BY <1>2 DEF result, m
<1>6. b # None => b \in Buckets /\ b.hour = hour /\ b.sig = s.sig /\ b.value \cap b.unread = {}
  BY <1>2, <1>4, <1>5
<1>7. b = None => value = {} /\ ~holds(s.current, hour)
  BY <1>2, <1>4, <1>5, BucketFields
<1>8. CASE holds(s.current, hour) /\ value = {}
  <2>1. l = [s EXCEPT !.current = b]
    BY <1>2, <1>8 DEF landed
  <2>2. /\ l \in LayerStates /\ l.sig = s.sig /\ l.inflight = s.inflight
        /\ l.retriedHour = s.retriedHour /\ l.previous = s.previous
        /\ l.emptyHour = s.emptyHour /\ l.current = b
    BY <1>6, <2>1 DEF LayerStates
  <2>3. b # None /\ s.current.hour <= hour /\ s.current.value \subseteq b.value
    BY <1>3, <1>4, <1>5, <1>7, <1>8 DEF holds
  <2> QED
    BY <1>6, <1>8, <2>2, <2>3 DEF LandedSound
<1>9. CASE ~(holds(s.current, hour) /\ value = {}) /\ b = None
  <2> DEFINE e == IF unread = {} THEN hour ELSE s.emptyHour
  <2>1. l = [s EXCEPT !.emptyHour = e]
    BY <1>2, <1>9 DEF landed
  <2>2. e \in Hours \cup {None} /\ e \in {s.emptyHour, hour}
    BY <1>1
  <2>3. /\ l \in LayerStates /\ l.sig = s.sig /\ l.inflight = s.inflight
        /\ l.retriedHour = s.retriedHour /\ l.previous = s.previous
        /\ l.emptyHour = e /\ l.current = s.current
    BY <2>1, <2>2 DEF LayerStates
  <2> QED
    BY <1>6, <1>7, <1>9, <2>2, <2>3 DEF LandedSound
<1>10. CASE ~(holds(s.current, hour) /\ value = {}) /\ b # None /\ newer(s, hour)
  <2>1. l = s
    BY <1>2, <1>10 DEF landed
  <2>2. s.current # None /\ s.current.hour > hour /\ s.current.hour \in Int
    BY <1>1, <1>10, BucketFields DEF newer
  <2>3. s.current.hour >= hour
    BY <1>3, <2>2
  <2> QED
    BY <1>1, <1>6, <2>1, <2>2, <2>3 DEF LandedSound
<1>11. CASE ~(holds(s.current, hour) /\ value = {}) /\ b # None /\ ~newer(s, hour)
  <2>1. l = [s EXCEPT !.current = b, !.previous = None]
    BY <1>2, <1>11 DEF landed
  <2>2. /\ l \in LayerStates /\ l.sig = s.sig /\ l.inflight = s.inflight
        /\ l.retriedHour = s.retriedHour /\ l.previous = None
        /\ l.emptyHour = s.emptyHour /\ l.current = b
    BY <1>6, <1>11, <2>1 DEF LayerStates
  <2>3. ASSUME s.current # None
        PROVE  s.current.hour <= hour /\ (s.current.hour = hour => s.current.value \subseteq b.value)
    <3>1. s.current.hour \in Int /\ ~(s.current.hour > hour)
      BY <1>1, <1>11, <2>3, BucketFields DEF newer
    <3>2. s.current.hour = hour => s.current.value \subseteq b.value
      BY <1>4, <1>5, <2>3 DEF holds
    <3> QED
      BY <1>3, <3>1, <3>2
  <2>4. l.current # None /\ l.current.hour >= hour
    BY <1>3, <1>6, <1>11, <2>2
  <2> QED
    BY <1>6, <1>11, <2>2, <2>3, <2>4 DEF LandedSound
<1> QED
  BY <1>8, <1>9, <1>10, <1>11

\* finally, which does the same whether or not the scan threw
finished(l, hour) == IF l.inflight = hour THEN [l EXCEPT !.inflight = None] ELSE l

\* The scan is gone, and an hour it found values in counts as found.
removed(o, hour, value) ==
  /\ scans' = scans \ {<<o, hour>>}
  /\ settled' \in [Objects \X Hours -> Nat]
  /\ \A c \in Objects \X Hours :
       settled'[c] = IF c = <<o, hour>> /\ value # {} /\ settled[c] = 0 THEN 1 ELSE settled[c]

\* With the scan out of the way the object is sound again.
LEMMA Ends ==
  ASSUME IInv, NEW o \in objects, NEW hour \in Hours, <<o, hour>> \in scans,
         NEW b, NEW l, NEW value, LandedSound(st[o], hour, value, b, l), removed(o, hour, value)
  PROVE  /\ finished(l, hour) \in LayerStates
         /\ scans' \subseteq Objects \X Hours
         /\ \A x \in Objects, h \in Hours : x # o =>
              /\ (<<x, h>> \in scans') = (<<x, h>> \in scans)
              /\ settled'[<<x, h>>] = settled[<<x, h>>]
         /\ Sound(o, finished(l, hour), scans', settled', targetHourStart(now))
<1> DEFINE s == st[o]
           z == finished(l, hour)
           want == targetHourStart(now)
<1>0. /\ b \in Buckets \cup {None} /\ l \in LayerStates
      /\ l.sig = s.sig /\ l.inflight = s.inflight /\ l.retriedHour = s.retriedHour
      /\ l.previous \in {s.previous, None} /\ l.emptyHour \in {s.emptyHour, hour}
      /\ b # None => b.hour = hour /\ b.sig = s.sig /\ b.value \cap b.unread = {}
      /\ value # {} => l.current # None /\ l.current.hour >= hour
      /\ \/ l.current = s.current
         \/ l.current = b /\ b # None /\ (s.current # None => s.current.hour <= hour)
  BY DEF LandedSound
<1>1. o \in Objects /\ s \in LayerStates /\ Sound(o, s, scans, settled, want)
  BY DEF IInv, ObjInv, objects
<1>2. want \in Hours /\ want \in Int
  BY Target DEF IInv
<1>3. hour \in Int /\ hour # None /\ hour <= want
  BY <1>1, HourInt, NoneAssumption DEF Sound, ScansSound
<1>4. /\ s.current \in Buckets \cup {None} /\ s.inflight \in Hours \cup {None}
      /\ s.emptyHour \in Hours \cup {None} /\ s.retriedHour \in Hours \cup {None}
  BY <1>1, StateFields
<1> DEFINE f == IF l.inflight = hour THEN None ELSE l.inflight
<1>5. /\ z \in LayerStates /\ z.sig = s.sig /\ z.current = l.current /\ z.previous = l.previous
      /\ z.inflight = f /\ z.emptyHour = l.emptyHour /\ z.retriedHour = s.retriedHour
  BY <1>0 DEF LayerStates, finished
<1> HIDE DEF z, want
<1>6. scans \subseteq Objects \X Hours /\ settled \in [Objects \X Hours -> Nat]
  BY DEF IInv, ObjInv
<1>7. /\ scans' \subseteq Objects \X Hours
      /\ \A x \in Objects, h \in Hours : <<x, h>> # <<o, hour>> =>
           /\ (<<x, h>> \in scans') = (<<x, h>> \in scans)
           /\ settled'[<<x, h>>] = settled[<<x, h>>]
  BY <1>6 DEF removed
<1>8. ReadingsSound(z, want)
  BY <1>0, <1>1, <1>3, <1>5 DEF Sound, ReadingsSound
<1>9. ScansSound(o, z, scans', want)
  <2>1. z.inflight # None => z.inflight = s.inflight /\ z.inflight # hour
    BY <1>0, <1>5
  <2>2. z.inflight # None => <<o, z.inflight>> \in scans'
    BY <1>1, <2>1 DEF Sound, ScansSound, removed
  <2>3. s.inflight # None => hour <= s.inflight
    BY <1>1 DEF Sound, ScansSound
  <2>4. z.emptyHour # None =>
          z.emptyHour <= want /\ (z.inflight # None => z.emptyHour <= z.inflight)
    BY <1>0, <1>1, <1>3, <1>5, <2>1, <2>3 DEF Sound, ScansSound
  <2>5. \A h \in Hours : <<o, h>> \in scans' =>
          h <= want /\ (z.inflight # None => h <= z.inflight)
    BY <1>1, <2>1 DEF Sound, ScansSound, removed
  <2> QED
    BY <1>1, <1>5, <2>2, <2>4, <2>5 DEF Sound, ScansSound
<1>10. CountsSound(o, z, settled', want)
  <2> SUFFICES ASSUME NEW h \in Hours
               PROVE  /\ settled'[<<o, h>>] > 0 => h < want \/ (z.current # None /\ h <= z.current.hour)
                      /\ settled'[<<o, h>>] <= 2
                      /\ settled'[<<o, h>>] = 2 => z.retriedHour # None /\ h <= z.retriedHour
    BY DEF CountsSound
  <2>1. /\ settled[<<o, h>>] > 0 => h < want \/ (s.current # None /\ h <= s.current.hour)
        /\ settled[<<o, h>>] <= 2
        /\ settled[<<o, h>>] = 2 => s.retriedHour # None /\ h <= s.retriedHour
    BY <1>1 DEF Sound, CountsSound
  <2>2. h \in Int /\ settled[<<o, h>>] \in Nat
    BY <1>1, <1>6, HourInt
  <2>3. s.current # None /\ h <= s.current.hour => z.current # None /\ h <= z.current.hour
    <3> SUFFICES ASSUME s.current # None, h <= s.current.hour
                 PROVE  z.current # None /\ h <= z.current.hour
      OBVIOUS
    <3>1. s.current.hour \in Int
      BY <1>4, BucketFields
    <3> QED
      BY <1>0, <1>3, <1>5, <2>2, <3>1
  <2>4. CASE settled'[<<o, h>>] = settled[<<o, h>>]
    BY <1>5, <2>1, <2>3, <2>4
  <2>5. CASE settled'[<<o, h>>] # settled[<<o, h>>]
    <3>1. h = hour
      BY <1>1, <1>7, <2>5
    <3>2. value # {} /\ settled'[<<o, h>>] = 1
      BY <1>1, <1>6, <2>5, <3>1 DEF removed
    <3>3. z.current # None /\ h <= z.current.hour
      <4>1. l.current \in Buckets
        BY <1>0, <3>2, StateFields
      <4>2. l.current.hour \in Int /\ l.current.hour >= hour
        BY <1>0, <3>2, <4>1, BucketFields
      <4> QED
        BY <1>0, <1>3, <1>5, <3>1, <3>2, <4>2
    <3> QED
      BY <3>2, <3>3
  <2> QED
    BY <2>4, <2>5
<1> QED
  BY <1>5, <1>7, <1>8, <1>9, <1>10 DEF Sound, z, want

\* A waiting request whose scan gave nothing is told so, or reads on.
LEMMA Disappointed ==
  ASSUME now \in Ticks, NEW q, NEW s \in LayerStates
  PROVE  disappointed(q, s) \in Replies /\ Fits(disappointed(q, s))
<1>1. s.sig \in Signatures
  BY StateFields
<1>2. PICK state \in {"empty", "warming", "failed"} : disappointed(q, s) = reply(state, s.sig, None)
  BY DEF disappointed
<1>3. reply(state, s.sig, None) \in Replies
  BY <1>1, RecordTypes
<1>4. Fits(reply(state, s.sig, None))
  BY DEF Fits, reply
<1> QED
  BY <1>2, <1>3, <1>4

\* The end of a scan answers, or sends on, exactly those that wait for it.
LEMMA ScanEndsStep ==
  ASSUME IInv, NEW o \in objects, NEW hour \in Hours, <<o, hour>> \in scans,
         NEW s, s = st[o], NEW b, NEW l, NEW value, LandedSound(s, hour, value, b, l),
         NEW z, z = finished(l, hour),
         scanEnds(o, hour, b, z, value # {})
  PROVE  IInv' /\ Improves
<1>0. /\ b \in Buckets \cup {None} /\ l \in LayerStates
      /\ b # None => b.hour = hour /\ b.sig = s.sig
      /\ \/ l.current = s.current
         \/ /\ l.current = b /\ b # None
            /\ s.current # None =>
                 s.current.hour <= hour /\ (s.current.hour = hour => s.current.value \subseteq b.value)
  BY DEF LandedSound
<1>1. /\ scans' = scans \ {<<o, hour>>}
      /\ st' = [st EXCEPT ![o] = z]
      /\ settled' = [settled EXCEPT ![<<o, hour>>] = IF value # {} /\ @ = 0 THEN 1 ELSE @]
      /\ req' = [r \in Requests |->
           IF r \notin racing(o, hour) THEN req[r]
           ELSE IF b = None /\ reads(req[r], z) THEN [req[r] EXCEPT !.at = "reads"]
           ELSE Idle]
      /\ replies' = {IF b # None THEN reply("hit", s.sig, b) ELSE disappointed(req[r], z) :
                       r \in {x \in racing(o, hour) : b # None \/ ~reads(req[x], z)}}
      /\ now' = now /\ live' = live
  BY DEF scanEnds, target
<1>2. /\ o \in Objects /\ s \in LayerStates /\ st \in [Objects -> LayerStates \cup {None}]
      /\ ReadingsSound(s, targetHourStart(now))
  BY DEF IInv, ObjInv, objects, Sound
<1>3. /\ z \in LayerStates /\ z.sig = s.sig /\ z.current = l.current
      /\ scans' \subseteq Objects \X Hours /\ settled' \in [Objects \X Hours -> Nat]
      /\ \A x \in Objects, h \in Hours : x # o =>
           /\ (<<x, h>> \in scans') = (<<x, h>> \in scans)
           /\ settled'[<<x, h>>] = settled[<<x, h>>]
      /\ Sound(o, z, scans', settled', targetHourStart(now))
  <2>1. LandedSound(st[o], hour, value, b, l) /\ s = st[o] /\ z = finished(l, hour)
    OBVIOUS
  <2>2. removed(o, hour, value)
    <3>1. settled \in [Objects \X Hours -> Nat] /\ <<o, hour>> \in Objects \X Hours
      BY <1>2 DEF IInv, ObjInv
    <3>2. settled[<<o, hour>>] \in Nat
      BY <3>1
    <3> QED
      BY <1>1, <3>1, <3>2 DEF removed
  <2>3. z \in LayerStates /\ scans' \subseteq Objects \X Hours
    BY <2>1, <2>2, Ends
  <2>4. z.sig = s.sig /\ z.current = l.current
    BY <1>0 DEF finished, LandedSound, LayerStates
  <2>5. Sound(o, z, scans', settled', targetHourStart(now))
    BY <2>1, <2>2, Ends
  <2>6. \A x \in Objects, h \in Hours : x # o =>
          /\ (<<x, h>> \in scans') = (<<x, h>> \in scans)
          /\ settled'[<<x, h>>] = settled[<<x, h>>]
    BY <2>1, <2>2, Ends
  <2> QED
    BY <2>2, <2>3, <2>4, <2>5, <2>6 DEF removed
<1>4. objects \cup {o} = objects /\ live' \in objects \cup {o, None} /\ Numbered(objects)
  BY <1>1 DEF IInv, ObjInv
<1>12. Numbered(objects \cup {o})
  BY <1>4
<1>5. ObjInv'
  BY <1>1, <1>2, <1>3, <1>4, <1>12, ObjectStep
<1>6. objects' = objects /\ st'[o] = z /\ \A x \in Objects : x # o => st'[x] = st[x]
  BY <1>1, <1>2, <1>3, <1>4, Written
<1>7. now \in Ticks /\ req \in [Requests -> Slots]
  BY DEF IInv, ReqInv
<1>8. ReqInv'
  <2> SUFFICES ASSUME NEW r \in Requests
               PROVE  req'[r] \in Slots /\ ReqSound(req'[r], objects, scans', now)
    BY <1>1, <1>6 DEF ReqInv
  <2> DEFINE q == req[r]
  <2>1. q \in Slots /\ ReqSound(q, objects, scans, now)
    BY <1>7 DEF IInv, ReqInv
  <2>2. CASE r \notin racing(o, hour)
    <3>1. req'[r] = q
      BY <1>1, <2>2
    <3>2. q.at = "waits" => <<q.obj, targetHourStart(q.now)>> # <<o, hour>>
      BY <2>2 DEF racing
    <3> QED
      BY <1>1, <2>1, <3>1, <3>2, RecordTypes DEF ReqSound
  <2>3. CASE r \in racing(o, hour) /\ b = None /\ reads(req[r], z)
    <3>1. req'[r] = [q EXCEPT !.at = "reads"] /\ q.at = "waits"
      BY <1>1, <2>3 DEF racing
    <3>2. /\ req'[r] \in Slots /\ req'[r].at = "reads" /\ req'[r].obj = q.obj
          /\ req'[r].now = q.now
      BY <2>1, <3>1 DEF Slots
    <3> QED
      BY <2>1, <3>1, <3>2, RecordTypes DEF ReqSound
  <2>4. CASE r \in racing(o, hour) /\ ~(b = None /\ reads(req[r], z))
    <3>1. req'[r] = Idle
      BY <1>1, <2>4
    <3> QED
      BY <3>1, RecordTypes DEF ReqSound
  <2> QED
    BY <2>2, <2>3, <2>4
<1>9. ASSUME NEW p \in replies' PROVE p \in Replies /\ Fits(p)
  <2>1. PICK r \in racing(o, hour) :
          p = IF b # None THEN reply("hit", s.sig, b) ELSE disappointed(req[r], z)
    BY <1>1
  <2>2. CASE b = None
    BY <1>3, <1>7, <2>1, <2>2, Disappointed
  <2>3. CASE b # None
    <3>1. p = reply("hit", s.sig, b) /\ s.sig \in Signatures
      BY <1>2, <2>1, <2>3, StateFields
    <3>2. p \in Replies
      BY <1>0, <1>7, <3>1, RecordTypes
    <3> DEFINE t == req[r].now
    <3>3. req[r].at = "waits" /\ targetHourStart(t) = hour /\ r \in Requests
      BY DEF racing
    <3>4. t \in Ticks /\ (now = t \/ now = t + 1)
      BY <3>3, RecordTypes DEF IInv, ReqInv, ReqSound
    <3>5. hour \in Int /\ hour >= hourFloor(now) - 2 /\ hour <= hourFloor(now)
      <4>1. CASE now = t
        BY <1>7, <3>3, <4>1, Target
      <4>2. CASE now = t + 1
        <5>1. targetHourStart(t) >= hourFloor(now) - 2 /\ hourFloor(t) <= hourFloor(now)
          BY <1>7, <3>4, <4>2, TargetGrows
        <5>2. /\ targetHourStart(t) < hourFloor(t) /\ targetHourStart(t) \in Int
              /\ hourFloor(t) \in Int /\ hourFloor(now) \in Int
          BY <1>7, <3>4, Target
        <5> QED
          BY <3>3, <5>1, <5>2
      <4> QED
        BY <3>4, <4>1, <4>2
    <3>6. hour \in (hourFloor(now) - 2)..hourFloor(now)
      BY <1>7, <3>5, Target
    <3>7. Fits(p)
      BY <1>0, <2>3, <3>1, <3>6 DEF Fits, reply
    <3> QED
      BY <3>2, <3>7
  <2> QED
    BY <2>2, <2>3
<1>10. Improves
  <2> SUFFICES ASSUME NEW x \in Objects, st[x] # None, st[x].current # None, st'[x].current # None
               PROVE  /\ st'[x].current.hour >= st[x].current.hour
                      /\ st'[x].current.hour = st[x].current.hour =>
                           st[x].current.value \subseteq st'[x].current.value
    BY DEF Improves
  <2>1. st[x].current \in Buckets /\ st[x].current.hour \in Int
    BY <1>2, StateFields, BucketFields
  <2>2. CASE x # o
    <3>1. st'[x] = st[x]
      BY <1>6, <2>2
    <3> QED
      BY <2>1, <3>1
  <2>3. CASE x = o
    <3>1. st[x] = s /\ st'[x].current = l.current
      BY <1>3, <1>6, <2>3
    <3>2. CASE l.current = s.current
      BY <2>1, <3>1, <3>2
    <3>3. CASE l.current # s.current
      <4>1. /\ l.current = b /\ b # None /\ b.hour = hour /\ hour \in Int
            /\ s.current.hour <= hour /\ (s.current.hour = hour => s.current.value \subseteq b.value)
        BY <1>0, <3>1, <3>3, HourInt
      <4> QED
        BY <2>1, <3>1, <4>1
    <3> QED
      BY <3>2, <3>3
  <2> QED
    BY <2>2, <2>3
<1>11. now' \in Ticks /\ replies' \subseteq Replies /\ \A p \in replies' : Fits(p)
  BY <1>1, <1>7, <1>9
<1> QED
  BY <1>5, <1>8, <1>10, <1>11 DEF IInv, Fits

LEMMA ScanStep ==
  ASSUME IInv, NEW x \in scans, scanLands(x[1], x[2]) \/ scanThrows(x[1], x[2])
  PROVE  IInv' /\ Improves
<1> DEFINE o == x[1]
           hour == x[2]
           s == st[o]
<1>1. o \in objects /\ hour \in Hours /\ <<o, hour>> \in scans
  BY DEF IInv, ObjInv
<1>2. s \in LayerStates /\ ReadingsSound(s, targetHourStart(now))
  BY <1>1 DEF IInv, ObjInv, objects, Sound
<1>3. CASE scanLands(o, hour)
  <2>1. PICK value \in SUBSET Services : \E unread \in SUBSET (Services \ value) :
          LET read == [hour |-> hour, sig |-> s.sig, value |-> value, unread |-> unread]
          IN  scanEnds(o, hour, result(s, read), finally(landed(s, read), hour, FALSE), value # {})
    BY <1>3 DEF scanLands, target
  <2>2. PICK unread \in SUBSET (Services \ value) :
          LET read == [hour |-> hour, sig |-> s.sig, value |-> value, unread |-> unread]
          IN  scanEnds(o, hour, result(s, read), finally(landed(s, read), hour, FALSE), value # {})
    BY <2>1
  <2> DEFINE read == [hour |-> hour, sig |-> s.sig, value |-> value, unread |-> unread]
             b == result(s, read)
             l == landed(s, read)
             z == finally(l, hour, FALSE)
  <2>3. scanEnds(o, hour, b, z, value # {})
    BY <2>2
  <2>4. read = [hour |-> hour, sig |-> s.sig, value |-> value, unread |-> unread]
        /\ b = result(s, read) /\ l = landed(s, read)
    OBVIOUS
  <2> HIDE DEF read, b, l, o, hour, s
  <2>5. LandedSound(s, hour, value, b, l)
    BY <1>1, <1>2, <2>4, Lands
  <2>6. s = st[o] /\ z = finished(l, hour)
    BY DEF s, finally, finished
  <2> HIDE DEF z
  <2> QED
    BY <1>1, <2>3, <2>5, <2>6, ScanEndsStep
<1>4. CASE scanThrows(o, hour)
  <2> DEFINE z == finally(s, hour, TRUE)
  <2>1. scanEnds(o, hour, None, z, {} # {})
    BY <1>4 DEF scanThrows, target, scanEnds
  <2>2. s = st[o] /\ z = finished(s, hour)
    BY DEF finally, finished
  <2>3. LandedSound(s, hour, {}, None, s)
    BY <1>2 DEF LandedSound
  <2> HIDE DEF z, s, o, hour
  <2> QED
    BY <1>1, <2>1, <2>2, <2>3, ScanEndsStep
<1> QED
  BY <1>3, <1>4

-----------------------------------------------------------------------------
(***************************************************************************)
(* The other steps.                                                        *)
(***************************************************************************)
\* What holds of the objects depends on nothing else.
LEMMA ObjectsSame ==
  ASSUME IInv, UNCHANGED <<now, st, live, scans, settled>>
  PROVE  ObjInv' /\ objects' = objects /\ now' \in Ticks
<1>1. objects' = objects
  BY DEF objects
<1>2. targetHourStart(now)' = targetHourStart(now)
  BY DEF targetHourStart, hourFloor
<1>3. ObjInv'
  BY <1>1, <1>2 DEF IInv, ObjInv, Sound, ReadingsSound, ScansSound, CountsSound, Numbered
<1> QED
  BY <1>1, <1>3 DEF IInv

\* One slot changes.
LEMMA SlotStep ==
  ASSUME IInv, now' = now, objects \subseteq objects', scans' = scans,
         NEW r \in Requests, NEW q \in Slots, ReqSound(q, objects', scans', now),
         req' = [req EXCEPT ![r] = q]
  PROVE  ReqInv'
<1>1. req \in [Requests -> Slots]
  BY DEF IInv, ReqInv
<1>2. req' \in [Requests -> Slots] /\ \A x \in Requests : req'[x] = IF x = r THEN q ELSE req[x]
  BY <1>1
<1>3. \A x \in Requests : ReqSound(req[x], objects', scans', now)
  BY RequestsStay
<1> QED
  BY <1>2, <1>3 DEF ReqInv

\* A request that is not idle has an object, and its time.
LEMMA Asking ==
  ASSUME IInv, NEW r \in Requests, req[r].at # "idle"
  PROVE  /\ req[r] \in Slots /\ ReqSound(req[r], objects, scans, now)
         /\ req[r].obj \in objects /\ st[req[r].obj] \in LayerStates
         /\ req[r].now \in Ticks /\ (now = req[r].now \/ now = req[r].now + 1)
<1>1. req[r] \in Slots /\ ReqSound(req[r], objects, scans, now)
  BY DEF IInv, ReqInv
<1>2. /\ req[r].obj \in objects /\ req[r].now \in Ticks
      /\ now = req[r].now \/ now = req[r].now + 1
  BY <1>1, RecordTypes DEF ReqSound
<1> QED
  BY <1>1, <1>2 DEF IInv, ObjInv, objects

LEMMA WaitStep ==
  ASSUME IInv, NEW r \in Requests, waitEnds(r)
  PROVE  IInv'
<1> DEFINE q == req[r]
           s == st[q.obj]
<1>1. q.at = "waits" /\ UNCHANGED <<now, st, live, scans, settled>>
  BY DEF waitEnds
<1>2. /\ q \in Slots /\ ReqSound(q, objects, scans, now) /\ s \in LayerStates
      /\ q.obj \in objects /\ q.now \in Ticks
      /\ now = q.now \/ now = q.now + 1
  BY <1>1, Asking
<1>3. ObjInv' /\ objects' = objects /\ now' \in Ticks /\ now \in Ticks
  BY <1>1, ObjectsSame DEF IInv
<1>4. CASE req' = [req EXCEPT ![r].at = "reads"] /\ replies' = {}
  <2> DEFINE y == [q EXCEPT !.at = "reads"]
  <2>1. y \in Slots /\ y.at = "reads" /\ y.obj = q.obj /\ y.now = q.now
    BY <1>2 DEF Slots
  <2>2. req' = [req EXCEPT ![r] = y]
    BY <1>4
  <2> HIDE DEF y
  <2>3. ReqSound(y, objects', scans', now)
    BY <1>2, <1>3, <2>1 DEF ReqSound
  <2>4. ReqInv'
    BY <1>1, <1>3, <2>1, <2>2, <2>3, SlotStep
  <2> QED
    BY <1>3, <1>4, <2>4 DEF IInv
<1>5. CASE req' = [req EXCEPT ![r] = Idle] /\ replies' = {disappointed(q, s)}
  <2>1. ReqSound(Idle, objects', scans', now)
    BY DEF ReqSound
  <2>2. ReqInv'
    BY <1>1, <1>3, <1>5, <2>1, SlotStep, RecordTypes
  <2>3. replies' \subseteq Replies /\ \A p \in replies' : Fits(p)
    BY <1>2, <1>3, <1>5, Disappointed
  <2> QED
    BY <1>3, <2>2, <2>3 DEF IInv, Fits
<1> QED
  BY <1>4, <1>5 DEF waitEnds

\* The hour in progress is read for one request and not kept.
LEMMA CurrentHourStep ==
  ASSUME IInv, NEW r \in Requests, currentHourRead(r)
  PROVE  IInv' /\ Improves
<1> DEFINE q == req[r]
           o == q.obj
           s == st[o]
           hour == hourFloor(q.now)
<1>1. /\ q.at = "reads" /\ req' = [req EXCEPT ![r] = Idle]
      /\ UNCHANGED <<now, live, scans, settled>>
  BY DEF currentHourRead
<1>2. /\ q \in Slots /\ ReqSound(q, objects, scans, now) /\ s \in LayerStates
      /\ o \in objects /\ q.now \in Ticks
      /\ now = q.now \/ now = q.now + 1
  BY <1>1, Asking
<1>3. now \in Ticks /\ st \in [Objects -> LayerStates \cup {None}] /\ o \in Objects
  BY <1>2 DEF IInv, ObjInv, objects
<1>4. s.sig \in Signatures /\ s.emptyCurrentHour \in Hours \cup {None}
  BY <1>2, StateFields
<1>5. hour \in Hours /\ hour \in (hourFloor(now) - 2)..hourFloor(now)
  <2>1. hour \in Hours /\ hour \in Int /\ hourFloor(now) \in Int
    BY <1>2, <1>3, Target
  <2>2. CASE now = q.now
    BY <2>1, <2>2
  <2>3. CASE now = q.now + 1
    <3>1. hour >= hourFloor(now) - 1 /\ hour <= hourFloor(now)
      BY <1>2, <1>3, <2>3, TargetGrows
    <3> QED
      BY <2>1, <3>1
  <2> QED
    BY <1>2, <2>1, <2>2, <2>3
<1>6. ReqSound(Idle, objects', scans', now)
  BY DEF ReqSound
<1>7. \A state \in {"empty", "failed"} :
        reply(state, s.sig, None) \in Replies /\ Fits(reply(state, s.sig, None))
  BY <1>3, <1>4, RecordTypes DEF Fits, reply
<1>8. CASE UNCHANGED st
  <2>1. ObjInv' /\ objects' = objects /\ now' \in Ticks
    BY <1>1, <1>8, ObjectsSame
  <2>2. ReqInv'
    BY <1>1, <1>6, <2>1, SlotStep, RecordTypes
  <2>3. Improves
    BY <1>8, <1>3, <1>2, Kept
  <2>4. ASSUME NEW value \in SUBSET Services, NEW unread \in SUBSET (Services \ value)
        PROVE  LET p == reply("hit", s.sig,
                          [hour |-> hour, sig |-> s.sig, value |-> value, unread |-> unread])
               IN  p \in Replies /\ Fits(p)
    <3> DEFINE b == [hour |-> hour, sig |-> s.sig, value |-> value, unread |-> unread]
    <3>1. b \in Buckets /\ b.hour = hour /\ b.sig = s.sig
      BY <1>4, <1>5 DEF Buckets
    <3> HIDE DEF b, hour
    <3>2. reply("hit", s.sig, b) \in Replies
      BY <1>3, <1>4, <3>1, RecordTypes
    <3>3. Fits(reply("hit", s.sig, b))
      BY <1>5, <3>1 DEF Fits, reply
    <3> QED
      BY <3>2, <3>3 DEF b, hour
  <2>5. \E p \in Replies : replies' = {p} /\ Fits(p)
    <3>1. CASE \E value \in SUBSET Services \ {{}} : \E unread \in SUBSET (Services \ value) :
                 replies' = {reply("hit", s.sig,
                   [hour |-> hour, sig |-> s.sig, value |-> value, unread |-> unread])}
      BY <2>4, <3>1
    <3>2. CASE \E state \in {"empty", "failed"} : replies' = {reply(state, s.sig, None)}
      BY <1>7, <3>2
    <3> QED
      BY <1>8, <3>1, <3>2 DEF currentHourRead
  <2> QED
    BY <2>1, <2>2, <2>3, <2>5 DEF IInv, Fits
<1>9. CASE replies' = {reply("empty", s.sig, None)} /\ st' = [st EXCEPT ![o].emptyCurrentHour = hour]
  <2> DEFINE z == [s EXCEPT !.emptyCurrentHour = hour]
  <2>1. /\ z \in LayerStates /\ z.sig = s.sig /\ z.current = s.current /\ z.previous = s.previous
        /\ z.inflight = s.inflight /\ z.emptyHour = s.emptyHour /\ z.retriedHour = s.retriedHour
    BY <1>2, <1>5 DEF LayerStates
  <2>2. st' = [st EXCEPT ![o] = z]
    BY <1>9
  <2> HIDE DEF z
  <2>3. Sound(o, s, scans, settled, targetHourStart(now))
    BY <1>2 DEF IInv, ObjInv
  <2>4. Sound(o, z, scans, settled, targetHourStart(now))
    BY <2>1, <2>3 DEF Sound, ReadingsSound, ScansSound, CountsSound
  <2>5. /\ objects \cup {o} = objects /\ live' \in objects \cup {o, None} /\ Numbered(objects)
        /\ scans \subseteq Objects \X Hours /\ settled \in [Objects \X Hours -> Nat]
    BY <1>1, <1>2 DEF IInv, ObjInv
  <2>6. Numbered(objects \cup {o})
    BY <2>5
  <2> HIDE DEF o, s, hour
  <2>7. ObjInv'
    BY <1>1, <1>3, <2>1, <2>2, <2>4, <2>5, <2>6, ObjectStep
  <2>8. objects' = objects /\ st'[o] = z /\ \A x \in Objects : x # o => st'[x] = st[x]
    BY <1>3, <2>1, <2>2, <2>5, Written
  <2>9. ReqInv'
    BY <1>1, <1>6, <2>8, SlotStep, RecordTypes
  <2>10. Improves
    BY <1>3, <2>1, <2>8, Kept DEF s
  <2>11. replies' \subseteq Replies /\ \A p \in replies' : Fits(p)
    BY <1>7, <1>9
  <2> QED
    BY <1>1, <1>3, <2>7, <2>9, <2>10, <2>11 DEF IInv, Fits
<1> QED
  BY <1>8, <1>9 DEF currentHourRead

LEMMA EvictStep ==
  ASSUME IInv, evicted
  PROVE  IInv'
<1>1. live' = None /\ replies' = {} /\ UNCHANGED <<now, st, scans, req, settled>>
  BY DEF evicted
<1>2. objects' = objects /\ targetHourStart(now)' = targetHourStart(now)
  BY <1>1 DEF objects, targetHourStart, hourFloor
<1>3. ObjInv'
  BY <1>1, <1>2 DEF IInv, ObjInv, Sound, ReadingsSound, ScansSound, CountsSound, Numbered
<1>4. ReqInv'
  BY <1>1, <1>2 DEF IInv, ReqInv, ReqSound
<1> QED
  BY <1>1, <1>3, <1>4 DEF IInv

\* An hour that was read stays read.
LEMMA TickStep ==
  ASSUME IInv, tick
  PROVE  IInv'
<1>1. /\ now' = now + 1 /\ now < FirstTick + MaxTicks /\ replies' = {}
      /\ \A r \in Requests : req[r] = Idle \/ req[r].now = now
      /\ UNCHANGED <<st, live, scans, req, settled>>
  BY DEF tick
<1>2. now \in Ticks /\ now \in Int /\ now + 1 \in Ticks
  BY <1>1, TicksAssumption DEF IInv, Ticks, FirstTick
<1> DEFINE t == targetHourStart(now)
           u == targetHourStart(now + 1)
<1>3. t \in Int /\ u \in Int /\ t <= u
  BY <1>2, Target, TargetGrows
<1>4. targetHourStart(now)' = u
  BY <1>1 DEF targetHourStart, hourFloor
<1>5. objects' = objects
  BY <1>1 DEF objects
<1> HIDE DEF t, u
<1>6. ASSUME NEW o \in objects PROVE Sound(o, st[o], scans, settled, u)
  <2> DEFINE s == st[o]
  <2>1. s \in LayerStates /\ Sound(o, s, scans, settled, t)
    BY DEF IInv, ObjInv, objects, t
  <2>2. /\ s.current \in Buckets \cup {None} /\ s.emptyHour \in Hours \cup {None}
        /\ s.retriedHour \in Hours \cup {None}
    BY <2>1, StateFields
  <2> HIDE DEF s
  <2>3. \A h \in Hours : h \in Int /\ (h <= t => h <= u) /\ (h < t => h < u)
    BY <1>3, HourInt
  <2>4. s.current # None => s.current.hour \in Hours
    BY <2>2, BucketFields
  <2>5. ReadingsSound(s, u)
    BY <2>1, <2>3, <2>4 DEF Sound, ReadingsSound
  <2>6. ScansSound(o, s, scans, u)
    BY <2>1, <2>2, <2>3 DEF Sound, ScansSound
  <2>7. CountsSound(o, s, settled, u)
    BY <2>1, <2>3 DEF Sound, CountsSound
  <2> QED
    BY <2>5, <2>6, <2>7 DEF Sound, s
<1>7. ObjInv'
  BY <1>1, <1>4, <1>5, <1>6 DEF IInv, ObjInv, Numbered
<1>8. ReqInv'
  <2> SUFFICES ASSUME NEW r \in Requests PROVE ReqSound(req[r], objects, scans, now + 1)
    BY <1>1, <1>5 DEF IInv, ReqInv
  <2>1. ReqSound(req[r], objects, scans, now)
    BY DEF IInv, ReqInv
  <2> QED
    BY <1>1, <2>1 DEF ReqSound
<1> QED
  BY <1>1, <1>2, <1>7, <1>8 DEF IInv

-----------------------------------------------------------------------------
(***************************************************************************)
(* The theorems.                                                           *)
(***************************************************************************)
LEMMA InitInv == Init => IInv
<1> SUFFICES ASSUME Init PROVE IInv
  OBVIOUS
<1>1. now \in Ticks
  BY TicksAssumption DEF Init, Ticks, FirstTick
<1>2. objects = {} /\ Numbered(objects)
  <2>1. objects = {}
    BY DEF Init, objects
  <2>2. 0 \in 0..MaxStates /\ 1..0 = {}
    BY StatesAssumption
  <2> QED
    BY <2>1, <2>2 DEF Numbered
<1>3. ObjInv
  BY <1>2 DEF Init, ObjInv
<1>4. ReqInv
  BY RecordTypes DEF Init, ReqInv, ReqSound
<1> QED
  BY <1>1, <1>3, <1>4 DEF IInv, Init

LEMMA NextInv == IInv /\ [Next]_vars => IInv' /\ [Improves]_st
<1> SUFFICES ASSUME IInv, [Next]_vars PROVE IInv' /\ [Improves]_st
  OBVIOUS
<1>1. ASSUME NEW r \in Requests, NEW sig \in Signatures, getHeaderKpis(r, sig)
      PROVE  IInv' /\ Improves
  BY <1>1, GetStep
<1>2. ASSUME NEW r \in Requests, waitEnds(r) PROVE IInv' /\ UNCHANGED st
  BY <1>2, WaitStep DEF waitEnds
<1>3. ASSUME NEW r \in Requests, currentHourRead(r) PROVE IInv' /\ Improves
  BY <1>3, CurrentHourStep
<1>4. ASSUME NEW x \in scans, scanLands(x[1], x[2]) \/ scanThrows(x[1], x[2])
      PROVE  IInv' /\ Improves
  BY <1>4, ScanStep
<1>5. ASSUME evicted PROVE IInv' /\ UNCHANGED st
  BY <1>5, EvictStep DEF evicted
<1>6. ASSUME tick PROVE IInv' /\ UNCHANGED st
  BY <1>6, TickStep DEF tick
<1>7. ASSUME UNCHANGED vars PROVE IInv' /\ UNCHANGED st
  <2>1. UNCHANGED <<now, st, live, scans, req, replies, settled>>
    BY <1>7 DEF vars
  <2>2. ObjInv' /\ objects' = objects /\ now' \in Ticks
    BY <2>1, ObjectsSame
  <2>3. ReqInv'
    BY <2>1, <2>2 DEF IInv, ReqInv, ReqSound
  <2> QED
    BY <2>1, <2>2, <2>3 DEF IInv
<1> QED
  BY <1>1, <1>2, <1>3, <1>4, <1>5, <1>6, <1>7 DEF Next

LEMMA Invariance == Spec => []IInv
<1>1. IInv /\ [Next]_vars => IInv'
  BY NextInv
<1> QED
  BY InitInv, <1>1, PTL DEF Spec

\* Objects, scans, requests and replies keep their types, and no service is
\* both measured and unread (the LayerState and Bucket of header-kpi-cache.ts).
THEOREM TypeCorrect == Spec => []TypeOK
<1>1. IInv => TypeOK
  <2> SUFFICES ASSUME IInv PROVE TypeOK
    OBVIOUS
  <2>1. live \in Objects \cup {None}
    BY DEF IInv, ObjInv, objects
  <2>2. \A o \in objects : \A b \in {st[o].current, st[o].previous} \ {None} :
          b.value \cap b.unread = {}
    BY DEF IInv, ObjInv, Sound, ReadingsSound
  <2> QED
    BY <2>1, <2>2 DEF IInv, ObjInv, ReqInv, Slots, TypeOK
<1> QED
  BY Invariance, <1>1, PTL

\* A reading is recent by the server's clock and of the caller's columns,
\* whatever whitelists, rolls and late scans came between (getHeaderKpis,
\* servesPrevious, beginScan of header-kpi-cache.ts).
THEOREM HitsFit == Spec => []HitFitsRequest
<1>1. IInv => HitFitsRequest
  BY DEF IInv, Fits, HitFitsRequest
<1> QED
  BY Invariance, <1>1, PTL

\* Nobody waits for a scan that is not running, and an hour with values is
\* read twice at most (inflight and retriedHour of header-kpi-cache.ts).
THEOREM ScansAreNeeded == Spec => []ScansMatchNeed
<1>1. IInv => ScansMatchNeed
  <2> SUFFICES ASSUME IInv PROVE ScansMatchNeed
    OBVIOUS
  <2>1. \A o \in objects : st[o].inflight # None => <<o, st[o].inflight>> \in scans
    BY DEF IInv, ObjInv, Sound, ScansSound
  <2>2. \A r \in Requests : req[r].at = "waits" =>
          <<req[r].obj, targetHourStart(req[r].now)>> \in scans
    BY RecordTypes DEF IInv, ReqInv, ReqSound
  <2>3. ASSUME NEW x \in Objects \X Hours PROVE settled[x] <= 2
    <3>1. PICK o \in Objects, h \in Hours : x = <<o, h>>
      OBVIOUS
    <3>2. CASE o \in objects
      BY <3>1, <3>2 DEF IInv, ObjInv, Sound, CountsSound
    <3>3. CASE o \notin objects
      BY <3>1, <3>3 DEF IInv, ObjInv
    <3> QED
      BY <3>2, <3>3
  <2>4. DOMAIN settled = Objects \X Hours
    BY DEF IInv, ObjInv
  <2> QED
    BY <2>1, <2>2, <2>3, <2>4 DEF ScansMatchNeed
<1> QED
  BY Invariance, <1>1, PTL

\* A late scan neither walks the header back nor drops a measured service of
\* the hour being served (mergeInto and the land of beginScan).
THEOREM ServedOnlyImproves == Spec => CurrentOnlyImproves
<1>1. IInv /\ [Next]_vars => [Improves]_st
  BY NextInv
<1>2. Improves = \A o \in Objects : st[o] # None /\ st[o].current # None /\ st'[o].current # None =>
       /\ st'[o].current.hour >= st[o].current.hour
       /\ st'[o].current.hour = st[o].current.hour =>
            st[o].current.value \subseteq st'[o].current.value
  BY DEF Improves
<1> QED
  BY Invariance, <1>1, PTL DEF Spec, CurrentOnlyImproves, Improves
=============================================================================
