--------------------------- MODULE HeaderKpiCache ---------------------------
(***************************************************************************)
(* The layer header's hourly KPI cache: logic/layers/header-kpi-cache.ts,  *)
(* for one layer.                                                          *)
(*                                                                         *)
(* Every change of whitelist, and every eviction, makes a new LayerState   *)
(* object; scans and waiting requests keep the object they started with.   *)
(* The objects are numbered in `st`, `live` is the one in the map.         *)
(*                                                                         *)
(* Time runs in three phases of the OAP server's hour: before the hour in  *)
(* progress is worth reading (5 min), before the last one has settled      *)
(* (10 min), and the rest.  A value is "measured or not", a service that a *)
(* scan could not reach is unread.                                         *)
(***************************************************************************)
EXTENDS Integers, FiniteSets

CONSTANTS
  Services,    \* the layer's roster
  Signatures,  \* whitelists the admin may set
  Requests,    \* concurrent request slots
  IdleTicks,   \* LAYER_IDLE_MS, in phases
  MaxTicks,    \* bound: phases of a behaviour
  MaxStates,   \* bound: LayerState objects of a behaviour
  None         \* null

ASSUME TicksAssumption == MaxTicks \in Nat /\ IdleTicks \in Nat \ {0}
ASSUME StatesAssumption == MaxStates \in Nat \ {0}

FirstTick == 6
Ticks == FirstTick..(FirstTick + 2 + MaxTicks)
hourFloor(now) == now \div 3
Hours == 0..hourFloor(FirstTick + 2 + MaxTicks)
Objects == 1..MaxStates

(* The newest hour that has settled. *)
targetHourStart(now) == IF now % 3 = 2 THEN hourFloor(now) - 1 ELSE hourFloor(now) - 2

currentHourSettled(now) == now % 3 # 0

Buckets == [hour : Hours, sig : Signatures,
            value : SUBSET Services, unread : SUBSET Services]

LayerStates ==
  [sig : Signatures, current : Buckets \cup {None}, previous : Buckets \cup {None},
   inflight : Hours \cup {None}, emptyHour : Hours \cup {None},
   retriedHour : Hours \cup {None}, emptyCurrentHour : Hours \cup {None},
   lastReadAt : Ticks]

ASSUME NoneAssumption ==
  /\ None \notin Objects /\ None \notin Hours
  /\ None \notin Buckets /\ None \notin LayerStates

Replies ==
  [state : {"hit", "warming", "empty", "failed"}, sig : Signatures,
   bucket : Buckets \cup {None}, at : Ticks]

VARIABLES
  now,      \* the time
  st,       \* the LayerState objects made so far, None for the others
  live,     \* the object in `layers`, None
  scans,    \* scans running: <<object, hour>>
  req,      \* the request in each slot
  replies,  \* ghost: what the last step answered
  settled   \* ghost: 1 for an hour a scan found values in, by object; 2 when read again

vars == <<now, st, live, scans, req, replies, settled>>

Idle == [at |-> "idle", obj |-> None, now |-> FirstTick]

Init ==
  /\ now \in FirstTick..(FirstTick + 2)
  /\ st = [o \in Objects |-> None]
  /\ live = None
  /\ scans = {}
  /\ req = [r \in Requests |-> Idle]
  /\ replies = {}
  /\ settled = [x \in Objects \X Hours |-> 0]

------------------------------------------------------------------------------
holds(bucket, hour) == bucket # None /\ bucket.hour = hour

fresh(sig) ==
  [sig |-> sig, current |-> None, previous |-> None, inflight |-> None,
   emptyHour |-> None, retriedHour |-> None, emptyCurrentHour |-> None,
   lastReadAt |-> now]

objects == {o \in Objects : st[o] # None}

(* stateFor: the object of this whitelist, or a new one in its place. *)
reusable(sig) == live # None /\ st[live].sig = sig

objectFor(sig) == IF reusable(sig) THEN live ELSE Cardinality(objects) + 1

stateFor(sig) ==
  IF reusable(sig) THEN [st[live] EXCEPT !.lastReadAt = now] ELSE fresh(sig)

reply(state, sig, bucket) == [state |-> state, sig |-> sig, bucket |-> bucket, at |-> now]

(***************************************************************************)
(* beginScan, from a request that leaves its object at `s`: a no-op while  *)
(* a scan of that hour is the one in flight.                               *)
(***************************************************************************)
beginScan(o, s, want) ==
  /\ st' = [st EXCEPT ![o] = [s EXCEPT !.inflight = want]]
  /\ IF s.inflight = want THEN UNCHANGED <<scans, settled>>
     ELSE /\ scans' = scans \cup {<<o, want>>}
          /\ settled' = [settled EXCEPT ![<<o, want>>] = IF @ > 0 THEN @ + 1 ELSE @]

noScan(o, s) == st' = [st EXCEPT ![o] = s] /\ UNCHANGED <<scans, settled>>

(* 1: the hour is held.  After an incomplete scan it is read once more. *)
retries(s, want) == s.current.unread # {} /\ s.retriedHour # want

servesHeld(r, o, s, want) ==
  /\ holds(s.current, want)
  /\ IF retries(s, want) THEN beginScan(o, [s EXCEPT !.retriedHour = want], want)
                         ELSE noScan(o, s)
  /\ replies' = {reply("hit", s.sig, s.current)}
  /\ UNCHANGED req

(* The hour rolled. *)
rolled(s, want) ==
  [s EXCEPT !.previous = IF s.current # None THEN s.current ELSE @,
            !.current = None,
            !.emptyHour = IF @ = want THEN @ ELSE None]

oldest(want) == hourFloor(now) - 2

servesPrevious(s, want) ==
  s.previous # None /\ s.previous.hour >= oldest(want) /\ s.previous.hour < want

(* What a request does that no completed hour can answer. *)
readsCurrentHour(s, at) == currentHourSettled(at) /\ s.emptyCurrentHour # hourFloor(at)

waits(r, o, s, want) ==
  \/ /\ s.emptyHour # want \/ s.inflight # None
     /\ req' = [req EXCEPT ![r] = [at |-> "waits", obj |-> o, now |-> now]]
     /\ replies' = {}
  \/ /\ s.emptyHour = want /\ s.inflight = None
     /\ IF readsCurrentHour(s, now)
        THEN req' = [req EXCEPT ![r] = [at |-> "reads", obj |-> o, now |-> now]] /\ replies' = {}
        ELSE UNCHANGED req /\ replies' = {reply("empty", s.sig, None)}

servesOther(r, o, s, want) ==
  LET previous == IF servesPrevious(s, want) THEN s.previous ELSE None
      left == [s EXCEPT !.previous = previous]
  IN  /\ IF s.emptyHour # want THEN beginScan(o, left, want) ELSE noScan(o, left)
      /\ \/ /\ previous # None
            /\ replies' = {reply("hit", s.sig, previous)}
            /\ UNCHANGED req
         \/ previous = None /\ waits(r, o, s, want)

getHeaderKpis(r, sig) ==
  LET o == objectFor(sig)
      s == stateFor(sig)
      want == targetHourStart(now)
  IN  /\ req[r] = Idle
      /\ o \in Objects
      /\ live' = o
      /\ \/ servesHeld(r, o, s, want)
         \/ ~holds(s.current, want) /\ servesOther(r, o, rolled(s, want), want)
      /\ UNCHANGED now

------------------------------------------------------------------------------
(***************************************************************************)
(* A scan ends, in the object it was started for, and with it the wait of  *)
(* the requests that race it.                                              *)
(***************************************************************************)
mergeInto_Replace(held, read) == read  \* mutant: the later read replaces the earlier

mergeInto_Outstanding(held, read) ==  \* mutant: what either read missed is unread
  [held EXCEPT !.value = @ \cup read.value, !.unread = @ \cup read.unread]

mergeInto(held, read) ==
  [held EXCEPT !.value = @ \cup read.value, !.unread = @ \cap read.unread]

(* The bucket the scan's promise resolves to, None for null. *)
result(s, read) ==
  IF holds(s.current, read.hour) THEN mergeInto(s.current, read)
  ELSE IF read.value = {} THEN None ELSE read

newer(s, hour) == s.current # None /\ s.current.hour > hour

landed(s, read) ==
  LET bucket == result(s, read)
  IN  IF holds(s.current, read.hour) /\ read.value = {}
      THEN [s EXCEPT !.current = bucket]
      ELSE IF bucket = None
      THEN [s EXCEPT !.emptyHour = IF read.unread = {} THEN read.hour ELSE @]
      ELSE IF newer(s, read.hour) THEN s
      ELSE [s EXCEPT !.current = bucket, !.previous = None]

finally_OnSuccess(s, hour, threw) ==  \* mutant: a scan that threw stays in flight
  IF s.inflight = hour /\ ~threw THEN [s EXCEPT !.inflight = None] ELSE s

finally(s, hour, threw) ==
  IF s.inflight = hour THEN [s EXCEPT !.inflight = None] ELSE s

(* A waiting request after its scan came to nothing, or outran the wait. *)
reads(q, s) ==
  s.emptyHour = targetHourStart(q.now) /\ readsCurrentHour(s, q.now)

disappointed(q, s) ==
  IF s.emptyHour = targetHourStart(q.now) THEN reply("empty", s.sig, None)
  ELSE reply(IF s.inflight # None THEN "warming" ELSE "failed", s.sig, None)

racing(o, hour) ==
  {r \in Requests : /\ req[r].at = "waits" /\ req[r].obj = o
                    /\ targetHourStart(req[r].now) = hour}

target_Live(o) == IF live = None THEN o ELSE live  \* mutant: lands in the map's object

target(o) == o

scanEnds(o, hour, bucket, s, found) ==
  /\ scans' = scans \ {<<o, hour>>}
  /\ st' = [st EXCEPT ![target(o)] = s]
  /\ req' = [r \in Requests |->
       IF r \notin racing(o, hour) THEN req[r]
       ELSE IF bucket = None /\ reads(req[r], s) THEN [req[r] EXCEPT !.at = "reads"]
       ELSE Idle]
  /\ replies' = {IF bucket # None THEN reply("hit", st[o].sig, bucket) ELSE disappointed(req[r], s) :
                   r \in {x \in racing(o, hour) : bucket # None \/ ~reads(req[x], s)}}
  /\ settled' = [settled EXCEPT ![<<o, hour>>] = IF found /\ @ = 0 THEN 1 ELSE @]
  /\ UNCHANGED <<now, live>>

scanLands(o, hour) ==
  /\ <<o, hour>> \in scans
  /\ \E value \in SUBSET Services : \E unread \in SUBSET (Services \ value) :
       LET read == [hour |-> hour, sig |-> st[o].sig, value |-> value, unread |-> unread]
           s == st[target(o)]
       IN  scanEnds(o, hour, result(s, read), finally(landed(s, read), hour, FALSE), value # {})

scanThrows(o, hour) ==
  /\ <<o, hour>> \in scans
  /\ scanEnds(o, hour, None, finally(st[target(o)], hour, TRUE), FALSE)

(* COLD_WAIT_MS passes first. *)
waitEnds(r) ==
  LET s == st[req[r].obj]
  IN  /\ req[r].at = "waits"
      /\ IF reads(req[r], s)
         THEN req' = [req EXCEPT ![r].at = "reads"] /\ replies' = {}
         ELSE req' = [req EXCEPT ![r] = Idle] /\ replies' = {disappointed(req[r], s)}
      /\ UNCHANGED <<now, st, live, scans, settled>>

(* readCurrentHour's own scan ends: values are answered, never kept. *)
currentHourRead(r) ==
  LET o == req[r].obj
      hour == hourFloor(req[r].now)
  IN  /\ req[r].at = "reads"
      /\ req' = [req EXCEPT ![r] = Idle]
      /\ \/ \E value \in SUBSET Services \ {{}} : \E unread \in SUBSET (Services \ value) :
              /\ replies' = {reply("hit", st[o].sig,
                   [hour |-> hour, sig |-> st[o].sig, value |-> value, unread |-> unread])}
              /\ UNCHANGED st
         \/ /\ replies' = {reply("empty", st[o].sig, None)}
            /\ st' = [st EXCEPT ![o].emptyCurrentHour = hour]
         \/ \E state \in {"empty", "failed"} :  \* read in part, or not at all
              replies' = {reply(state, st[o].sig, None)} /\ UNCHANGED st
      /\ UNCHANGED <<now, live, scans, settled>>

(* A request for another layer sweeps this one, idle for too long. *)
evicted ==
  /\ live # None
  /\ now - st[live].lastReadAt >= IdleTicks
  /\ Cardinality(objects) < MaxStates
  /\ live' = None
  /\ replies' = {}
  /\ UNCHANGED <<now, st, scans, req, settled>>

(* A wait ends, and a live read with it, before two phases have passed. *)
tick ==
  /\ now < FirstTick + MaxTicks
  /\ \A r \in Requests : req[r] = Idle \/ req[r].now = now
  /\ now' = now + 1
  /\ replies' = {}
  /\ UNCHANGED <<st, live, scans, req, settled>>

Next ==
  \/ \E r \in Requests : \/ \E sig \in Signatures : getHeaderKpis(r, sig)
                         \/ waitEnds(r) \/ currentHourRead(r)
  \/ \E x \in scans : scanLands(x[1], x[2]) \/ scanThrows(x[1], x[2])
  \/ evicted \/ tick

Spec == Init /\ [][Next]_vars

------------------------------------------------------------------------------
(* The types; a service with a value is not unread. *)
TypeOK ==
  /\ now \in Ticks
  /\ st \in [Objects -> LayerStates \cup {None}]
  /\ live \in Objects \cup {None}
  /\ scans \subseteq Objects \X Hours
  /\ req \in [Requests -> [at : {"idle", "waits", "reads"}, obj : Objects \cup {None}, now : Ticks]]
  /\ replies \subseteq Replies
  /\ settled \in [Objects \X Hours -> Nat]
  /\ \A o \in objects : \A b \in {st[o].current, st[o].previous} \ {None} : b.value \cap b.unread = {}

(***************************************************************************)
(* A reading is of H-1, H-2 or the hour in progress by the server's clock, *)
(* and of the caller's columns: a scan started for an old whitelist lands  *)
(* in an object nothing points at.                                         *)
(***************************************************************************)
HitFitsRequest ==
  \A p \in replies : p.state = "hit" =>
    p.bucket.hour \in (hourFloor(p.at) - 2)..hourFloor(p.at) /\ p.bucket.sig = p.sig

(***************************************************************************)
(* Every waiting request, and every reply of "warming", has a scan running *)
(* that will end the wait; and an hour found to hold values is scanned     *)
(* again at most once, however incomplete it is, however many requests     *)
(* come and however the second scan ends.                                  *)
(***************************************************************************)
ScansMatchNeed ==
  /\ \A o \in objects : st[o].inflight # None => <<o, st[o].inflight>> \in scans
  /\ \A r \in Requests : req[r].at = "waits" =>
       <<req[r].obj, targetHourStart(req[r].now)>> \in scans
  /\ \A x \in DOMAIN settled : settled[x] <= 2

(***************************************************************************)
(* What is served only improves: a scan that outlives its hour does not    *)
(* walk the header back, and a re-read of the hour being served adds to    *)
(* it, so no measured service is lost.                                     *)
(***************************************************************************)
CurrentOnlyImproves ==
  [][\A o \in Objects : st[o] # None /\ st[o].current # None /\ st'[o].current # None =>
       /\ st'[o].current.hour >= st[o].current.hour
       /\ st'[o].current.hour = st[o].current.hour =>
            st[o].current.value \subseteq st'[o].current.value]_st
=============================================================================
