------------------------ MODULE TemplateSync_proofs ------------------------
(***************************************************************************)
(* What the template store guarantees for any number of request slots, any *)
(* set of routes and any number of writes, on either kind of storage.      *)
(***************************************************************************)
EXTENDS TemplateSync, TLAPS

\* A request that runs on has a status, and one with a write under way has one
\* that was asked for.
OneStatus ==
  /\ cache # None => cache.rows = lastGood
  /\ \A r \in Requests : req[r].at = "got" => req[r].got \in Statuses /\ req[r].got.rows = lastGood

\* A write under way knows what it wants, and nothing has been seen of a record
\* that was never there.
WritesMade ==
  /\ \A r \in Requests : req[r].at \notin {"idle", "waits", "got"} => req[r].want \in Contents
  /\ oap = Absent => /\ shown = Absent /\ lastGood.row = Absent
                     /\ \A r \in Requests : /\ probe[r].at = "served" => probe[r].rows.row = Absent
                                            /\ req[r].at # "disable"
  /\ boot.at # "done" /\ oap = Absent => boot.rows.row = Absent

\* What was read is not newer than what list() returns, and what the page was
\* last answered is not newer than what it would be answered now.
InOrder ==
  /\ lastGood.seen <= ver /\ last <= ver
  /\ lastGood.calm => last <= lastGood.seen
  /\ \A r \in Requests : probe[r].at = "served" =>
       /\ probe[r].rows.seen <= ver
       /\ probe[r].rows.calm => /\ last <= probe[r].rows.seen
                                /\ lastGood.calm => lastGood.seen <= probe[r].rows.seen

\* Nothing read before the end of the boot seed counts as read after it.
Booting ==
  /\ boot.rows.seen <= ver
  /\ boot.at # "done" =>
       /\ last = 0
       /\ lastGood.calm => lastGood.seen = 0
       /\ boot.rows.calm => boot.rows.seen = 0
       /\ \A r \in Requests : probe[r].at # "none" => ~probe[r].rows.calm


ReadInv == TypeOK /\ OneStatus /\ WritesMade /\ InOrder /\ Booting

LEMMA RecordFacts ==
  /\ Absent \in Records /\ NeverRead \in Rows /\ NeverRead.seen = 0 /\ NeverRead.row = Absent
  /\ \A cfg \in Contents : Enabled(cfg) \in Records /\ Enabled(cfg) # Absent
  /\ \A o \in Records : o # Absent => /\ [o EXCEPT !.disabled = TRUE] \in Records
                                      /\ [o EXCEPT !.disabled = TRUE] # Absent
  /\ Idle \in RequestType /\ Idle.at = "idle" /\ Idle.on = None
BY DEF Absent, Records, NeverRead, Rows, Enabled, Contents, Idle, RequestType, Ops, Writes

(***************************************************************************)
(* A request that does not wait for a status goes on, and what OAP holds   *)
(* and what the page was answered may change with it.                      *)
(***************************************************************************)
LEMMA RequestMoves ==
  ASSUME ReadInv, NEW r \in Requests, NEW q \in RequestType,
         req' = [req EXCEPT ![r] = q], q.at \notin {"waits", "got"},
         q.at # "idle" => q.want \in Contents,
         q.at = "disable" => oap' # Absent,
         oap' \in Records, oap' = Absent => oap = Absent, holder' \in Requests \cup {None},
         last' = last \/ (lastGood.calm /\ last' = lastGood.seen),
         UNCHANGED <<patching, shown, ver, syncVars, boot, writes>>
  PROVE  ReadInv'
<1>1. UNCHANGED <<patching, shown, ver, cache, inFlight, lastGood, probe, boot, writes>>
  BY DEF syncVars
<1>2. /\ req[r] \in RequestType /\ req' \in [Requests -> RequestType]
      /\ \A s \in Requests : req'[s] = IF s = r THEN q ELSE req[s]
  BY DEF ReadInv, TypeOK
<1>3. last' \in Nat
  BY DEF ReadInv, TypeOK, Rows
<1>4. TypeOK'
  BY <1>1, <1>2, <1>3 DEF ReadInv, TypeOK
<1>5. OneStatus'
  BY <1>1, <1>2 DEF ReadInv, OneStatus
<1>6. WritesMade'
  BY <1>1, <1>2 DEF ReadInv, WritesMade
<1>7. InOrder'
  BY <1>1, <1>3 DEF ReadInv, TypeOK, InOrder, Rows
<1>8. Booting'
  BY <1>1, <1>3 DEF ReadInv, Booting
<1> QED
  BY <1>4, <1>5, <1>6, <1>7, <1>8 DEF ReadInv

(***************************************************************************)
(* A status is asked for: answered from the cache, joined, or probed.      *)
(***************************************************************************)
LEMMA AsksForStatus ==
  ASSUME ReadInv, NEW r \in Requests, NEW op \in Ops, NEW fresh \in BOOLEAN,
         getSyncStatus(r, [Idle EXCEPT !.op = op], fresh),
         UNCHANGED <<storeVars, boot, last>>, writes' \in 0..MaxWrites
  PROVE  ReadInv'
<1> DEFINE q == [Idle EXCEPT !.op = op]
           held == IF fresh THEN None ELSE cache
<1>1. /\ UNCHANGED <<patching, oap, holder, shown, ver, boot, last, lastGood>>
      /\ cache' = held
  BY DEF storeVars, oapVars, getSyncStatus, calls, rowsAfterResync
<1>2. /\ q \in RequestType /\ q.at = "idle" /\ q.on = None
  BY DEF Idle, RequestType
<1>3. cache' \in Statuses \cup {None} /\ (cache' # None => cache'.rows = lastGood')
  BY <1>1 DEF ReadInv, TypeOK, OneStatus
<1>4. CASE /\ held # None
           /\ req' = [req EXCEPT ![r] = [q EXCEPT !.at = "got", !.got = held]]
           /\ UNCHANGED <<inFlight, probe>>
  <2>1. [q EXCEPT !.at = "got", !.got = held] \in RequestType
    BY <1>1, <1>2, <1>3, <1>4 DEF RequestType
  <2>2. /\ req' \in [Requests -> RequestType]
        /\ \A s \in Requests : s # r => req'[s] = req[s]
        /\ req'[r].at = "got" /\ req'[r].got = held
    BY <1>2, <1>4, <2>1 DEF ReadInv, TypeOK, RequestType
  <2>3. TypeOK'
    BY <1>1, <1>3, <1>4, <2>2 DEF ReadInv, TypeOK
  <2>4. OneStatus'
    BY <1>1, <1>3, <1>4, <2>2 DEF ReadInv, OneStatus
  <2>5. WritesMade' /\ InOrder' /\ Booting'
    BY <1>1, <1>4, <2>2 DEF ReadInv, WritesMade, InOrder, Booting
  <2> QED
    BY <2>3, <2>4, <2>5 DEF ReadInv
<1>5. CASE joins(r, q)
  <2>1. [q EXCEPT !.at = "waits", !.on = inFlight] \in RequestType
    BY <1>2 DEF RequestType, ReadInv, TypeOK
  <2>2. /\ req' \in [Requests -> RequestType]
        /\ \A s \in Requests : s # r => req'[s] = req[s]
        /\ req'[r].at = "waits" /\ req'[r].on = inFlight
        /\ UNCHANGED <<inFlight, probe>> /\ inFlight # None
    BY <1>2, <1>5, <2>1 DEF ReadInv, TypeOK, RequestType, joins
  <2>3. TypeOK'
    BY <1>1, <1>3, <2>2 DEF ReadInv, TypeOK
  <2>4. OneStatus'
    BY <1>1, <1>3, <2>2 DEF ReadInv, OneStatus
  <2>5. WritesMade' /\ InOrder' /\ Booting'
    BY <1>1, <2>2 DEF ReadInv, WritesMade, InOrder, Booting
  <2> QED
    BY <2>3, <2>4, <2>5 DEF ReadInv
<1>6. CASE inFlight = None /\ starts(r, q)
  <2>1. [q EXCEPT !.at = "waits", !.on = r] \in RequestType
    BY <1>2 DEF RequestType
  <2>2. /\ req' \in [Requests -> RequestType]
        /\ \A s \in Requests : s # r => req'[s] = req[s]
        /\ req'[r].at = "waits" /\ req'[r].on = r /\ inFlight' = r
    BY <1>2, <1>6, <2>1 DEF ReadInv, TypeOK, RequestType, starts
  <2>3. /\ probe' \in [Requests -> [at : {"none", "asked", "served"}, rows : Rows]]
        /\ \A s \in Requests : s # r => probe'[s] = probe[s]
        /\ probe'[r].at = "asked" /\ (probe'[r].rows.calm <=> boot.at = "done")
    <3>1. [NeverRead EXCEPT !.calm = boot.at = "done"] \in Rows
      BY RecordFacts DEF Rows
    <3>2. [NeverRead EXCEPT !.calm = boot.at = "done"].calm <=> boot.at = "done"
      BY DEF NeverRead
    <3> QED
      BY <1>6, <3>1, <3>2 DEF ReadInv, TypeOK, starts
  <2>4. \A s \in Requests : probe[s].at = "none" /\ req[s].at # "waits"
    BY <1>6, NoneAssumption DEF ReadInv, TypeOK
  <2>5. TypeOK'
    BY <1>1, <1>3, <2>2, <2>3, <2>4, NoneAssumption DEF ReadInv, TypeOK
  <2>6. OneStatus'
    BY <1>1, <1>3, <2>2 DEF ReadInv, OneStatus
  <2>7. WritesMade' /\ InOrder' /\ Booting'
    BY <1>1, <2>2, <2>3, <2>4 DEF ReadInv, WritesMade, InOrder, Booting
  <2> QED
    BY <2>5, <2>6, <2>7 DEF ReadInv
<1> QED
  BY <1>4, <1>5, <1>6 DEF getSyncStatus, calls

(***************************************************************************)
(* A probe ends: everyone who waited for it has its status.                *)
(***************************************************************************)
LEMMA Settles ==
  ASSUME ReadInv, drained, NEW r \in Requests, probe[r].at # "none",
         NEW status \in Statuses, settles(r, status), lastGood' = status.rows,
         UNCHANGED <<storeVars, boot, last, writes>>,
         status.rows.seen <= ver, status.rows.calm => last <= status.rows.seen,
         oap = Absent => status.rows.row = Absent,
         boot.at # "done" /\ status.rows.calm => status.rows.seen = 0
  PROVE  ReadInv'
<1>1. UNCHANGED <<patching, oap, holder, shown, ver, boot, last, writes>>
  BY DEF storeVars, oapVars
<1>2. /\ cache' = status /\ lastGood' \in Rows /\ inFlight' = None
      /\ probe' = [probe EXCEPT ![r] = NoProbe]
  BY DEF settles, Statuses
<1>3. /\ probe' \in [Requests -> [at : {"none", "asked", "served"}, rows : Rows]]
      /\ \A s \in Requests : probe'[s].at = "none"
  <2>1. \A s \in Requests : s # r => probe[s].at = "none"
    BY DEF ReadInv, TypeOK
  <2> QED
    BY <1>2, <2>1, RecordFacts DEF ReadInv, TypeOK, NoProbe
<1>4. \A s \in Requests : req[s].at # "got" /\ req[s] \in RequestType
  BY DEF ReadInv, TypeOK, drained
<1>5. /\ req' \in [Requests -> RequestType]
      /\ \A s \in Requests : /\ req'[s].at # "waits" /\ (req[s].at # "waits" => req'[s] = req[s])
                             /\ req[s].at = "waits" => req'[s].at = "got" /\ req'[s].got = status
  <2>1. inFlight = r
    BY DEF ReadInv, TypeOK
  <2>2. ASSUME NEW s \in Requests, req[s].at = "waits"
        PROVE  /\ [req[s] EXCEPT !.at = "got", !.on = None, !.got = status] \in RequestType
               /\ req'[s] = [req[s] EXCEPT !.at = "got", !.on = None, !.got = status]
    BY <1>4, <2>1, <2>2 DEF settles, RequestType, ReadInv, TypeOK
  <2>3. ASSUME NEW s \in Requests, req[s].at = "waits"
        PROVE  req'[s].at = "got" /\ req'[s].got = status
    <3>1. req[s] \in RequestType
      BY <1>4
    <3>2. req'[s] = [req[s] EXCEPT !.at = "got", !.on = None, !.got = status]
      BY <2>2, <2>3
    <3> QED
      BY <3>1, <3>2 DEF RequestType
  <2>4. ASSUME NEW s \in Requests, req[s].at # "waits"
        PROVE  req'[s] = req[s]
    BY <2>4 DEF settles
  <2>5. req' = [s \in Requests |-> req'[s]]
    BY DEF settles
  <2> QED
    BY <1>4, <2>2, <2>3, <2>4, <2>5
<1>6. TypeOK'
  BY <1>1, <1>2, <1>3, <1>5, NoneAssumption DEF ReadInv, TypeOK
<1>7. OneStatus'
  BY <1>2, <1>4, <1>5 DEF OneStatus
<1>8. WritesMade'
  BY <1>1, <1>2, <1>3, <1>5 DEF ReadInv, WritesMade
<1>9. InOrder'
  BY <1>1, <1>2, <1>3 DEF ReadInv, InOrder
<1>10. Booting'
  BY <1>1, <1>2, <1>3 DEF ReadInv, Booting
<1> QED
  BY <1>6, <1>7, <1>8, <1>9, <1>10 DEF ReadInv

\* A list() that returns is what the next status is built from.
LEMMA ListReturns ==
  ASSUME ReadInv, drained, NEW r \in Requests, listReturns(r)
  PROVE  ReadInv'
<1> DEFINE status == [rows |-> probe[r].rows, unreachable |-> FALSE]
<1>1. status \in Statuses /\ probe[r].at = "served" /\ lastGood' = status.rows
  BY DEF ReadInv, TypeOK, Statuses, listReturns
<1>2. /\ status.rows.seen <= ver /\ (status.rows.calm => last <= status.rows.seen)
      /\ oap = Absent => status.rows.row = Absent
      /\ boot.at # "done" /\ status.rows.calm => status.rows.seen = 0
  BY <1>1 DEF ReadInv, InOrder, WritesMade, Booting
<1>3. settles(r, status) /\ UNCHANGED <<storeVars, boot, last, writes>>
  BY DEF listReturns
<1> HIDE DEF status
<1> QED
  BY <1>1, <1>2, <1>3, Settles

\* One that fails leaves the rows of the last that returned.
LEMMA ListFails ==
  ASSUME ReadInv, drained, NEW r \in Requests, listFails(r)
  PROVE  ReadInv'
<1> DEFINE status == [rows |-> lastGood, unreachable |-> TRUE]
<1>1. status \in Statuses /\ probe[r].at = "asked" /\ lastGood' = status.rows
  BY DEF ReadInv, TypeOK, Statuses, listFails
<1>2. /\ status.rows.seen <= ver /\ (status.rows.calm => last <= status.rows.seen)
      /\ oap = Absent => status.rows.row = Absent
      /\ boot.at # "done" /\ status.rows.calm => status.rows.seen = 0
  BY <1>1 DEF ReadInv, InOrder, WritesMade, Booting
<1>3. settles(r, status) /\ UNCHANGED <<storeVars, boot, last, writes>>
  BY DEF listFails
<1> HIDE DEF status
<1> QED
  BY <1>1, <1>2, <1>3, Settles

\* OAP answers a list() with what it shows.
LEMMA ListServed ==
  ASSUME ReadInv, NEW r \in Requests, listServed(r)
  PROVE  ReadInv'
<1>1. UNCHANGED <<patching, oap, holder, shown, ver, cache, inFlight, lastGood, req, boot, last, writes>>
  BY DEF listServed, storeVars, oapVars
<1>2. /\ probe[r].at = "asked" /\ probe[r].rows \in Rows
      /\ \A s \in Requests : s # r => probe'[s] = probe[s]
      /\ probe'[r] = [at |-> "served", rows |-> [row |-> shown, seen |-> ver, calm |-> probe[r].rows.calm]]
  BY DEF listServed, ReadInv, TypeOK
<1>3. probe'[r] \in [at : {"none", "asked", "served"}, rows : Rows]
  BY <1>2 DEF ReadInv, TypeOK, Rows
<1>4. probe' \in [Requests -> [at : {"none", "asked", "served"}, rows : Rows]]
  BY <1>3 DEF listServed, ReadInv, TypeOK
<1>5. TypeOK'
  BY <1>1, <1>2, <1>4 DEF ReadInv, TypeOK
<1>6. OneStatus'
  BY <1>1 DEF ReadInv, OneStatus
<1>7. WritesMade'
  BY <1>1, <1>2 DEF ReadInv, WritesMade
<1>8. InOrder'
  BY <1>1, <1>2 DEF ReadInv, InOrder, TypeOK
<1>9. Booting'
  BY <1>1, <1>2 DEF ReadInv, Booting
<1> QED
  BY <1>5, <1>6, <1>7, <1>8, <1>9 DEF ReadInv

\* What OAP holds comes to be shown.
LEMMA BecomesVisible ==
  ASSUME ReadInv, becomesVisible
  PROVE  ReadInv'
<1>1. /\ UNCHANGED <<patching, oap, holder, cache, inFlight, lastGood, probe, req, boot, last, writes>>
      /\ shown' = oap /\ ver' = ver + 1
  BY DEF becomesVisible, oapVars, syncVars
<1>2. TypeOK'
  BY <1>1 DEF ReadInv, TypeOK
<1>3. OneStatus' /\ WritesMade'
  BY <1>1 DEF ReadInv, OneStatus, WritesMade
<1>4. InOrder' /\ Booting'
  BY <1>1 DEF ReadInv, TypeOK, InOrder, Booting, Rows
<1> QED
  BY <1>2, <1>3, <1>4 DEF ReadInv

\* Somebody else writes a record.
LEMMA PeerWrites ==
  ASSUME ReadInv, peerWrites
  PROVE  ReadInv'
<1>1. /\ UNCHANGED <<patching, shown, ver, cache, inFlight, lastGood, probe, req, boot, last>>
      /\ oap' \in Records /\ oap' # Absent /\ holder' = None
  BY DEF peerWrites, syncVars
<1>2. writes' \in 0..MaxWrites
  BY WritesAssumption DEF peerWrites, ReadInv, TypeOK
<1>3. TypeOK'
  BY <1>1, <1>2 DEF ReadInv, TypeOK
<1>4. OneStatus' /\ WritesMade' /\ InOrder' /\ Booting'
  BY <1>1 DEF ReadInv, OneStatus, WritesMade, InOrder, Booting
<1> QED
  BY <1>3, <1>4 DEF ReadInv

\* The 30 s are over.
LEMMA CacheExpires ==
  ASSUME ReadInv, cacheExpires
  PROVE  ReadInv'
<1>1. /\ UNCHANGED <<patching, oap, holder, shown, ver, inFlight, lastGood, probe, req, boot, last, writes>>
      /\ cache' = None
  BY DEF cacheExpires, storeVars, oapVars
<1>2. TypeOK'
  BY <1>1 DEF ReadInv, TypeOK
<1>3. OneStatus' /\ WritesMade' /\ InOrder' /\ Booting'
  BY <1>1 DEF ReadInv, OneStatus, WritesMade, InOrder, Booting
<1> QED
  BY <1>2, <1>3 DEF ReadInv

(***************************************************************************)
(* The boot seed.                                                          *)
(***************************************************************************)
BootStages == {"wait", "list", "listed", "create", "createPoll", "seeded", "relist", "relisted", "done"}

\* It goes on with the rows it read, and may create the record it missed.
LEMMA BootGoes ==
  ASSUME ReadInv, NEW at \in BootStages, boot.at # "done",
         boot' = [boot EXCEPT !.at = at],
         \/ UNCHANGED oapVars
         \/ oap' = Enabled("bundled") /\ holder' = None,
         UNCHANGED <<patching, shown, ver, syncVars, req, last, writes>>
  PROVE  ReadInv'
<1>1. /\ UNCHANGED <<patching, shown, ver, cache, inFlight, lastGood, probe, req, last, writes>>
      /\ oap' \in Records /\ holder' \in Requests \cup {None} /\ (oap' # Absent \/ oap' = oap)
  BY RecordFacts DEF syncVars, oapVars, ReadInv, TypeOK, Contents
<1>2. /\ boot' \in [at : BootStages, rows : Rows] /\ boot'.rows = boot.rows
  BY DEF ReadInv, TypeOK, BootStages
<1>3. TypeOK'
  BY <1>1, <1>2 DEF ReadInv, TypeOK, BootStages
<1>4. OneStatus' /\ WritesMade' /\ InOrder' /\ Booting'
  BY <1>1, <1>2 DEF ReadInv, OneStatus, WritesMade, InOrder, Booting
<1> QED
  BY <1>3, <1>4 DEF ReadInv

\* It lists, beside whatever probe there is.
LEMMA BootListServed ==
  ASSUME ReadInv, bootListServed
  PROVE  ReadInv'
<1>1. UNCHANGED <<patching, oap, holder, shown, ver, cache, inFlight, lastGood, probe, req, last, writes>>
  BY DEF bootListServed, storeVars, oapVars, syncVars
<1> DEFINE rows == [row |-> shown, seen |-> ver, calm |-> FALSE]
<1>2. PICK at \in {"listed", "relisted"} : boot' = [at |-> at, rows |-> rows]
  BY DEF bootListServed
<1>3. rows \in Rows
  BY DEF ReadInv, TypeOK, Rows
<1>4. boot.at # "done" /\ boot'.rows = rows
  BY <1>2 DEF bootListServed
<1>5. boot' \in [at : BootStages, rows : Rows]
  BY <1>2, <1>3 DEF BootStages
<1>6. TypeOK'
  BY <1>1, <1>5 DEF ReadInv, TypeOK, BootStages
<1>7. OneStatus' /\ WritesMade'
  BY <1>1, <1>4 DEF ReadInv, OneStatus, WritesMade
<1>8. InOrder' /\ Booting'
  BY <1>1, <1>4 DEF ReadInv, TypeOK, InOrder, Booting
<1> QED
  BY <1>6, <1>7, <1>8 DEF ReadInv

\* It ends, and what it read is the cached status.
LEMMA BootEnds ==
  ASSUME ReadInv, drained, boot.at # "done", NEW rows \in Rows, NEW unreachable \in BOOLEAN,
         bootEnds(rows, unreachable), rows.seen <= ver, oap = Absent => rows.row = Absent
  PROVE  ReadInv'
<1>1. /\ UNCHANGED <<patching, oap, holder, shown, ver, inFlight, probe, req, last, writes>>
      /\ cache' = [rows |-> rows, unreachable |-> unreachable] /\ lastGood' = rows
      /\ boot' = [at |-> "done", rows |-> NeverRead]
  BY DEF bootEnds, storeVars, oapVars
<1>2. boot' \in [at : BootStages, rows : Rows] /\ cache' \in Statuses
  BY <1>1, RecordFacts DEF BootStages, Statuses
<1>3. TypeOK'
  BY <1>1, <1>2 DEF ReadInv, TypeOK, BootStages
<1>4. OneStatus'
  BY <1>1 DEF drained, OneStatus
<1>5. WritesMade'
  BY <1>1 DEF ReadInv, WritesMade
<1>6. InOrder' /\ Booting'
  BY <1>1, RecordFacts DEF ReadInv, TypeOK, InOrder, Booting, Rows
<1> QED
  BY <1>3, <1>4, <1>5, <1>6 DEF ReadInv

LEMMA BootStep ==
  ASSUME ReadInv, drained, bootStep
  PROVE  ReadInv'
<1>1. ASSUME NEW at, bootGoes(at)
      PROVE  /\ boot' = [boot EXCEPT !.at = at] /\ UNCHANGED oapVars
             /\ UNCHANGED <<patching, shown, ver, syncVars, req, last, writes>>
  BY <1>1 DEF bootGoes, storeVars
<1>2. CASE waitForOapAdminReady
  BY <1>1, <1>2, BootGoes DEF waitForOapAdminReady, BootStages
<1>3. CASE bootListServed
  BY <1>3, BootListServed
<1>4. CASE bootListFails
  BY <1>4, BootEnds DEF bootListFails, ReadInv, TypeOK, InOrder, WritesMade
<1>5. CASE seedMissing
  BY <1>1, <1>5, BootGoes DEF seedMissing, BootStages
<1>6. CASE seedCreate
  BY <1>6, BootGoes DEF seedCreate, BootStages
<1>7. CASE seedVisible
  BY <1>1, <1>7, BootGoes DEF seedVisible, BootStages
<1>8. CASE bootSeed
  <2>1. boot.at # "done" /\ bootEnds(boot.rows, FALSE) /\ boot.rows \in Rows
    BY <1>8 DEF bootSeed, ReadInv, TypeOK
  <2>2. boot.rows.seen <= ver /\ (oap = Absent => boot.rows.row = Absent)
    BY <2>1 DEF ReadInv, Booting, WritesMade
  <2> QED
    BY <2>1, <2>2, BootEnds
<1> QED
  BY <1>2, <1>3, <1>4, <1>5, <1>6, <1>7, <1>8 DEF bootStep

(***************************************************************************)
(* The routes.                                                             *)
(***************************************************************************)

\* A request has its status: it answers, or decides on its write.
LEMMA Resume ==
  ASSUME ReadInv, NEW r \in Requests, resume(r)
  PROVE  ReadInv'
<1> DEFINE q == req[r]
           rows == q.got.rows
<1>1. q \in RequestType /\ q.got \in Statuses /\ rows = lastGood /\ rows.row \in Records
  BY DEF resume, ReadInv, TypeOK, OneStatus, Statuses, Rows
<1>2. UNCHANGED <<patching, oap, holder, shown, ver, syncVars, boot, writes>>
  BY DEF resume, storeVars, oapVars
<1>3. CASE answers(r, rows)
  <2>1. /\ req' = [req EXCEPT ![r] = Idle] /\ Idle \in RequestType /\ Idle.at = "idle"
        /\ last' = last \/ (lastGood.calm /\ last' = lastGood.seen)
    BY <1>1, <1>3, RecordFacts DEF answers
  <2>2. oap' \in Records /\ oap' = oap /\ holder' \in Requests \cup {None}
    BY <1>2 DEF ReadInv, TypeOK
  <2> QED
    BY <1>2, <2>1, <2>2, RequestMoves
<1>4. CASE /\ q.op \in Writes /\ ~refused(q.op, rows.row)
           /\ req' = [req EXCEPT ![r] = [q EXCEPT !.at = call(q.op, rows.row),
                                            !.want = wanted(q.op, rows.row), !.got = None]]
           /\ UNCHANGED last
  <2> DEFINE p == [q EXCEPT !.at = call(q.op, rows.row), !.want = wanted(q.op, rows.row), !.got = None]
  <2>1. wanted(q.op, rows.row) \in Contents
    BY <1>1, <1>4 DEF wanted, refused, Writes, Contents, Records, Absent
  <2>2. /\ call(q.op, rows.row) \in {"confirmed", "create", "disable", "update"}
        /\ call(q.op, rows.row) = "disable" => rows.row # Absent
    <3> HIDE DEF rows, q
    <3>1. CASE q.op = "syncAll" /\ inSync(rows.row)
      <4>1. rows.row # Absent
        BY <3>1 DEF inSync, Absent, Enabled
      <4> QED
        BY <3>1, <4>1 DEF call
    <3>2. CASE ~(q.op = "syncAll" /\ inSync(rows.row))
      BY <3>2 DEF call
    <3> QED
      BY <3>1, <3>2
  <2>3. /\ p \in RequestType /\ p.at = call(q.op, rows.row) /\ p.want = wanted(q.op, rows.row)
    BY <1>1, <2>1, <2>2 DEF RequestType
  <2>4. p.at = "disable" => oap # Absent
    BY <1>1, <2>2, <2>3 DEF ReadInv, WritesMade
  <2> HIDE DEF p
  <2>5. req' = [req EXCEPT ![r] = p] /\ last' = last
    BY <1>4 DEF p
  <2>6. p.at \notin {"waits", "got"}
    BY <2>2, <2>3
  <2>7. oap' \in Records /\ oap' = oap /\ holder' \in Requests \cup {None}
    BY <1>2 DEF ReadInv, TypeOK
  <2> QED
    BY <1>2, <2>1, <2>3, <2>4, <2>5, <2>6, <2>7, RequestMoves
<1> QED
  BY <1>3, <1>4 DEF resume

\* What writing requests go to next.
Stages == {"update", "updatePoll", "check", "reenable", "enabledPoll",
           "create", "createPoll", "disable", "disablePoll", "confirmed"}

LEMMA WriteGoes ==
  ASSUME ReadInv, NEW r \in Requests, NEW at \in Stages, req[r].at \in Stages,
         goesTo(r, at), at = "disable" => oap' # Absent,
         oap' \in Records, oap' = Absent => oap = Absent, holder' \in Requests \cup {None},
         UNCHANGED <<patching, shown, ver, syncVars, boot, last, writes>>
  PROVE  ReadInv'
<1> DEFINE q == [req[r] EXCEPT !.at = at]
<1>1. req[r] \in RequestType /\ req[r].want \in Contents
  BY DEF ReadInv, TypeOK, WritesMade, Stages
<1>2. q \in RequestType /\ q.at = at /\ q.want = req[r].want
  BY <1>1 DEF RequestType, Stages
<1>3. req' = [req EXCEPT ![r] = q]
  BY DEF goesTo
<1>4. at \notin {"waits", "got"}
  BY DEF Stages
<1> HIDE DEF q
<1> QED
  BY <1>1, <1>2, <1>3, <1>4, RequestMoves

LEMMA WriteStep ==
  ASSUME ReadInv, NEW r \in Requests, writeStep(r)
  PROVE  ReadInv'
<1>1. req[r] \in RequestType /\ oap \in Records /\ shown \in Records /\ holder \in Requests \cup {None}
      /\ (req[r].at \in Stages => req[r].want \in Contents)
  BY DEF ReadInv, TypeOK, WritesMade, Stages
<1>2. ASSUME NEW record \in Records, record # Absent, NEW visibly, NEW next \in Stages \ {"disable"},
             req[r].at \in Stages, runs(r, record, visibly, next)
      PROVE  ReadInv'
  BY <1>2, WriteGoes DEF runs
<1>3. CASE update(r)
  <2>1. req[r].want \in Contents /\ patching \in BOOLEAN
    BY <1>1, <1>3, StoragesAssumption DEF update, Stages, ReadInv, TypeOK
  <2>2. updated(req[r].want) \in Records /\ updated(req[r].want) # Absent
    BY <1>1, <2>1 DEF updated, Records, Absent, Contents
  <2> QED
    BY <1>2, <1>3, <2>2 DEF update, Stages
<1>4. CASE create(r)
  BY <1>1, <1>2, <1>4, RecordFacts DEF create, Stages
<1>5. CASE reenable(r)
  BY <1>1, <1>2, <1>5, RecordFacts DEF reenable, Stages
<1>6. CASE disable(r)
  <2>1. oap # Absent
    BY <1>6 DEF disable, ReadInv, WritesMade
  <2> QED
    BY <1>1, <1>2, <1>6, <2>1, RecordFacts DEF disable, Stages
<1>7. ASSUME NEW at \in Stages, req[r].at \in Stages, goesTo(r, at),
             at = "disable" => oap # Absent,
             UNCHANGED <<storeVars, syncVars, boot, last, writes>>
      PROVE  ReadInv'
  BY <1>1, <1>7, WriteGoes DEF storeVars, oapVars
<1>8. CASE confirms(r)
  <2>1. CASE updateVisible(r)
    BY <1>7, <2>1 DEF updateVisible, afterUpdate, Stages
  <2>2. CASE enabledChecked(r)
    BY <1>7, <2>2 DEF enabledChecked, Stages
  <2>3. CASE enabledVisible(r)
    BY <1>7, <2>3 DEF enabledVisible, Stages
  <2>4. CASE createVisible(r)
    <3>1. oap # Absent
      BY <2>4 DEF createVisible, ReadInv, WritesMade
    <3> QED
      BY <1>7, <2>4, <3>1 DEF createVisible, Stages
  <2>5. CASE disableVisible(r)
    BY <1>7, <2>5 DEF disableVisible, Stages
  <2> QED
    BY <1>8, <2>1, <2>2, <2>3, <2>4, <2>5 DEF confirms
<1>9. CASE writeFails(r)
  <2>1. CASE req' = [req EXCEPT ![r] = Idle]
    <3>1. UNCHANGED <<patching, oap, holder, shown, ver, syncVars, boot, last, writes>>
      BY <1>9 DEF writeFails, storeVars, oapVars
    <3> QED
      BY <1>1, <2>1, <3>1, RequestMoves, RecordFacts
  <2>2. CASE goesTo(r, "confirmed")
    BY <1>7, <1>9, <2>2 DEF writeFails, Stages
  <2> QED
    BY <1>9, <2>1, <2>2 DEF writeFails
<1>10. CASE reloads(r)
  BY <1>10, AsksForStatus DEF reloads, Ops, ReadInv, TypeOK
<1> QED
  BY <1>3, <1>4, <1>5, <1>6, <1>8, <1>9, <1>10 DEF writeStep

LEMMA Arrives ==
  ASSUME ReadInv, NEW r \in Requests, NEW op \in Routes, arrives(r, op)
  PROVE  ReadInv'
<1>1. writes' \in 0..MaxWrites
  BY WritesAssumption DEF arrives, ReadInv, TypeOK
<1>2. op \in Ops
  BY RoutesAssumption
<1> QED
  BY <1>1, <1>2, AsksForStatus DEF arrives

(***************************************************************************)
(* The invariant, and what follows from it.                                *)
(***************************************************************************)
LEMMA InitReadInv == Init => ReadInv
<1> SUFFICES ASSUME Init PROVE ReadInv
  OBVIOUS
<1>1. oap \in Records
  <2>1. [cfg |-> "edited", disabled |-> TRUE] \in Records
    BY DEF Records, Contents
  <2> QED
    BY <2>1, RecordFacts DEF Init, Contents
<1>2. TypeOK
  BY <1>1, RecordFacts, WritesAssumption, NoneAssumption DEF Init, TypeOK, NoProbe
<1>3. OneStatus /\ WritesMade
  BY RecordFacts DEF Init, OneStatus, WritesMade, NoProbe
<1>4. InOrder /\ Booting
  BY RecordFacts DEF Init, InOrder, Booting, NoProbe
<1> QED
  BY <1>2, <1>3, <1>4 DEF ReadInv

LEMMA StepReadInv ==
  ASSUME ReadInv, [Next]_vars
  PROVE  ReadInv'
<1>1. CASE \E r \in Requests : resume(r)
  BY <1>1, Resume
<1>2. CASE drained /\ event
  <2>1. CASE \E r \in Requests : probeStep(r)
    BY <1>2, <2>1, ListServed, ListReturns, ListFails DEF probeStep
  <2>2. CASE \E r \in Requests : writeStep(r)
    BY <2>2, WriteStep
  <2>3. CASE \E r \in Requests : \E op \in Routes : arrives(r, op)
    BY <2>3, Arrives
  <2>4. CASE bootStep \/ cacheExpires \/ becomesVisible \/ peerWrites
    BY <1>2, <2>4, BootStep, CacheExpires, BecomesVisible, PeerWrites
  <2> QED
    BY <1>2, <2>1, <2>2, <2>3, <2>4 DEF event
<1>3. CASE UNCHANGED vars
  BY <1>3 DEF vars, storeVars, oapVars, syncVars, ReadInv, TypeOK, OneStatus, WritesMade,
     InOrder, Booting
<1> QED
  BY <1>1, <1>2, <1>3 DEF Next

\* The types hold, every caller of getSyncStatus waits for the one probe there
\* is, and nobody waits for none.
THEOREM TypeCorrect == Spec => []TypeOK
<1>1. ReadInv => TypeOK
  BY DEF ReadInv
<1> QED
  BY <1>1, InitReadInv, StepReadInv, PTL DEF Spec

\* An answer after the boot seed is never older than one before it, on either
\* storage, with any number of requests, writes and failed reads.
THEOREM AnswersInOrder == Spec => ReadsGoForward
<1>1. ASSUME ReadInv, [Next]_vars
      PROVE  [last' >= last]_last
  <2>1. last \in Nat /\ last' \in Nat
    BY <1>1, StepReadInv DEF ReadInv, TypeOK
  <2>2. CASE \E r \in Requests : resume(r)
    <3>1. PICK r \in Requests : resume(r)
      BY <2>2
    <3>2. last' = last \/ (lastGood.calm /\ last' = lastGood.seen)
      BY <1>1, <3>1 DEF resume, answers, ReadInv, OneStatus
    <3> QED
      BY <1>1, <2>1, <3>2 DEF ReadInv, InOrder
  <2>3. CASE drained /\ event
    BY <2>3 DEF event, probeStep, listServed, listReturns, listFails, writeStep, update, create,
       reenable, disable, runs, confirms, updateVisible, enabledChecked, enabledVisible,
       createVisible, disableVisible, writeFails, reloads, arrives, bootStep,
       waitForOapAdminReady, bootGoes, bootListServed, bootListFails, bootEnds, seedMissing,
       seedCreate, seedVisible, bootSeed, cacheExpires, becomesVisible, peerWrites
  <2>4. CASE UNCHANGED vars
    BY <2>4 DEF vars
  <2> QED
    BY <1>1, <2>2, <2>3, <2>4 DEF Next
<1> QED
  BY <1>1, InitReadInv, StepReadInv, PTL DEF Spec, ReadsGoForward

(***************************************************************************)
(* Part 2: a write reported as done is live.                               *)
(*                                                                         *)
(* From the call to its confirmation, what the request whose visible       *)
(* change was the last write has brought about on OAP.                     *)
(***************************************************************************)
Enabling == {"save", "push", "enable"}

SaveUnderWay(r) ==
  /\ req[r].at \in {"disable", "disablePoll"} => req[r].op = "disable"
  /\ holder = r =>
       /\ req[r].at = "updatePoll" => /\ oap.cfg = req[r].want
                                      /\ shown = oap \/ shown.cfg # req[r].want
       /\ req[r].at = "check" => shown = oap /\ oap.cfg = req[r].want
       /\ req[r].at \in {"enabledPoll", "createPoll"} => oap = Enabled(req[r].want)
       /\ req[r].at = "confirmed" /\ req[r].op \in Enabling => oap = Enabled(req[r].want)

SaveInv == ReadInv /\ \A r \in Requests : SaveUnderWay(r)

\* A step that moves no write, or loses the hold of the one it disturbs.
LEMMA WriteUndisturbed ==
  ASSUME NEW r, SaveUnderWay(r),
         req'[r] = req[r] \/ req'[r].at \in {"idle", "waits", "got", "create", "update"},
         holder' = r => holder = r /\ oap' = oap /\ (shown' = shown \/ shown' = oap)
  PROVE  SaveUnderWay(r)'
BY DEF SaveUnderWay

\* Asking for a status disturbs no write but the one that is over.
LEMMA AskingMovesNoWrite ==
  ASSUME ReadInv, NEW r \in Requests, NEW op \in Ops, NEW fresh,
         getSyncStatus(r, [Idle EXCEPT !.op = op], fresh), NEW s \in Requests
  PROVE  req'[s] = req[s] \/ req'[s].at \in {"waits", "got"}
<1>1. [Idle EXCEPT !.op = op] \in RequestType
  BY DEF Idle, RequestType
<1> DEFINE q == [Idle EXCEPT !.op = op]
<1>2. \A on : [q EXCEPT !.at = "waits", !.on = on].at = "waits"
  BY <1>1 DEF RequestType
<1>3. \A got : [q EXCEPT !.at = "got", !.got = got].at = "got"
  BY <1>1 DEF RequestType
<1> HIDE DEF q
<1>4. PICK p : req' = [req EXCEPT ![r] = p] /\ p.at \in {"waits", "got"}
  <2>1. calls(r, q, fresh)
    BY DEF getSyncStatus, q
  <2>2. CASE joins(r, q)
    BY <1>2, <2>2 DEF joins
  <2>3. CASE starts(r, q)
    BY <1>2, <2>3 DEF starts
  <2>4. CASE \E held : req' = [req EXCEPT ![r] = [q EXCEPT !.at = "got", !.got = held]]
    BY <1>3, <2>4
  <2> QED
    BY <2>1, <2>2, <2>3, <2>4 DEF calls
<1> QED
  BY <1>4 DEF ReadInv, TypeOK

\* A call that reaches OAP.
LEMMA CallRuns ==
  ASSUME SaveInv, NEW r \in Requests, NEW record, NEW visibly \in BOOLEAN, NEW next,
         runs(r, record, visibly, next), next \in {"updatePoll", "enabledPoll", "createPoll", "disablePoll"},
         next = "updatePoll" => record.cfg = req[r].want /\ (visibly => shown.cfg # req[r].want),
         next \in {"enabledPoll", "createPoll"} => record = Enabled(req[r].want),
         next = "disablePoll" => req[r].op = "disable"
  PROVE  \A s \in Requests : SaveUnderWay(s)'
<1>1. /\ req[r] \in RequestType /\ req' = [req EXCEPT ![r].at = next] /\ oap' = record
      /\ shown' = shown /\ holder' \in {r, None} /\ (holder' = r => visibly)
  BY NoneAssumption DEF runs, goesTo, SaveInv, ReadInv, TypeOK
<1>2. /\ req'[r].at = next /\ req'[r].want = req[r].want /\ req'[r].op = req[r].op
      /\ \A s \in Requests : s # r => req'[s] = req[s]
  BY <1>1 DEF SaveInv, ReadInv, TypeOK, RequestType
<1>3. SaveUnderWay(r)'
  BY <1>1, <1>2 DEF SaveUnderWay
<1>4. ASSUME NEW s \in Requests, s # r
      PROVE  SaveUnderWay(s)'
  BY <1>1, <1>2, <1>4, NoneAssumption, WriteUndisturbed DEF SaveInv
<1> QED
  BY <1>3, <1>4

\* A poll that is satisfied.
LEMMA Confirmed ==
  ASSUME SaveInv, NEW r \in Requests, confirms(r)
  PROVE  \A s \in Requests : SaveUnderWay(s)'
<1>1. req[r] \in RequestType /\ SaveUnderWay(r) /\ oap \in Records /\ UNCHANGED <<oap, shown, holder>>
  BY DEF SaveInv, ReadInv, TypeOK, confirms, updateVisible, enabledChecked, enabledVisible,
     createVisible, disableVisible, storeVars, oapVars
<1>2. ASSUME NEW at, goesTo(r, at)
      PROVE  /\ req'[r].at = at /\ req'[r].want = req[r].want /\ req'[r].op = req[r].op
             /\ \A s \in Requests : s # r => req'[s] = req[s]
  BY <1>1, <1>2 DEF goesTo, SaveInv, ReadInv, TypeOK, RequestType
<1>3. SaveUnderWay(r)'
  <2>1. CASE updateVisible(r)
    BY <1>1, <1>2, <2>1 DEF updateVisible, afterUpdate, SaveUnderWay, Enabling
  <2>2. CASE enabledChecked(r)
    <3>1. oap.cfg = req[r].want /\ ~oap.disabled => oap = Enabled(req[r].want)
      BY <1>1 DEF Records, Enabled, Absent
    <3> QED
      BY <1>1, <1>2, <2>2, <3>1 DEF enabledChecked, SaveUnderWay
  <2>3. CASE enabledVisible(r)
    BY <1>1, <1>2, <2>3 DEF enabledVisible, SaveUnderWay
  <2>4. CASE createVisible(r)
    BY <1>1, <1>2, <2>4 DEF createVisible, SaveUnderWay
  <2>5. CASE disableVisible(r)
    BY <1>1, <1>2, <2>5 DEF disableVisible, SaveUnderWay, Enabling
  <2> QED
    BY <2>1, <2>2, <2>3, <2>4, <2>5 DEF confirms
<1>4. ASSUME NEW s \in Requests, s # r
      PROVE  SaveUnderWay(s)'
  <2>1. req'[s] = req[s]
    BY <1>2, <1>4 DEF confirms, updateVisible, enabledChecked, enabledVisible, createVisible,
       disableVisible
  <2> QED
    BY <1>1, <2>1, WriteUndisturbed DEF SaveInv
<1> QED
  BY <1>3, <1>4

LEMMA WritesMove ==
  ASSUME SaveInv, NEW r \in Requests, writeStep(r)
  PROVE  \A s \in Requests : SaveUnderWay(s)'
<1>1. req[r] \in RequestType /\ SaveUnderWay(r)
  BY DEF SaveInv, ReadInv, TypeOK
<1>2. CASE update(r)
  BY <1>2, CallRuns DEF update, updated
<1>3. CASE create(r)
  BY <1>3, CallRuns DEF create
<1>4. CASE reenable(r)
  BY <1>4, CallRuns DEF reenable
<1>5. CASE disable(r)
  BY <1>1, <1>5, CallRuns DEF disable, SaveUnderWay
<1>6. CASE confirms(r)
  BY <1>6, Confirmed
<1>7. CASE writeFails(r)
  <2>1. UNCHANGED <<oap, shown, holder>> /\ (\A s \in Requests : s # r => req'[s] = req[s])
    BY <1>7 DEF writeFails, storeVars, oapVars, goesTo, SaveInv, ReadInv, TypeOK
  <2>2. SaveUnderWay(r)'
    <3>1. CASE req' = [req EXCEPT ![r] = Idle]
      <4>1. req'[r].at = "idle"
        BY <3>1, RecordFacts DEF SaveInv, ReadInv, TypeOK
      <4> QED
        BY <1>1, <2>1, <4>1, WriteUndisturbed
    <3>2. CASE req[r].op = "syncAll" /\ goesTo(r, "confirmed")
      <4>1. req'[r].at = "confirmed" /\ req'[r].op = "syncAll"
        BY <1>1, <3>2 DEF goesTo, SaveInv, ReadInv, TypeOK, RequestType
      <4> QED
        BY <4>1 DEF SaveUnderWay, Enabling
    <3> QED
      BY <1>7, <3>1, <3>2 DEF writeFails
  <2>3. ASSUME NEW s \in Requests, s # r
        PROVE  SaveUnderWay(s)'
    BY <2>1, <2>3, WriteUndisturbed DEF SaveInv
  <2> QED
    BY <2>2, <2>3
<1>8. CASE reloads(r)
  <2>1. UNCHANGED <<oap, shown, holder>>
    BY <1>8 DEF reloads, storeVars, oapVars
  <2>2. \A s \in Requests : req'[s] = req[s] \/ req'[s].at \in {"waits", "got"}
    BY <1>8, AskingMovesNoWrite DEF reloads, SaveInv, Ops
  <2> QED
    BY <2>1, <2>2, WriteUndisturbed DEF SaveInv
<1> QED
  BY <1>2, <1>3, <1>4, <1>5, <1>6, <1>7, <1>8 DEF writeStep

\* The decision on a write.
LEMMA ResumeWrites ==
  ASSUME SaveInv, NEW r \in Requests, resume(r)
  PROVE  \A s \in Requests : SaveUnderWay(s)'
<1> DEFINE q == req[r]
           row == q.got.rows.row
<1>1. q \in RequestType /\ UNCHANGED <<oap, shown, holder>>
  BY DEF SaveInv, ReadInv, TypeOK, resume, storeVars, oapVars
<1>2. \A s \in Requests : s # r => req'[s] = req[s]
  BY DEF resume, answers, SaveInv, ReadInv, TypeOK
<1>3. CASE answers(r, q.got.rows)
  <2>1. req'[r].at = "idle"
    BY <1>3, RecordFacts DEF answers, SaveInv, ReadInv, TypeOK
  <2> QED
    BY <1>1, <1>2, <2>1, WriteUndisturbed DEF SaveInv
<1>4. CASE req' = [req EXCEPT ![r] = [q EXCEPT !.at = call(q.op, row),
                                         !.want = wanted(q.op, row), !.got = None]]
  <2>1. req'[r].at = call(q.op, row) /\ req'[r].op = q.op
    BY <1>1, <1>4 DEF RequestType, SaveInv, ReadInv, TypeOK
  <2>2. /\ call(q.op, row) \in {"confirmed", "create", "disable", "update"}
        /\ call(q.op, row) = "disable" => q.op = "disable"
        /\ call(q.op, row) = "confirmed" => q.op = "syncAll"
    <3> HIDE DEF q, row
    <3>1. CASE q.op = "syncAll" /\ inSync(row)
      <4>1. row # Absent
        BY <3>1 DEF inSync, Absent, Enabled
      <4> QED
        BY <3>1, <4>1 DEF call
    <3>2. CASE ~(q.op = "syncAll" /\ inSync(row))
      BY <3>2 DEF call
    <3> QED
      BY <3>1, <3>2
  <2>3. SaveUnderWay(r)'
    BY <2>1, <2>2 DEF SaveUnderWay, Enabling
  <2> QED
    BY <1>1, <1>2, <2>3, WriteUndisturbed DEF SaveInv
<1> QED
  BY <1>3, <1>4 DEF resume

LEMMA StepSaveInv ==
  ASSUME SaveInv, [Next]_vars
  PROVE  SaveInv'
<1> SUFFICES \A s \in Requests : SaveUnderWay(s)'
  BY StepReadInv DEF SaveInv
<1>1. CASE \E r \in Requests : resume(r)
  BY <1>1, ResumeWrites
<1>2. CASE \E r \in Requests : writeStep(r)
  BY <1>2, WritesMove
<1>3. CASE \E r \in Requests : probeStep(r)
  <2>1. UNCHANGED <<oap, shown, holder>>
    BY <1>3 DEF probeStep, listServed, listReturns, listFails, storeVars, oapVars
  <2>2. \A s \in Requests : req'[s] = req[s] \/ req'[s].at = "got"
    <3>1. CASE req' = req
      BY <3>1
    <3>2. ASSUME NEW r, NEW status, settles(r, status), NEW s \in Requests
          PROVE  req'[s] = req[s] \/ req'[s].at = "got"
      <4>1. req[s] \in RequestType
        BY DEF SaveInv, ReadInv, TypeOK
      <4>2. req'[s] = req[s] \/ req'[s] = [req[s] EXCEPT !.at = "got", !.on = None, !.got = status]
        BY <3>2 DEF settles
      <4> QED
        BY <4>1, <4>2 DEF RequestType
    <3> QED
      BY <1>3, <3>1, <3>2 DEF probeStep, listServed, listReturns, listFails
  <2> QED
    BY <2>1, <2>2, WriteUndisturbed DEF SaveInv
<1>4. CASE \E r \in Requests : \E op \in Routes : arrives(r, op)
  <2>1. UNCHANGED <<oap, shown, holder>>
    BY <1>4 DEF arrives, storeVars, oapVars
  <2>2. \A s \in Requests : req'[s] = req[s] \/ req'[s].at \in {"waits", "got"}
    BY <1>4, AskingMovesNoWrite, RoutesAssumption DEF arrives, SaveInv
  <2> QED
    BY <2>1, <2>2, WriteUndisturbed DEF SaveInv
<1>5. CASE bootStep \/ cacheExpires \/ becomesVisible \/ peerWrites \/ UNCHANGED vars
  <2>1. /\ req' = req /\ (holder' = None \/ (holder' = holder /\ oap' = oap))
        /\ shown' = shown \/ (shown' = oap /\ oap' = oap)
    BY <1>5 DEF bootStep, waitForOapAdminReady, bootGoes, bootListServed, bootListFails, bootEnds,
       seedMissing, seedCreate, seedVisible, bootSeed, cacheExpires, becomesVisible, peerWrites,
       vars, storeVars, oapVars, syncVars
  <2> QED
    BY <2>1, NoneAssumption, WriteUndisturbed DEF SaveInv
<1> QED
  BY <1>1, <1>2, <1>3, <1>4, <1>5 DEF Next, event

\* A save, push or enable that was confirmed has its content live and enabled,
\* whether or not the storage's update re-enables a record, for any number of
\* requests, until somebody else writes.
THEOREM ConfirmedIsLive == Spec => []SavedIsLive
<1>1. Init => SaveInv
  BY InitReadInv, RecordFacts DEF Init, SaveInv, SaveUnderWay
<1>2. SaveInv => SavedIsLive
  BY DEF SaveInv, SaveUnderWay, SavedIsLive, Enabling
<1> QED
  BY <1>1, <1>2, StepSaveInv, PTL DEF Spec
====
