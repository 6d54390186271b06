---------------------------- MODULE TemplateSync ----------------------------
(***************************************************************************)
(* The template store as the BFF sees it: getSyncStatus, bootSeed and the  *)
(* confirm helpers of logic/templates/sync.ts, and the routes of           *)
(* http/admin/template-sync.ts that read and write through them.           *)
(*                                                                         *)
(* One template name, shipped with the bundle: the routes treat names      *)
(* independently, and a record's id is its name.  The OAP server is        *)
(* external: what list() returns lags behind what was written, an update   *)
(* on BanyanDB (`patching`) leaves a record disabled and a create there    *)
(* overwrites, elsewhere an update enables and a create of an existing     *)
(* record is refused.                                                      *)
(*                                                                         *)
(* The process runs one stretch between two awaits at a time: those whose  *)
(* promise has settled ("got") run before the next event.                  *)
(***************************************************************************)
EXTENDS Integers, FiniteSets

CONSTANTS
  Requests,   \* concurrent request slots
  Storages,   \* what OAP may run on: TRUE for BanyanDB, FALSE for ElasticSearch or JDBC
  Routes,     \* the routes that are called
  MaxWrites,  \* bound: write requests and writes of others in a behaviour
  None        \* null

ASSUME StoragesAssumption == Storages \subseteq BOOLEAN
ASSUME WritesAssumption == MaxWrites \in Nat
ASSUME NoneAssumption == None \notin Requests

Contents == {"bundled", "edited", "invalid"}
Absent == [cfg |-> "none", disabled |-> FALSE]
Records == [cfg : Contents, disabled : BOOLEAN] \cup {Absent}
Enabled(cfg) == [cfg |-> cfg, disabled |-> FALSE]

Writes == {"save", "push", "syncAll", "disable", "enable"}
Ops == Writes \cup {"render", "read"}
ASSUME RoutesAssumption == Routes \subseteq Ops

VARIABLES
  patching,   \* OAP runs on BanyanDB
  oap,        \* the record OAP holds
  shown,      \* the record list() returns
  ver,        \* ghost: how often what list() returns has changed, from 1
  cache,      \* the cached status, None once the 30 s are over
  inFlight,   \* the request whose probe callers join
  lastGood,   \* lastGoodRows
  req,        \* the request in each slot
  probe,      \* the list() call of the probe each slot started
  boot,       \* the boot seed, and the rows its list() returned
  last,       \* ghost: the version of the last answer read after the boot seed
  holder,     \* ghost: the request whose visible change was the last write
  writes      \* writes so far

oapVars == <<oap, holder>>
storeVars == <<patching, oapVars, shown, ver>>
syncVars == <<cache, inFlight, lastGood, probe>>
vars == <<storeVars, syncVars, req, boot, last, writes>>

(***************************************************************************)
(* What a status says of the name, with two ghosts: the version of the     *)
(* list() it was built from, and whether that list was asked for after the *)
(* boot seed.  Before any read, the bundled rows stand in ("Absent").      *)
(***************************************************************************)
Rows == [row : Records, seen : Nat, calm : BOOLEAN]
NeverRead == [row |-> Absent, seen |-> 0, calm |-> TRUE]
Statuses == [rows : Rows, unreachable : BOOLEAN]

Idle == [op |-> "none", at |-> "idle", want |-> "none", on |-> None, got |-> None]
NoProbe == [at |-> "none", rows |-> NeverRead]

Init ==
  /\ patching \in Storages
  /\ oap \in {Absent, Enabled("bundled"), Enabled("invalid"),
              [cfg |-> "edited", disabled |-> TRUE]}
  /\ shown = oap
  /\ ver = 1
  /\ cache = None /\ inFlight = None
  /\ lastGood = NeverRead
  /\ req = [r \in Requests |-> Idle]
  /\ probe = [r \in Requests |-> NoProbe]
  /\ boot = [at |-> "wait", rows |-> NeverRead]
  /\ last = 0
  /\ holder = None
  /\ writes = 0

drained == \A r \in Requests : req[r].at # "got"

------------------------------------------------------------------------------
(* The OAP server. *)

becomesVisible ==
  /\ shown # oap
  /\ shown' = oap
  /\ ver' = ver + 1
  /\ UNCHANGED <<patching, oapVars, syncVars, req, boot, last, writes>>

(* Another replica, or another tool, changes the record. *)
peerWrites ==
  /\ writes < MaxWrites
  /\ writes' = writes + 1
  /\ oap' \in Records \ {oap, Absent}
  /\ holder' = None
  /\ UNCHANGED <<patching, shown, ver, syncVars, req, boot, last>>

updated(cfg) == [cfg |-> cfg, disabled |-> patching /\ oap.disabled]

createRefused == ~patching /\ oap # Absent

------------------------------------------------------------------------------
(***************************************************************************)
(* getSyncStatus as request r calls it: answer from the cache, join the    *)
(* probe in flight, or start one.  resync() empties the cache before it.   *)
(***************************************************************************)
starts(r, q) ==
  /\ req' = [req EXCEPT ![r] = [q EXCEPT !.at = "waits", !.on = r]]
  /\ inFlight' = r
  /\ probe' = [probe EXCEPT ![r] =
                  [at |-> "asked", rows |-> [NeverRead EXCEPT !.calm = boot.at = "done"]]]

joins(r, q) ==
  /\ inFlight # None
  /\ req' = [req EXCEPT ![r] = [q EXCEPT !.at = "waits", !.on = inFlight]]
  /\ UNCHANGED <<inFlight, probe>>

calls(r, q, fresh) ==
  LET held == IF fresh THEN None ELSE cache
  IN  /\ cache' = held
      /\ \/ /\ held # None
            /\ req' = [req EXCEPT ![r] = [q EXCEPT !.at = "got", !.got = held]]
            /\ UNCHANGED <<inFlight, probe>>
         \/ held = None /\ joins(r, q)
         \/ held = None /\ inFlight = None /\ starts(r, q)

rowsAfterResync_None ==  \* mutant: an admin write forgets the rows read before
  NeverRead

(* What invalidateSyncCache leaves of lastGoodRows. *)
rowsAfterResync == lastGood

getSyncStatus(r, q, fresh) ==
  /\ calls(r, q, fresh)
  /\ lastGood' = IF fresh THEN rowsAfterResync ELSE lastGood

arrives(r, op) ==
  /\ req[r] = Idle
  /\ IF op \in Writes THEN writes < MaxWrites /\ writes' = writes + 1
                      ELSE UNCHANGED writes
  /\ getSyncStatus(r, [Idle EXCEPT !.op = op], op # "render")
  /\ UNCHANGED <<storeVars, boot, last>>

cacheExpires_Renewed ==  \* mutant: every hit renews the 30 s
  FALSE /\ UNCHANGED vars

cacheExpires ==
  /\ cache # None
  /\ cache' = None
  /\ UNCHANGED <<storeVars, inFlight, lastGood, probe, req, boot, last, writes>>

listServed(r) ==
  /\ probe[r].at = "asked"
  /\ probe' = [probe EXCEPT ![r] = [at |-> "served",
                  rows |-> [row |-> shown, seen |-> ver, calm |-> @.rows.calm]]]
  /\ UNCHANGED <<storeVars, cache, inFlight, lastGood, req, boot, last, writes>>

settles_StillInFlight(r, status) ==  \* mutant: inFlight is not reset
  /\ cache' = status
  /\ UNCHANGED inFlight
  /\ probe' = [probe EXCEPT ![r] = NoProbe]
  /\ req' = [q \in Requests |->
       IF req[q].at = "waits" /\ req[q].on = r
       THEN [req[q] EXCEPT !.at = "got", !.on = None, !.got = status]
       ELSE req[q]]

(* runOnce's status becomes the cached one, and everyone who waits for it runs. *)
settles(r, status) ==
  /\ cache' = status
  /\ inFlight' = None
  /\ probe' = [probe EXCEPT ![r] = NoProbe]
  /\ req' = [q \in Requests |->
       IF req[q].at = "waits" /\ req[q].on = r
       THEN [req[q] EXCEPT !.at = "got", !.on = None, !.got = status]
       ELSE req[q]]

listReturns(r) ==
  /\ probe[r].at = "served"
  /\ settles(r, [rows |-> probe[r].rows, unreachable |-> FALSE])
  /\ lastGood' = probe[r].rows
  /\ UNCHANGED <<storeVars, boot, last, writes>>

listFails(r) ==
  /\ probe[r].at = "asked"
  /\ settles(r, [rows |-> lastGood, unreachable |-> TRUE])
  /\ UNCHANGED <<storeVars, lastGood, boot, last, writes>>

------------------------------------------------------------------------------
(***************************************************************************)
(* The admin routes.  Each reads a status first; a write route then        *)
(* decides on the row it shows, and after the write answers as a forced    *)
(* read does.                                                              *)
(***************************************************************************)
answers(r, rows) ==
  /\ req' = [req EXCEPT ![r] = Idle]
  /\ last' = IF rows.calm THEN rows.seen ELSE last

goesTo(r, at) == req' = [req EXCEPT ![r].at = at]

refused(op, row) ==
  \/ op \in {"save", "push"} /\ row = Enabled("invalid")
  \/ op = "enable" /\ ~row.disabled

inSync(row) == row.disabled \/ row \in {Enabled("bundled"), Enabled("invalid")}

wanted(op, row) ==
  CASE op = "save" -> "edited"
    [] op = "enable" -> row.cfg
    [] OTHER -> "bundled"

call(op, row) ==
  CASE op = "syncAll" /\ inSync(row) -> "confirmed"
    [] row = Absent -> "create"
    [] op = "disable" /\ row # Absent -> "disable"
    [] OTHER -> "update"

resume(r) ==
  LET q == req[r]
      rows == q.got.rows
  IN  /\ q.at = "got"
      /\ \/ /\ q.op \in {"render", "read"} \/ q.got.unreachable \/ refused(q.op, rows.row)
            /\ answers(r, rows)
         \/ /\ q.op \in Writes /\ ~q.got.unreachable /\ ~refused(q.op, rows.row)
            /\ req' = [req EXCEPT ![r] = [q EXCEPT !.at = call(q.op, rows.row),
                                             !.want = wanted(q.op, rows.row), !.got = None]]
            /\ UNCHANGED last
      /\ UNCHANGED <<storeVars, syncVars, boot, writes>>

reloads(r) ==
  /\ req[r].at = "confirmed"
  /\ getSyncStatus(r, [Idle EXCEPT !.op = "read"], TRUE)
  /\ UNCHANGED <<storeVars, boot, last, writes>>

(***************************************************************************)
(* A call that errors, an acknowledgement that refuses, a poll at its      *)
(* deadline: sync-all reports it in its answer, the others give up.  What  *)
(* OAP did of the call stands.                                             *)
(***************************************************************************)
writeFails(r) ==
  /\ req[r].at \in {"update", "create", "disable", "reenable", "check",
                    "updatePoll", "createPoll", "disablePoll", "enabledPoll"}
  /\ IF req[r].op = "syncAll" THEN goesTo(r, "confirmed")
                              ELSE req' = [req EXCEPT ![r] = Idle]
  /\ UNCHANGED <<storeVars, syncVars, boot, last, writes>>

(* A call reaches OAP. *)
runs(r, record, visibly, next) ==
  /\ oap' = record
  /\ holder' = IF visibly THEN r ELSE None
  /\ goesTo(r, next)
  /\ UNCHANGED <<patching, shown, ver, syncVars, boot, last, writes>>

update(r) ==
  /\ req[r].at = "update"
  /\ runs(r, updated(req[r].want), shown.cfg # req[r].want, "updatePoll")

create(r) ==
  /\ req[r].at = "create"
  /\ ~createRefused
  /\ runs(r, Enabled(req[r].want), shown = Absent, "createPoll")

reenable(r) ==
  /\ req[r].at = "reenable"
  /\ ~createRefused
  /\ runs(r, Enabled(req[r].want), TRUE, "enabledPoll")

disable(r) ==
  /\ req[r].at = "disable"
  /\ runs(r, [oap EXCEPT !.disabled = TRUE], TRUE, "disablePoll")

afterUpdate_Unchecked(op) == "confirmed"  \* mutant: an update is taken to enable

(* updateAndConfirm returns: save, push and enable go on to check that it is enabled. *)
afterUpdate(op) == IF op = "syncAll" THEN "confirmed" ELSE "check"

updateVisible(r) ==
  /\ req[r].at = "updatePoll"
  /\ shown.cfg = req[r].want
  /\ goesTo(r, afterUpdate(req[r].op))
  /\ UNCHANGED <<storeVars, syncVars, boot, last, writes>>

enabledChecked(r) ==
  /\ req[r].at = "check"
  /\ goesTo(r, IF shown.disabled THEN "reenable" ELSE "confirmed")
  /\ UNCHANGED <<storeVars, syncVars, boot, last, writes>>

enabledVisible(r) ==
  /\ req[r].at = "enabledPoll"
  /\ shown = Enabled(req[r].want)
  /\ goesTo(r, "confirmed")
  /\ UNCHANGED <<storeVars, syncVars, boot, last, writes>>

createVisible(r) ==
  /\ req[r].at = "createPoll"
  /\ shown # Absent
  /\ goesTo(r, IF req[r].op = "disable" THEN "disable" ELSE "confirmed")
  /\ UNCHANGED <<storeVars, syncVars, boot, last, writes>>

disableVisible(r) ==
  /\ req[r].at = "disablePoll"
  /\ shown.disabled
  /\ goesTo(r, "confirmed")
  /\ UNCHANGED <<storeVars, syncVars, boot, last, writes>>

confirms(r) ==
  \/ updateVisible(r) \/ enabledChecked(r) \/ enabledVisible(r)
  \/ createVisible(r) \/ disableVisible(r)

------------------------------------------------------------------------------
(***************************************************************************)
(* The boot seed: wait for OAP, list, create the record if the list has    *)
(* none, list again.  It shares no probe with getSyncStatus and leaves its *)
(* status in the cache whenever it ends.                                   *)
(***************************************************************************)
bootGoes(at) ==
  /\ boot' = [boot EXCEPT !.at = at]
  /\ UNCHANGED <<storeVars, syncVars, req, last, writes>>

bootEnds(rows, unreachable) ==
  /\ cache' = [rows |-> rows, unreachable |-> unreachable]
  /\ lastGood' = rows
  /\ boot' = [at |-> "done", rows |-> NeverRead]
  /\ UNCHANGED <<storeVars, inFlight, probe, req, last, writes>>

waitForOapAdminReady == boot.at = "wait" /\ bootGoes("list")

bootListServed ==
  /\ boot.at \in {"list", "relist"}
  /\ boot' = [at |-> IF boot.at = "list" THEN "listed" ELSE "relisted",
              rows |-> [row |-> shown, seen |-> ver, calm |-> FALSE]]
  /\ UNCHANGED <<storeVars, syncVars, req, last, writes>>

bootListFails == boot.at = "list" /\ bootEnds(lastGood, TRUE)

toSeed(row) == row = Absent

seedMissing == boot.at = "listed" /\ toSeed(boot.rows.row) /\ bootGoes("create")

seedCreate ==
  /\ boot.at = "create"
  /\ \/ ~createRefused /\ oap' = Enabled("bundled") /\ holder' = None /\ boot' = [boot EXCEPT !.at = "createPoll"]
     \/ UNCHANGED oapVars /\ boot' = [boot EXCEPT !.at = "seeded"]
  /\ UNCHANGED <<patching, shown, ver, syncVars, req, last, writes>>

seedVisible ==
  /\ boot.at = "createPoll"
  /\ \/ shown # Absent /\ bootGoes("relist")
     \/ bootGoes("seeded")

bootSeed ==
  /\ \/ boot.at \in {"seeded", "relist", "relisted"}
     \/ boot.at = "listed" /\ ~toSeed(boot.rows.row)
  /\ bootEnds(boot.rows, FALSE)

bootStep ==
  \/ waitForOapAdminReady \/ bootListServed \/ bootListFails
  \/ seedMissing \/ seedCreate \/ seedVisible \/ bootSeed

------------------------------------------------------------------------------
probeStep(r) == listServed(r) \/ listReturns(r) \/ listFails(r)

writeStep(r) ==
  \/ update(r) \/ create(r) \/ reenable(r) \/ disable(r)
  \/ confirms(r) \/ writeFails(r) \/ reloads(r)

event ==
  \/ \E r \in Requests : \/ probeStep(r) \/ writeStep(r)
                         \/ \E op \in Routes : arrives(r, op)
  \/ bootStep \/ cacheExpires \/ becomesVisible \/ peerWrites

Next ==
  \/ \E r \in Requests : resume(r)
  \/ drained /\ event

Spec == Init /\ [][Next]_vars

(***************************************************************************)
(* Calls have timeouts and polls a deadline, so what is awaited comes to   *)
(* an end.  For changes to be seen, pages must go on being rendered, the   *)
(* cache runs on a clock, and OAP must not fail every list() for ever.     *)
(* Strong fairness, because an event waits while a stretch runs.           *)
(***************************************************************************)
LiveSpec ==
  /\ Spec
  /\ WF_vars(\E r \in Requests : resume(r))
  /\ SF_vars(drained /\ \E r \in Requests : probeStep(r))
  /\ SF_vars(drained /\ \E r \in Requests : listServed(r))
  /\ \A r \in Requests : SF_vars(drained /\ writeStep(r))
  /\ SF_vars(drained /\ bootStep)
  /\ SF_vars(drained /\ cacheExpires)
  /\ SF_vars(drained /\ becomesVisible)
  /\ SF_vars(drained /\ \E r \in Requests : arrives(r, "render"))

------------------------------------------------------------------------------
RequestType ==
  [op : Ops \cup {"none"},
   at : {"idle", "waits", "got", "confirmed", "update", "updatePoll", "check",
         "reenable", "enabledPoll", "create", "createPoll", "disable", "disablePoll"},
   want : Contents \cup {"none"},
   on : Requests \cup {None},
   got : Statuses \cup {None}]

(* The types of the variables, and who waits for which probe. *)
TypeOK ==
  /\ patching \in Storages
  /\ oap \in Records /\ shown \in Records /\ ver \in Nat \ {0}
  /\ cache \in Statuses \cup {None}
  /\ inFlight \in Requests \cup {None}
  /\ lastGood \in Rows
  /\ req \in [Requests -> RequestType]
  /\ probe \in [Requests -> [at : {"none", "asked", "served"}, rows : Rows]]
  /\ boot \in [at : {"wait", "list", "listed", "create", "createPoll", "seeded",
                     "relist", "relisted", "done"}, rows : Rows]
  /\ last \in Nat
  /\ holder \in Requests \cup {None}
  /\ writes \in 0..MaxWrites
  /\ \A r \in Requests :
       /\ probe[r].at # "none" <=> inFlight = r
       /\ req[r].at = "waits" => inFlight # None /\ req[r].on = inFlight

(***************************************************************************)
(* Once the boot seed is over, an answer is never older than one given     *)
(* before it: probes are single-flighted, and a failed read answers with   *)
(* the rows of the last good one, which an admin write does not discard.   *)
(***************************************************************************)
ReadsGoForward == [][last' >= last]_last

(***************************************************************************)
(* A save, push or enable reported as done has its content live on OAP,    *)
(* enabled, on every storage, unless somebody has written since: the check *)
(* updateEnabledAndConfirm adds for a store whose update leaves a record   *)
(* disabled.  (Asked of writes that changed what list() showed: a poll     *)
(* that is satisfied by what it showed before confirms nothing.)           *)
(***************************************************************************)
SavedIsLive ==
  \A r \in Requests :
    req[r].at = "confirmed" /\ req[r].op \in {"save", "push", "enable"} /\ holder = r
      => oap = Enabled(req[r].want)

(* While pages are rendered, what OAP shows is what they come to be rendered from. *)
ChangesAreSeen == []<>(last = ver)
=============================================================================
