---------------------------- MODULE AuditService ----------------------------
(***************************************************************************)
(* BufferedAuditService of apps/bff/src/store/audit/service.ts: the event  *)
(* buffer, the one timer that drives every store call, the health an       *)
(* operator reads, and the shutdown sequence server.ts runs.               *)
(*                                                                         *)
(* The event loop runs one handler at a time up to its next await, so an   *)
(* action is one such stretch: it starts where a call or an answer enters  *)
(* the service and ends at the next store call.  Every answer of the store *)
(* is an action of its own and may come in any order with the others.      *)
(*                                                                         *)
(* An event is the number of its arrival.  A statistic row and a token use *)
(* are counted only: AuditCounters and TokenUsage model what they hold.    *)
(***************************************************************************)
EXTENDS Naturals, Sequences, Functions

CONSTANTS
  MaxBuffered,        \* MAX_BUFFERED_EVENTS
  BatchRows,          \* cfg.eventBatchRows
  MaxBatches,         \* MAX_BATCHES_PER_PASS
  AggregateEvery,     \* aggregates run on every n-th tick
  SweepEvery,         \* retention runs on every n-th tick
  ShutdownMaxPasses,  \* SHUTDOWN_MAX_PASSES
  ProbesWritable,     \* what a probe may report as `writable', by the store
  DeadlineFires,      \* the shutdown clock may run out before the store answers
  MaxEvents,          \* bound: sign-ins admitted in a behaviour
  MaxStatRows,        \* bound: hour cells the statistics may hold at once
  MaxReads            \* bound: page reads in flight at once

\* config/audit.ts:154 caps eventBatchRows at 500, service.ts:61 sets the
\* ceiling to 10000, and 1000 passes of 20 batches of one row cover it.
ASSUME SizesAssumption ==
  /\ MaxBuffered \in Nat /\ BatchRows \in Nat \ {0} /\ MaxBatches \in Nat \ {0}
  /\ BatchRows < MaxBuffered

ASSUME PassesAssumption ==
  /\ ShutdownMaxPasses \in Nat
  /\ ShutdownMaxPasses * MaxBatches * BatchRows >= MaxBuffered

ASSUME CadenceAssumption ==
  AggregateEvery \in Nat \ {0} /\ SweepEvery \in Nat \ {0}

ASSUME ModeAssumption == ProbesWritable \subseteq BOOLEAN /\ DeadlineFires \in BOOLEAN

ASSUME BoundsAssumption ==
  MaxEvents \in Nat /\ MaxStatRows \in Nat \ {0} /\ MaxReads \in Nat

Channels == {"events", "stats", "tokens"}
NoError == "none"

(***************************************************************************)
(* lastError is kept as what it reports: the channel whose write failed,   *)
(* or "store" for a probe, read or sweep that failed.                      *)
(***************************************************************************)
Errors == Channels \cup {"store", NoError}

VARIABLES
  \* the buffer and what became of each event
  recorded,     \* number of sign-ins admitted so far
  buffer,       \* sign-ins not yet on the wire, oldest first
  batch,        \* the rows detached from the buffer, on the wire
  flushing,     \* number of the batch on the wire in this pass, 0 when no pass runs
  stored,       \* events a write of which was answered with success
  dropped,      \* events given up by an overflow or by a failed write
  unconfirmed,  \* counters.unconfirmed, the number shown to the operator
  \* the health of the store as the service believes it
  health,
  \* the other write channels
  statRows,     \* non-empty hour cells of the statistics
  statting,     \* the statistics append in flight: rows left, and whether one failed
  unsent,       \* token uses counted and in no submitted write
  tokenFlushing,
  \* the callers
  startPc, timer, tickPc, ticks, reads, serving,
  \* shutdown
  stopPc, awaiting, before, passes, stopped,
  \* the store: whether its probe runs the writer's statements (PostgreSQL) or
  \* not (BanyanDB), and whether it answers every call with success from here on
  probeWritable, healed

queueVars == <<recorded, buffer, batch, flushing, stored, dropped, unconfirmed>>
wireVars  == <<buffer, batch, flushing>>
fateVars  == <<recorded, stored, dropped, unconfirmed>>
sideVars  == <<statting, unsent, tokenFlushing>>
tickVars  == <<timer, tickPc, ticks>>
stopVars  == <<stopPc, awaiting, before, passes, stopped>>
httpVars  == <<reads, serving>>
storeVars == <<probeWritable, healed>>
vars == <<queueVars, health, statRows, sideVars, startPc, tickVars, httpVars, stopVars, storeVars>>

stopping == stopPc # "no"

(***************************************************************************)
(* Health.  Each operator is one of the private mark functions, applied to *)
(* the record of what the service believes; u is counters.unconfirmed at   *)
(* that moment, and window stands for unavailableSince # 0.                *)
(***************************************************************************)
Healths == [available : BOOLEAN, reachable : BOOLEAN, error : Errors,
            faults : SUBSET Channels, window : BOOLEAN, base : Nat]

beginUnhealthyWindow(h, u) ==
  IF h.window THEN h ELSE [h EXCEPT !.window = TRUE, !.base = u]

markUnavailable(h, u) ==
  beginUnhealthyWindow(
    [h EXCEPT !.available = FALSE, !.reachable = FALSE, !.error = "store"], u)

markWriteFailed(h, channel, u) ==
  beginUnhealthyWindow(
    [h EXCEPT !.faults = @ \cup {channel}, !.available = FALSE, !.error = channel], u)

markAvailable(h) ==
  [h EXCEPT !.reachable = TRUE, !.faults = {}, !.error = NoError,
            !.available = TRUE, !.window = h.available /\ @]

settleFaults_KeepsError(h, remaining) ==  \* mutant: the error shown is not renewed
  IF remaining = {} THEN markAvailable(h) ELSE [h EXCEPT !.faults = remaining]

\* The Map yields its first key; which of the failing ones it is does not matter.
settleFaults(h, remaining) ==
  IF remaining = {}
  THEN markAvailable(h)
  ELSE [h EXCEPT !.faults = remaining, !.error = CHOOSE c \in remaining : TRUE]

markWriteOk(h, channel) == settleFaults(h, h.faults \ {channel})

vouchedFor_All == Channels  \* mutant: a passing probe clears every channel

vouchedFor_None == {}  \* mutant: only a channel's own write lifts its fault

\* The channels whose writer's statement the probe runs.
vouchedFor == IF probeWritable THEN {"events", "tokens"} ELSE {}

markProbeOk(h) == settleFaults([h EXCEPT !.reachable = TRUE], h.faults \ vouchedFor)

markReadOk(h) == IF h.reachable /\ h.faults = {} THEN markAvailable(h) ELSE h

\* A call may fail until the store has healed; a pool closed under a
\* timed-out shutdown fails whatever the server would have said.
MayFail == ~healed \/ stopped = "timedOut"

tryOpen(h) ==
  {markProbeOk(h)} \cup (IF MayFail THEN {markUnavailable(h, unconfirmed)} ELSE {})

Init ==
  /\ recorded = 0 /\ buffer = <<>> /\ batch = <<>> /\ flushing = 0
  /\ stored = {} /\ dropped = {} /\ unconfirmed = 0
  /\ health = [available |-> FALSE, reachable |-> FALSE, error |-> NoError,
               faults |-> {}, window |-> FALSE, base |-> 0]
  /\ statRows = 0 /\ statting = [left |-> 0, failed |-> FALSE]
  /\ unsent = FALSE /\ tokenFlushing = FALSE
  /\ startPc = "boot" /\ timer = FALSE /\ tickPc = "idle" /\ ticks = 0
  /\ reads = 0 /\ serving = TRUE
  /\ stopPc = "no" /\ awaiting = {} /\ before = 0 /\ passes = 0 /\ stopped = "no"
  /\ probeWritable \in ProbesWritable /\ healed = FALSE

-----------------------------------------------------------------------------
(***************************************************************************)
(* Event rows                                                              *)
(***************************************************************************)
Smaller(a, b) == IF a < b THEN a ELSE b

\* buffer.splice(0, eventBatchRows) of rows, as the k-th batch of the pass
detachBatch(rows, k) ==
  LET n == Smaller(BatchRows, Len(rows))
  IN  /\ batch' = SubSeq(rows, 1, n)
      /\ buffer' = SubSeq(rows, n + 1, Len(rows))
      /\ flushing' = k

\* mutant: a second caller starts a pass of its own instead of joining
flushEvents_NoJoin(rows) ==
  IF rows # <<>> THEN detachBatch(rows, 1) ELSE buffer' = rows /\ UNCHANGED <<batch, flushing>>

\* Joins the pass in flight, or starts one when there is something to write.
flushEvents(rows) ==
  IF flushing = 0 /\ rows # <<>>
  THEN detachBatch(rows, 1)
  ELSE buffer' = rows /\ UNCHANGED <<batch, flushing>>

full == Len(buffer) + Len(batch) >= MaxBuffered

\* What the buffer holds once the new row is in: on overflow the oldest goes.
pushed == Append(IF full THEN SubSeq(buffer, 2, Len(buffer)) ELSE buffer, recorded + 1)

growStats == statRows' \in {statRows, statRows + 1} \cap (1..MaxStatRows)

recordEvent ==
  /\ serving /\ recorded < MaxEvents
  /\ recorded' = recorded + 1
  /\ growStats
  /\ IF full
     THEN dropped' = dropped \cup {buffer[1]} /\ unconfirmed' = unconfirmed + 1
     ELSE UNCHANGED <<dropped, unconfirmed>>
  /\ IF Len(pushed) >= BatchRows /\ health.available /\ ~stopping
     THEN flushEvents(pushed)
     ELSE buffer' = pushed /\ UNCHANGED <<batch, flushing>>
  /\ UNCHANGED <<stored, health, sideVars, startPc, tickVars, httpVars, stopVars, storeVars>>

\* The hourly budget refused the row: it is counted in the statistics only.
refuseEvent ==
  /\ serving /\ growStats
  /\ UNCHANGED <<queueVars, health, sideVars, startPc, tickVars, httpVars, stopVars, storeVars>>

endPass == batch' = <<>> /\ flushing' = 0

moreBatches_OffByOne == flushing <= MaxBatches  \* mutant

moreBatches == flushing < MaxBatches

writeEventsOk ==
  /\ flushing > 0
  /\ stored' = stored \cup Range(batch)
  /\ health' = markWriteOk(health, "events")
  /\ IF moreBatches /\ buffer # <<>>
     THEN detachBatch(buffer, flushing + 1)
     ELSE endPass /\ UNCHANGED buffer
  /\ UNCHANGED <<recorded, dropped, unconfirmed, statRows, sideVars, startPc,
                 tickVars, httpVars, stopVars, storeVars>>

\* mutant: the drop is counted before the fault is marked
healthAfterDrop_CountedFirst == markWriteFailed(health, "events", unconfirmed + Len(batch))

healthAfterDrop == markWriteFailed(health, "events", unconfirmed)

\* The batch is dropped and the pass ends: what is left waits for the next one.
writeEventsFailed ==
  /\ flushing > 0 /\ MayFail
  /\ health' = healthAfterDrop
  /\ dropped' = dropped \cup Range(batch)
  /\ unconfirmed' = unconfirmed + Len(batch)
  /\ endPass
  /\ UNCHANGED <<recorded, buffer, stored, statRows, sideVars, startPc,
                 tickVars, httpVars, stopVars, storeVars>>

-----------------------------------------------------------------------------
(***************************************************************************)
(* Statistics and token uses                                               *)
(***************************************************************************)
flushStats ==
  IF statting.left = 0
  THEN statting' = [left |-> statRows, failed |-> FALSE]
  ELSE UNCHANGED statting

\* One row of the append answered; the last one settles the channel.
writeStat ==
  /\ statting.left > 0
  /\ \E failed \in IF MayFail THEN BOOLEAN ELSE {FALSE} :
       LET any == statting.failed \/ failed
           h   == IF failed THEN markWriteFailed(health, "stats", unconfirmed) ELSE health
       IN  /\ statting' = [left |-> statting.left - 1, failed |-> any]
           /\ health' = IF statting.left = 1 /\ ~any THEN markWriteOk(h, "stats") ELSE h
  /\ UNCHANGED <<queueVars, statRows, unsent, tokenFlushing, startPc, tickVars,
                 httpVars, stopVars, storeVars>>

countTokenUse ==
  /\ serving /\ unsent' = TRUE
  /\ UNCHANGED <<queueVars, health, statRows, statting, tokenFlushing, startPc,
                 tickVars, httpVars, stopVars, storeVars>>

flushTokenUsage ==
  IF ~tokenFlushing /\ unsent
  THEN tokenFlushing' = TRUE /\ unsent' = FALSE
  ELSE UNCHANGED <<tokenFlushing, unsent>>

writeTokenUsage ==
  /\ tokenFlushing /\ tokenFlushing' = FALSE
  /\ \/ health' = markWriteOk(health, "tokens") /\ UNCHANGED unsent
     \/ MayFail /\ health' = markWriteFailed(health, "tokens", unconfirmed) /\ unsent' = TRUE
  /\ UNCHANGED <<queueVars, statRows, statting, startPc, tickVars, httpVars, stopVars, storeVars>>

-----------------------------------------------------------------------------
(***************************************************************************)
(* Page reads                                                              *)
(***************************************************************************)
beginRead ==
  /\ serving /\ reads < MaxReads /\ reads' = reads + 1
  /\ UNCHANGED <<queueVars, health, statRows, sideVars, startPc, tickVars, serving,
                 stopVars, storeVars>>

\* A read that timed out or was too large leaves the health alone.
tracked ==
  /\ reads > 0 /\ reads' = reads - 1
  /\ \/ health' = markReadOk(health)
     \/ UNCHANGED health
     \/ MayFail /\ health' = markUnavailable(health, unconfirmed)
  /\ UNCHANGED <<queueVars, statRows, sideVars, startPc, tickVars, serving, stopVars, storeVars>>

-----------------------------------------------------------------------------
(***************************************************************************)
(* Start, and the timer's tick                                             *)
(***************************************************************************)
start ==
  /\ startPc = "boot"
  /\ startPc' = IF stopping THEN "done" ELSE "opening"
  /\ UNCHANGED <<queueVars, health, statRows, sideVars, tickVars, httpVars, stopVars, storeVars>>

startOpened ==
  /\ startPc = "opening" /\ startPc' = "done"
  /\ health' \in tryOpen(health)
  /\ timer' = ~stopping
  /\ UNCHANGED <<queueVars, statRows, sideVars, tickPc, ticks, httpVars, stopVars, storeVars>>

\* Gated on reachability, not on health: a failing channel is retried.
mayWrite(h) == h.reachable

tick ==
  /\ timer /\ tickPc = "idle" /\ ~stopping
  /\ ticks' = (ticks + 1) % (AggregateEvery * SweepEvery)
  /\ IF mayWrite(health)
     THEN tickPc' = "events" /\ flushEvents(buffer)
     ELSE tickPc' = "open" /\ UNCHANGED wireVars
  /\ UNCHANGED <<fateVars, health, statRows, sideVars, startPc, timer, httpVars, stopVars, storeVars>>

tickOpened ==
  /\ tickPc = "open"
  /\ health' \in tryOpen(health)
  /\ IF mayWrite(health')
     THEN tickPc' = "events" /\ flushEvents(buffer)
     ELSE tickPc' = "idle" /\ UNCHANGED wireVars
  /\ UNCHANGED <<fateVars, statRows, sideVars, startPc, timer, ticks, httpVars, stopVars, storeVars>>

sweepOrEnd == tickPc' = IF ticks % SweepEvery = 0 /\ ~stopping THEN "sweep" ELSE "idle"

tickFlushed ==
  /\ tickPc = "events" /\ flushing = 0
  /\ IF ticks % AggregateEvery = 0
     THEN tickPc' = "stats" /\ flushStats
     ELSE sweepOrEnd /\ UNCHANGED statting
  /\ UNCHANGED <<queueVars, health, statRows, unsent, tokenFlushing, startPc, timer, ticks,
                 httpVars, stopVars, storeVars>>

tickStatted ==
  /\ tickPc = "stats" /\ statting.left = 0
  /\ tickPc' = "tokens" /\ flushTokenUsage
  /\ UNCHANGED <<queueVars, health, statRows, statting, startPc, timer, ticks, httpVars,
                 stopVars, storeVars>>

\* A channel still failing gets a probe, which may vouch for it.
tickTokensDone ==
  /\ tickPc = "tokens" /\ ~tokenFlushing
  /\ IF health.faults # {} THEN tickPc' = "reopen" ELSE sweepOrEnd
  /\ UNCHANGED <<queueVars, health, statRows, sideVars, startPc, timer, ticks, httpVars,
                 stopVars, storeVars>>

tickReopened ==
  /\ tickPc = "reopen"
  /\ health' \in tryOpen(health)
  /\ sweepOrEnd
  /\ UNCHANGED <<queueVars, statRows, sideVars, startPc, timer, ticks, httpVars, stopVars, storeVars>>

runSweep ==
  /\ tickPc = "sweep" /\ tickPc' = "idle"
  /\ \/ UNCHANGED health
     \/ MayFail /\ health' = markUnavailable(health, unconfirmed)
  /\ UNCHANGED <<queueVars, statRows, sideVars, startPc, timer, ticks, httpVars, stopVars, storeVars>>

-----------------------------------------------------------------------------
(***************************************************************************)
(* Shutdown                                                                *)
(***************************************************************************)
\* server.ts closes the HTTP server first, which waits for its requests.
closeHttp ==
  /\ serving /\ reads = 0 /\ serving' = FALSE
  /\ UNCHANGED <<queueVars, health, statRows, sideVars, startPc, tickVars, reads, stopVars, storeVars>>

inFlight_NoTick ==  \* mutant: only the write handles are joined
  (IF flushing > 0 THEN {"flush"} ELSE {}) \cup (IF statting.left > 0 THEN {"stat"} ELSE {})
  \cup (IF tokenFlushing THEN {"token"} ELSE {})

\* The handles drainAndClose joins, those that are not null.
inFlight ==
  (IF tickPc # "idle" THEN {"tick"} ELSE {}) \cup (IF flushing > 0 THEN {"flush"} ELSE {})
  \cup (IF statting.left > 0 THEN {"stat"} ELSE {}) \cup (IF tokenFlushing THEN {"token"} ELSE {})

httpClosed == ~serving

stop ==
  /\ httpClosed /\ stopPc = "no"
  /\ timer' = FALSE
  /\ IF startPc = "opening"
     THEN stopPc' = "joinStart" /\ UNCHANGED awaiting
     ELSE stopPc' = "join1" /\ awaiting' = inFlight
  /\ UNCHANGED <<queueVars, health, statRows, sideVars, startPc, tickPc, ticks, httpVars,
                 before, passes, stopped, storeVars>>

joinStart ==
  /\ stopPc = "joinStart" /\ startPc # "opening"
  /\ stopPc' = "join1" /\ awaiting' = inFlight
  /\ UNCHANGED <<queueVars, health, statRows, sideVars, startPc, tickVars, httpVars,
                 before, passes, stopped, storeVars>>

joinOnce ==
  /\ stopPc = "join1" /\ awaiting \cap inFlight = {}
  /\ stopPc' = "join2" /\ awaiting' = inFlight
  /\ UNCHANGED <<queueVars, health, statRows, sideVars, startPc, tickVars, httpVars,
                 before, passes, stopped, storeVars>>

\* The head of the drain loop, after n passes; past it, the statistics.
drainPass(n) ==
  IF n < ShutdownMaxPasses /\ buffer # <<>>
  THEN /\ stopPc' = "drain" /\ passes' = n + 1 /\ before' = Len(buffer)
       /\ flushEvents(buffer) /\ UNCHANGED statting
  ELSE /\ stopPc' = "stats" /\ flushStats /\ UNCHANGED <<wireVars, passes, before>>

joinTwice ==
  /\ stopPc = "join2" /\ awaiting \cap inFlight = {}
  /\ IF health.available
     THEN drainPass(0)
     ELSE stopPc' = "open" /\ UNCHANGED <<wireVars, passes, before, statting>>
  /\ UNCHANGED <<fateVars, health, statRows, unsent, tokenFlushing, startPc, tickVars,
                 httpVars, awaiting, stopped, storeVars>>

stopOpened ==
  /\ stopPc = "open"
  /\ health' \in tryOpen(health)
  /\ drainPass(0)
  /\ UNCHANGED <<fateVars, statRows, unsent, tokenFlushing, startPc, tickVars, httpVars,
                 awaiting, stopped, storeVars>>

stopDrained ==
  /\ stopPc = "drain" /\ flushing = 0
  /\ drainPass(IF Len(buffer) >= before THEN ShutdownMaxPasses ELSE passes)
  /\ UNCHANGED <<fateVars, health, statRows, unsent, tokenFlushing, startPc, tickVars,
                 httpVars, awaiting, stopped, storeVars>>

stopStatted ==
  /\ stopPc = "stats" /\ statting.left = 0
  /\ stopPc' = "tokens" /\ flushTokenUsage
  /\ UNCHANGED <<queueVars, health, statRows, statting, startPc, tickVars, httpVars,
                 awaiting, before, passes, stopped, storeVars>>

stopTokensDone ==
  /\ stopPc = "tokens" /\ ~tokenFlushing
  /\ stopPc' = "close"
  /\ UNCHANGED <<queueVars, health, statRows, sideVars, startPc, tickVars, httpVars,
                 awaiting, before, passes, stopped, storeVars>>

\* store.close() returned: an orderly stop, unless the clock ran out before.
storeClosed ==
  /\ stopPc = "close" /\ stopPc' = "closed"
  /\ IF stopped = "no"
     THEN stopped' = "orderly" /\ health' = [health EXCEPT !.available = FALSE]
     ELSE UNCHANGED <<stopped, health>>
  /\ UNCHANGED <<queueVars, statRows, sideVars, startPc, tickVars, httpVars,
                 awaiting, before, passes, storeVars>>

clockRuns_DrainOnly == stopPc = "drain"  \* mutant: the deadline bounds the drain alone

clockRuns == stopping

\* The clock over the whole sequence: what is still held is counted and left.
withDeadline ==
  /\ DeadlineFires /\ clockRuns /\ stopped = "no"
  /\ stopped' = "timedOut"
  /\ unconfirmed' = unconfirmed + Len(buffer) + Len(batch)
  /\ health' = [health EXCEPT !.available = FALSE]
  /\ UNCHANGED <<recorded, buffer, batch, flushing, stored, dropped, statRows, sideVars,
                 startPc, tickVars, httpVars, stopPc, awaiting, before, passes, storeVars>>

heal ==
  /\ ~healed /\ healed' = TRUE
  /\ UNCHANGED <<queueVars, health, statRows, sideVars, startPc, tickVars, httpVars, stopVars,
                 probeWritable>>

-----------------------------------------------------------------------------
Requests == recordEvent \/ refuseEvent \/ countTokenUse \/ beginRead
Answers == \/ writeEventsOk \/ writeEventsFailed \/ writeStat \/ writeTokenUsage \/ tracked
           \/ startOpened \/ tickOpened \/ tickReopened \/ runSweep
           \/ stopOpened \/ storeClosed
Steps == start \/ tick \/ tickFlushed \/ tickStatted \/ tickTokensDone
Shutdown == \/ closeHttp \/ stop \/ joinStart \/ joinOnce \/ joinTwice \/ stopDrained
            \/ stopStatted \/ stopTokensDone \/ withDeadline

Next == Requests \/ Answers \/ Steps \/ Shutdown \/ heal

Spec == Init /\ [][Next]_vars

(***************************************************************************)
(* Fairness.  The event loop runs what is ready, the interval and the      *)
(* shutdown clock fire.  A store call may hang for ever, until the store   *)
(* is well: then each is answered, one way or the other.                   *)
(***************************************************************************)
RunsReady ==
  /\ WF_vars(start) /\ WF_vars(tick) /\ WF_vars(tickFlushed)
  /\ WF_vars(tickStatted) /\ WF_vars(tickTokensDone)
  /\ WF_vars(joinStart) /\ WF_vars(joinOnce) /\ WF_vars(joinTwice)
  /\ WF_vars(stopDrained) /\ WF_vars(stopStatted) /\ WF_vars(stopTokensDone)

StoreAnswers ==
  /\ WF_vars(healed /\ (writeEventsOk \/ writeEventsFailed))
  /\ WF_vars(healed /\ writeStat) /\ WF_vars(healed /\ writeTokenUsage)
  /\ WF_vars(healed /\ tracked) /\ WF_vars(healed /\ startOpened)
  /\ WF_vars(healed /\ tickOpened) /\ WF_vars(healed /\ tickReopened)
  /\ WF_vars(healed /\ runSweep) /\ WF_vars(healed /\ stopOpened)
  /\ WF_vars(healed /\ storeClosed)

LiveSpec == Spec /\ RunsReady /\ WF_vars(withDeadline) /\ StoreAnswers

-----------------------------------------------------------------------------
(***************************************************************************)
(* Properties                                                              *)
(***************************************************************************)
Handles == {"tick", "flush", "stat", "token"}

\* The values every variable ranges over, at every step of service.ts.
TypeOK ==
  /\ recorded \in Nat /\ buffer \in Seq(Nat) /\ batch \in Seq(Nat)
  /\ flushing \in 0..MaxBatches
  /\ stored \subseteq Nat /\ dropped \subseteq Nat /\ unconfirmed \in Nat
  /\ health \in Healths
  /\ statRows \in 0..MaxStatRows
  /\ statting \in [left : 0..MaxStatRows, failed : BOOLEAN]
  /\ unsent \in BOOLEAN /\ tokenFlushing \in BOOLEAN
  /\ startPc \in {"boot", "opening", "done"} /\ timer \in BOOLEAN
  /\ tickPc \in {"idle", "open", "events", "stats", "tokens", "reopen", "sweep"}
  /\ ticks \in Nat /\ reads \in Nat /\ serving \in BOOLEAN
  /\ stopPc \in {"no", "joinStart", "join1", "join2", "open", "drain", "stats",
                 "tokens", "close", "closed"}
  /\ awaiting \subseteq Handles /\ before \in Nat /\ passes \in Nat
  /\ stopped \in {"no", "orderly", "timedOut"}
  /\ probeWritable \in ProbesWritable /\ healed \in BOOLEAN

\* Until shutdown ends, the operator reads green exactly when the store
\* answered and no write channel is failing: no interleaving of answers leaves
\* the page green over a failing channel, or red with nothing wrong.  A red
\* page names a cause, and while the store answers the cause named is a channel
\* that is failing now (markWriteOk: "must stay the one that is still failing").
HealthExact ==
  /\ stopped = "no" =>
       (health.available <=> health.reachable /\ health.faults = {})
  /\ health.available => health.error = NoError /\ ~health.window
  /\ health.window => health.error # NoError
  /\ health.reachable /\ health.faults # {} => health.error \in health.faults

\* The contract of AuditLedger: the rows on the wire and those in the buffer
\* are one queue, every sign-in that leaves it is stored or counted as lost,
\* the ceiling covers both parts, and an orderly stop leaves it empty
\* (detach-before-await, overflow, failed batch, "Drain to EMPTY").
Ledger == INSTANCE AuditLedger WITH
  Ceiling <- MaxBuffered, admitted <- recorded, held <- batch \o buffer,
  stored <- stored, lost <- dropped, counted <- unconfirmed, closed <- stopped

LedgerKept == Ledger!Spec

\* drainAndClose never closes the store under a live write, and no timer is
\* left to start one (the comment on `tickInFlight`).
QuietClose ==
  /\ stopPc \in {"close", "closed"} =>
       tickPc = "idle" /\ flushing = 0 /\ statting.left = 0 /\ ~tokenFlushing
  /\ stopping => ~timer

\* A channel's fault is lifted by a write of its own kind, by a probe that ran
\* the writer's own statements, or not at all: no read, no other channel.
OwnWrite(c) ==
  \/ c = "events" /\ flushing > 0 /\ stored' # stored
  \/ c = "stats" /\ statting.left = 1 /\ ~statting'.failed
  \/ c = "tokens" /\ tokenFlushing /\ ~tokenFlushing'
ProbeAnswered ==
  \/ startPc = "opening" /\ startPc' = "done"
  \/ tickPc \in {"open", "reopen"} /\ tickPc' # tickPc
  \/ stopPc = "open" /\ stopPc' # "open"
FaultLiftedByEvidence ==
  [][\A c \in health.faults \ health'.faults :
        OwnWrite(c) \/ (c # "stats" /\ probeWritable /\ ProbeAnswered)]_vars

\* The recovery line reports the rows lost while red: a failed batch falls
\* inside the window its failure opened, and no second cause restarts it.
DropsAreReported ==
  [][/\ (\E e \in dropped' : e \in Range(batch)) =>
          unconfirmed' - health'.base >= Len(batch) /\ health'.window
     /\ health.window /\ health'.window => health'.base = health.base]_vars

\* stop() returns, whatever the store does: a call may never be answered.
StopReturns == stopping ~> stopped # "no"

\* What a probe cannot cure: the store answers, the last batch of sign-ins was
\* given up, there is no other to write, and the probe vouches for no write
\* (banyandb/store.ts probe: "A write fault therefore stands until one of this
\* store's OWN writes succeeds").
redUntilNextSignIn ==
  /\ ~probeWritable
  /\ health.reachable /\ health.faults = {"events"}
  /\ buffer = <<>> /\ flushing = 0

\* Once the store stays well, the page turns green and stays green (the retry
\* on the tick, and the probe a quiet system gets for a failed channel), except
\* on BanyanDB when sign-ins were the last to fail and none came since.  On
\* either store nothing can starve the flush: every sign-in leaves the buffer.
Recovers ==
  <>[]healed =>
    <>[](/\ health.available \/ stopping \/ redUntilNextSignIn
         /\ \A e \in 1..MaxEvents : e \notin Range(buffer) \/ stopped = "timedOut")
=============================================================================
