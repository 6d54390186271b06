--------------------------- MODULE StoreLifecycle ---------------------------
(***************************************************************************)
(* The connection of an audit store: open(), runOpen() and close() of      *)
(* apps/bff/src/store/audit/postgres/store.ts and .../banyandb/store.ts,   *)
(* and the three callers of apps/bff/src/store/audit/service.ts that may   *)
(* be inside them at once: the start, the tick and the shutdown, with its  *)
(* deadline.                                                               *)
(*                                                                         *)
(* A connection is a pg.Pool or a BanyanDBClient: something that lives on, *)
(* with its sockets and timers, until it is ended.  `held' is what         *)
(* this.pool or this.client names, `building' what a runOpen() under way   *)
(* has made; each is a set of at most one connection.                      *)
(***************************************************************************)
CONSTANTS
  Conns   \* bound: connections alive at once, lost ones included

Callers == {"start", "tick", "stop"}

VARIABLES
  kind,       \* "postgres" or "banyandb"
  held,       \* this.pool, this.client
  building,   \* the connection of the runOpen() under way
  phase,      \* where that runOpen() awaits; "idle" when `opening' is null
  closed,     \* this.closed
  live,       \* connections made and not ended
  ready,      \* connections the schema was applied through
  call,       \* each caller's call of open()
  step,       \* where each caller is otherwise
  timer,      \* the tick's interval is set
  stopping,   \* this.stopping
  reachable,  \* this.reachable
  deadline    \* the shutdown deadline has closed the store

storeVars == <<held, building, phase, closed, live, ready>>
serviceVars == <<timer, stopping, reachable, deadline>>
vars == <<kind, storeVars, call, step, serviceVars>>

Init ==
  /\ kind \in {"postgres", "banyandb"}
  /\ held = {} /\ building = {} /\ phase = "idle" /\ closed = FALSE
  /\ live = {} /\ ready = {}
  /\ call = [c \in Callers |-> "none"]
  /\ step = [c \in Callers |-> "idle"]
  /\ timer = FALSE /\ stopping = FALSE /\ reachable = FALSE /\ deadline = FALSE

-----------------------------------------------------------------------------
(***************************************************************************)
(* The store                                                               *)
(***************************************************************************)
flightOut == phase # "idle"

\* PostgreSQL publishes its pool after the migration and asks for it first;
\* BanyanDB publishes its client before, and asks for `opening' first.
alreadyOpen == held # {} /\ (kind = "banyandb" => ~flightOut)

\* PostgreSQL reads the CA file first; a BanyanDB client is there at once.
runOpen ==
  /\ closed' = FALSE
  /\ IF kind = "postgres"
     THEN phase' = "reading" /\ building' = {} /\ UNCHANGED live
     ELSE /\ phase' = "connecting"
          /\ \E c \in Conns \ live : building' = {c} /\ live' = live \cup {c}
  /\ UNCHANGED <<held, ready>>

\* The caller returns at once, joins the flight or is the one that begins it.
open(c) ==
  IF alreadyOpen
  THEN call' = [call EXCEPT ![c] = "opened"] /\ UNCHANGED storeVars
  ELSE /\ call' = [call EXCEPT ![c] = "waiting"]
       /\ IF flightOut THEN UNCHANGED storeVars ELSE runOpen

\* The promise of `opening' settles for everyone who awaits it.
settled(outcome) ==
  /\ phase' = "idle" /\ building' = {}
  /\ call' = [c \in Callers |-> IF call[c] = "waiting" THEN outcome ELSE call[c]]

\* What runOpen() made is ended, and BanyanDB takes its client back down.
dispose ==
  /\ live' = live \ building /\ ready' = ready \ building
  /\ held' = IF kind = "banyandb" THEN {} ELSE held

openFails ==
  /\ phase \in {"reading", "connecting", "migrating"}
  /\ dispose /\ settled("failed") /\ UNCHANGED closed

poolBuilt ==
  /\ phase = "reading"
  /\ \E c \in Conns \ live : building' = {c} /\ live' = live \cup {c}
  /\ phase' = "migrating" /\ UNCHANGED <<held, closed, ready, call>>

connected ==
  /\ phase = "connecting"
  /\ held' = building /\ phase' = "migrating"
  /\ UNCHANGED <<building, closed, live, ready, call>>

overtaken_Never == FALSE  \* mutant: a close() during the open is not noticed

overtaken == closed

\* The schema is applied, or its application switched off.  A close() that
\* came meanwhile has the connection disposed of instead of published.
migrated ==
  /\ phase = "migrating"
  /\ IF overtaken THEN dispose
     ELSE held' = building /\ ready' = ready \cup building /\ UNCHANGED live
  /\ settled("opened") /\ UNCHANGED closed

openProceeds ==
  /\ poolBuilt \/ connected \/ migrated \/ openFails
  /\ UNCHANGED <<kind, step, serviceVars>>

close ==
  /\ closed' = TRUE /\ live' = live \ held /\ ready' = ready \ held /\ held' = {}
  /\ UNCHANGED <<building, phase>>

-----------------------------------------------------------------------------
(***************************************************************************)
(* The service                                                             *)
(***************************************************************************)
goesTo(c, where) == step' = [step EXCEPT ![c] = where]

\* tryOpen() after its open(): the probe of an open store may succeed, whatever
\* became of the call; the one of a store with nothing held cannot.
probed(c) ==
  /\ call[c] \in {"opened", "failed"} /\ call' = [call EXCEPT ![c] = "none"]
  /\ \/ call[c] = "opened" /\ held # {} /\ reachable' = TRUE
     \/ reachable' = FALSE

runStart ==
  /\ step["start"] = "idle" /\ ~stopping
  /\ goesTo("start", "opening") /\ open("start")
  /\ UNCHANGED <<kind, serviceVars>>

\* No timer for a service that began to stop while its store was opening.
startOver ==
  /\ step["start"] = "opening" /\ probed("start")
  /\ goesTo("start", "over") /\ timer' = ~stopping
  /\ UNCHANGED <<kind, storeVars, stopping, deadline>>

runTick ==
  /\ timer /\ ~stopping /\ step["tick"] = "idle"
  /\ IF reachable
     THEN goesTo("tick", "writing") /\ UNCHANGED <<storeVars, call>>
     ELSE goesTo("tick", "opening") /\ open("tick")
  /\ UNCHANGED <<kind, serviceVars>>

\* A tick that finds the store goes on to write, and ends otherwise.
tickProbed ==
  /\ step["tick"] = "opening" /\ probed("tick")
  /\ goesTo("tick", IF reachable' THEN "writing" ELSE "idle")
  /\ UNCHANGED <<kind, storeVars, timer, stopping, deadline>>

\* The writes of a tick are over; one that failed leaves the store unreachable
\* or a fault that the same tick asks a probe to vouch for.
tickWritten ==
  /\ step["tick"] = "writing"
  /\ \/ goesTo("tick", "idle") /\ reachable' \in {reachable, FALSE} /\ UNCHANGED <<storeVars, call>>
     \/ goesTo("tick", "vouching") /\ open("tick") /\ UNCHANGED reachable
  /\ UNCHANGED <<kind, timer, stopping, deadline>>

tickVouched ==
  /\ step["tick"] = "vouching" /\ probed("tick")
  /\ goesTo("tick", "idle")
  /\ UNCHANGED <<kind, storeVars, timer, stopping, deadline>>

stop ==
  /\ ~stopping /\ stopping' = TRUE /\ timer' = FALSE
  /\ goesTo("stop", "joining")
  /\ UNCHANGED <<kind, storeVars, call, reachable, deadline>>

joined_StartOnly ==  \* mutant: only the start is joined
  step["start"] # "opening"

\* The start and the tick are over, and neither begins again.
joined == step["start"] # "opening" /\ step["tick"] = "idle"

\* A store that is not available is tried once more.
drainBegins ==
  /\ step["stop"] = "joining" /\ joined
  /\ \/ reachable /\ goesTo("stop", "draining") /\ UNCHANGED <<storeVars, call>>
     \/ goesTo("stop", "opening") /\ open("stop")
  /\ UNCHANGED <<kind, serviceVars>>

drainOpened ==
  /\ step["stop"] = "opening" /\ probed("stop")
  /\ goesTo("stop", "draining")
  /\ UNCHANGED <<kind, storeVars, timer, stopping, deadline>>

drainEnds ==
  /\ step["stop"] = "draining"
  /\ close /\ goesTo("stop", "over")
  /\ UNCHANGED <<kind, call, serviceVars>>

deadlineReached_EndsTheDrain ==  \* mutant: nothing goes on behind the report
  /\ step["stop"] \in {"joining", "opening", "draining"} /\ ~deadline
  /\ deadline' = TRUE /\ close /\ goesTo("stop", "over")
  /\ UNCHANGED <<kind, call, timer, stopping, reachable>>

\* The deadline ends the wait, not the drain: that goes on behind the report.
deadlineReached ==
  /\ step["stop"] \in {"joining", "opening", "draining"} /\ ~deadline
  /\ deadline' = TRUE /\ close
  /\ UNCHANGED <<kind, call, step, timer, stopping, reachable>>

Tick == runTick \/ tickProbed \/ tickWritten \/ tickVouched
Stop == stop \/ drainBegins \/ drainOpened \/ drainEnds \/ deadlineReached

Next == openProceeds \/ runStart \/ startOver \/ Tick \/ Stop

Spec == Init /\ [][Next]_vars

(***************************************************************************)
(* Every await of the store is bounded by a timeout of its own, and a tick *)
(* or a drain that may go on does.  Nothing makes the service stop.        *)
(***************************************************************************)
LiveSpec ==
  /\ Spec
  /\ WF_vars(openProceeds) /\ WF_vars(startOver)
  /\ WF_vars(tickProbed) /\ WF_vars(tickWritten) /\ WF_vars(tickVouched)
  /\ WF_vars(drainBegins) /\ WF_vars(drainOpened) /\ WF_vars(drainEnds)

-----------------------------------------------------------------------------
(***************************************************************************)
(* Properties                                                              *)
(***************************************************************************)
\* Whatever is alive can still be ended: close() finds it, or the one runOpen()
\* under way disposes of it; and an open that a close() overtook publishes
\* nothing (postgres/store.ts, l. 124-127 and 207-212; banyandb/store.ts,
\* l. 126-130 and 217-219).
NoConnectionLost ==
  /\ live \subseteq held \cup building /\ held \subseteq live
  /\ \A c, d \in live : c = d
  /\ held # {} /\ phase = "idle" => ~closed

\* An open() that succeeded, and the write that follows it, never find a store
\* whose schema is not applied yet (banyandb/store.ts, l. 132-134).
OpenedMeansReady ==
  /\ \A c \in Callers : call[c] = "opened" => held \subseteq ready
  /\ step["tick"] = "writing" => held \subseteq ready

\* A service that is told to stop ends its connection, whatever was under way,
\* and none is made afterwards: a store left open keeps the process alive.
StopCloses == stopping ~> [](live = {})
=============================================================================
