----------------------------- MODULE TokenUsage -----------------------------
(***************************************************************************)
(* The token-usage statistic: TokenCounters of store/audit/                *)
(* token-counters.ts, the flush and the read of store/audit/service.ts     *)
(* around it, and the upsert a store answers with.                         *)
(*                                                                         *)
(* A node is one process life: horizonNodeId() ends in a fresh boot id, so *)
(* a restart writes rows of its own.  Replicas meet in the table only, and *)
(* there only through the key, so the lives of one process stand for them. *)
(* A total is a function on keys, 0 where there is no row or no cell.      *)
(***************************************************************************)
EXTENDS Integers, FiniteSets

CONSTANTS
  Tokens,         \* ids in the tokens file
  MaxTokenHours,  \* MAX_TOKEN_HOURS
  Hours,          \* bound: the hours of a behaviour
  MaxUses,        \* bound: token uses in a behaviour
  MaxBoots        \* bound: lives of the process

ASSUME TokenHoursAssumption == MaxTokenHours \in Nat \ {0}
ASSUME HoursAssumption == Hours \subseteq Nat /\ Hours # {}
ASSUME TokenBoundsAssumption == MaxUses \in Nat /\ MaxBoots \in Nat \ {0}

Keys == Hours \X Tokens
Nodes == 1..MaxBoots
Totals == [Keys -> Nat]
Nothing == [k \in Keys |-> 0]
NoRows == [n \in Nodes |-> Nothing]

VARIABLES
  now,      \* the hour the clock shows
  boot,     \* the life of the process that runs
  held,     \* keys of `cells`
  pending,  \* cell.pending
  stored,   \* cell.stored
  flight,   \* the rows of the upsert tokenFlushing waits for
  rows,     \* horizon_token_usage, by horizon_node
  late,     \* upserts given up by the client that the store has not run
  reading,  \* a query has read the store and has not replied yet
  snap,     \* what readWindow answered it
  uses,     \* uses so far
  used,     \* ghost: the uses that happened, by node
  lost,     \* ghost: the uses an eviction logged as dropped, by node
  peak      \* ghost: the highest count a row has shown

cellVars == <<held, pending, stored>>
readVars == <<reading, snap>>
tableVars == <<rows, peak>>
vars == <<now, boot, cellVars, flight, tableVars, late, readVars, uses, used, lost>>

Init ==
  /\ now \in Hours
  /\ boot = 1
  /\ held = {} /\ pending = Nothing /\ stored = Nothing
  /\ flight = Nothing
  /\ rows = NoRows
  /\ late = {}
  /\ reading = FALSE /\ snap = NoRows
  /\ uses = 0
  /\ used = NoRows
  /\ lost = NoRows
  /\ peak = NoRows

------------------------------------------------------------------------------
heldHours == {k[1] : k \in held}

(***************************************************************************)
(* evict: the hours beyond the MaxTokenHours newest, the incoming one      *)
(* counted among them but never let go.                                    *)
(***************************************************************************)
doomed(incoming) ==
  LET hours == heldHours \cup {incoming}
  IN  {h \in hours \ {incoming} : Cardinality({g \in hours : g > h}) >= MaxTokenHours}

evicted(incoming) == {k \in held : k[1] \in doomed(incoming)}

count(t) ==
  LET key == <<now, t>>
      out == IF key \in held THEN {} ELSE evicted(now)
  IN  /\ uses < MaxUses
      /\ uses' = uses + 1
      /\ used' = [used EXCEPT ![boot][key] = @ + 1]
      /\ held' = (held \ out) \cup {key}
      /\ pending' = [k \in Keys |-> IF k = key THEN pending[k] + 1
                                    ELSE IF k \in out THEN 0 ELSE pending[k]]
      /\ stored' = [k \in Keys |-> IF k \in out THEN 0 ELSE stored[k]]
      /\ lost' = [lost EXCEPT ![boot] = [k \in Keys |->
                     lost[boot][k] + (IF k \in out THEN pending[k] ELSE 0)]]
      /\ UNCHANGED <<now, boot, flight, tableVars, late, readVars>>

(***************************************************************************)
(* writeTokenUsage: the running totals of the cells with unwritten use go  *)
(* out as one statement, and only what was submitted is marked written.    *)
(***************************************************************************)
runningTotal(k) == stored[k] + pending[k]

upserted(r, sent) == [k \in Keys |-> IF sent[k] > 0 THEN sent[k] ELSE r[k]]

higher(r, s) == [k \in Keys |-> IF r[k] > s[k] THEN r[k] ELSE s[k]]

writeUsage(n, sent) ==
  /\ rows' = [rows EXCEPT ![n] = upserted(@, sent)]
  /\ peak' = [peak EXCEPT ![n] = higher(@, upserted(rows[n], sent))]

submitted(k) == flight[k] > 0 /\ k \in held

markWritten_AllPending ==  \* mutant: uses that arrived in flight are marked too
  /\ stored' = [k \in Keys |-> IF submitted(k) THEN stored[k] + pending[k] ELSE stored[k]]
  /\ pending' = [k \in Keys |-> IF submitted(k) THEN 0 ELSE pending[k]]

markWritten ==
  /\ stored' = [k \in Keys |-> IF submitted(k) THEN flight[k] ELSE stored[k]]
  /\ pending' = [k \in Keys |->
       IF ~submitted(k) THEN pending[k]
       ELSE IF pending[k] + stored[k] > flight[k] THEN pending[k] + stored[k] - flight[k]
       ELSE 0]

flushTokenUsage ==
  /\ flight = Nothing
  /\ \E k \in held : pending[k] > 0
  /\ flight' = [k \in Keys |-> IF k \in held /\ pending[k] > 0 THEN runningTotal(k) ELSE 0]
  /\ UNCHANGED <<now, boot, cellVars, tableVars, late, readVars, uses, used, lost>>

flushOk ==
  /\ flight # Nothing
  /\ writeUsage(boot, flight)
  /\ markWritten
  /\ flight' = Nothing
  /\ UNCHANGED <<now, boot, held, late, readVars, uses, used, lost>>

(***************************************************************************)
(* What may have become of a statement nobody waits for any more: it ran,  *)
(* it never will, or the store still holds it.                             *)
(***************************************************************************)
abandoned ==
  \/ UNCHANGED <<tableVars, late>>
  \/ writeUsage(boot, flight) /\ UNCHANGED late
  \/ late' = late \cup {[node |-> boot, sent |-> flight]} /\ UNCHANGED tableVars

flushFailed ==
  /\ flight # Nothing
  /\ abandoned
  /\ flight' = Nothing
  /\ UNCHANGED <<now, boot, cellVars, readVars, uses, used, lost>>

lateWrite ==
  \E w \in late :
    /\ late' = late \ {w}
    /\ writeUsage(w.node, w.sent)
    /\ UNCHANGED <<now, boot, cellVars, flight, readVars, uses, used, lost>>

(***************************************************************************)
(* queryTokenUsage: the store is read, and when its answer is back this    *)
(* node's rows are replaced by the running totals of the cells it holds.   *)
(***************************************************************************)
merged(n, k) == IF n = boot /\ k \in held THEN stored[k] + pending[k] ELSE snap[n][k]

readWindow ==
  /\ ~reading
  /\ reading' = TRUE
  /\ snap' = rows
  /\ UNCHANGED <<now, boot, cellVars, flight, tableVars, late, uses, used, lost>>

reply ==
  /\ reading
  /\ reading' = FALSE /\ snap' = NoRows
  /\ UNCHANGED <<now, boot, cellVars, flight, tableVars, late, uses, used, lost>>

------------------------------------------------------------------------------
\* The clock goes forward (a clock set back past the held hours is outside
\* this model: count() would start a cell for an hour already evicted).
hourTurns ==
  /\ \E h \in Hours : h > now /\ now' = h
  /\ UNCHANGED <<boot, cellVars, flight, tableVars, late, readVars, uses, used, lost>>

(***************************************************************************)
(* The process dies and starts again under a new boot id: its cells and    *)
(* its queries are gone, the statement on the wire may or may not have run.*)
(***************************************************************************)
restart_SameNode ==  \* mutant: the node id carries no boot id
  /\ abandoned
  /\ held' = {} /\ pending' = Nothing /\ stored' = Nothing
  /\ flight' = Nothing /\ reading' = FALSE /\ snap' = NoRows
  /\ UNCHANGED <<now, boot, uses, used, lost>>

restart ==
  /\ boot < MaxBoots
  /\ boot' = boot + 1
  /\ abandoned
  /\ held' = {} /\ pending' = Nothing /\ stored' = Nothing
  /\ flight' = Nothing /\ reading' = FALSE /\ snap' = NoRows
  /\ UNCHANGED <<now, uses, used, lost>>

Next ==
  \/ \E t \in Tokens : count(t)
  \/ flushTokenUsage \/ flushOk \/ flushFailed \/ lateWrite
  \/ readWindow \/ reply
  \/ hourTurns \/ restart

Spec == Init /\ [][Next]_vars

(***************************************************************************)
(* The tick is a setInterval of the running process, and a flush it starts *)
(* is always settled by the client's deadline.  That the store accepts one *)
(* of the writes tried for ever is the one thing asked of the environment. *)
(***************************************************************************)
LiveSpec == Spec /\ WF_vars(flushTokenUsage) /\ WF_vars(flushFailed \/ flushOk) /\ SF_vars(flushOk)

------------------------------------------------------------------------------
TypeOK ==
  /\ now \in Hours /\ boot \in Nodes
  /\ held \subseteq Keys /\ pending \in Totals /\ stored \in Totals
  /\ flight \in Totals
  /\ rows \in [Nodes -> Totals]
  /\ late \subseteq [node : Nodes, sent : Totals]
  /\ reading \in BOOLEAN /\ snap \in [Nodes -> Totals]
  /\ uses \in 0..MaxUses
  /\ used \in [Nodes -> Totals] /\ lost \in [Nodes -> Totals] /\ peak \in [Nodes -> Totals]

\* However flushes, retries, crashes and abandoned upserts interleave, no row
\* of the table and no reply to a reader claims more uses of a token in an
\* hour than happened, or fewer than the table said when it was read
\* (token-store.ts upsert, service.ts queryTokenUsage), and no use goes
\* missing: every use of the running process is in its cell, was in the table,
\* or was logged as dropped when its hour aged out, and what a cell calls
\* stored has been in the table (TokenCounters.markWritten and evict).
UsesExact ==
  /\ \A n \in Nodes, k \in Keys :
       /\ rows[n][k] <= used[n][k]
       /\ reading => snap[n][k] <= merged(n, k) /\ merged(n, k) <= used[n][k]
  /\ \A k \in Keys :
       IF k \in held
       THEN stored[k] + pending[k] = used[boot][k] /\ stored[k] <= peak[boot][k]
       ELSE used[boot][k] <= peak[boot][k] + lost[boot][k]

\* No write of this process lowers a count stored for an hour, in this life
\* of it or in the next (token-usage.ts:24-33); only a statement given up at
\* the deadline can, when the server runs it after a newer one.
StoredNeverShrinks ==
  [][lateWrite \/ \A n \in Nodes, k \in Keys : rows'[n][k] >= rows[n][k]]_vars

\* A use is written to the table in the end, unless its process dies or its
\* hour ages out of memory first (service.ts runTick, writeTokenUsage).
UsesReachTheStore ==
  \A n \in Nodes, k \in Keys :
    (boot = n /\ peak[n][k] < used[n][k]) ~> (peak[n][k] = used[n][k] \/ boot # n \/ k \notin held)
=============================================================================
