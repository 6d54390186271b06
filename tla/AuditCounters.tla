--------------------------- MODULE AuditCounters ---------------------------
(***************************************************************************)
(* The hour-scoped accounting of the sign-in log: AuditCounters of         *)
(* store/audit/counters.ts, the statistics flush of store/audit/service.ts *)
(* that writes what it holds, and the UPDATE-then-INSERT of                *)
(* store/audit/postgres/store.ts, one life of the process (a restart       *)
(* writes rows under another node id, see TokenUsage).                     *)
(*                                                                         *)
(* Every attempt adds one to one of the six columns of its hour, so an     *)
(* hour's accumulator is kept as the sum of its columns.                   *)
(***************************************************************************)
EXTENDS Integers, FiniteSets, Sequences, Functions

CONSTANTS
  Principals,      \* metering keys
  MaxRowsPerHour,  \* cfg.maxRowsPerHour
  MinShare,        \* the 20 of principalShare
  ShareDivisor,    \* the 10 of principalShare
  MaxHourBuckets,  \* MAX_HOUR_BUCKETS
  ClockStepsBack,  \* the clock may be set back
  Hours,           \* bound: the hours of a behaviour
  MaxAttempts,     \* bound: sign-ins in a behaviour
  MaxFailures      \* bound: statements that fail in a behaviour

ASSUME BudgetAssumption ==
  /\ MaxRowsPerHour \in Nat \ {0} /\ MinShare \in Nat \ {0}
  /\ ShareDivisor \in Nat \ {0} /\ MaxHourBuckets \in Nat \ {0}
ASSUME CounterModeAssumption == ClockStepsBack \in BOOLEAN
ASSUME CounterBoundsAssumption ==
  /\ Hours \subseteq Nat \ {0} /\ IsFiniteSet(Hours)
  /\ \E top \in Hours : \A h \in Hours : h <= top
  /\ MaxAttempts \in Nat /\ MaxFailures \in Nat

Zero == [h \in Hours |-> 0]
NoHour == 0

VARIABLES
  now,
  \* the budget
  budgetHour, rowsThisHour, perPrincipal, overBudgetThisHour,
  \* the statistics
  held,            \* the hours of `stats`
  figure,          \* their accumulators
  evictedThrough,
  \* the flush
  todo,            \* takeStats rows not yet written, 0 where there is none
  writing,         \* the hour whose row is being written, NoHour between flushes
  step,            \* the statement of writeStat in flight
  \* the table: the rows of an hour under this node, in insertion order
  table,
  late,            \* statements given up that the server has not run
  failures,
  \* ghosts
  attempts,        \* sign-ins by hour
  admitted,        \* rows admitted, by principal
  rowsAdmitted,    \* and of all of them
  seen,            \* the hours the clock has shown
  strays           \* INSERTs of the hour that were left on the server

budgetVars == <<budgetHour, rowsThisHour, perPrincipal, overBudgetThisHour>>
statVars == <<held, figure, evictedThrough>>
flushVars == <<todo, writing, step>>
ghostVars == <<attempts, admitted, rowsAdmitted, seen, strays>>
vars == <<now, budgetVars, statVars, flushVars, table, late, failures, ghostVars>>

Init ==
  /\ now \in Hours
  /\ budgetHour = 0 /\ rowsThisHour = 0 /\ overBudgetThisHour = 0
  /\ perPrincipal = [p \in Principals |-> 0]
  /\ held = {} /\ figure = Zero /\ evictedThrough = 0
  /\ todo = Zero /\ writing = NoHour /\ step = "idle"
  /\ table = [h \in Hours |-> <<>>]
  /\ late = {} /\ failures = 0
  /\ attempts = Zero /\ admitted = [p \in Principals |-> 0] /\ rowsAdmitted = 0
  /\ seen = {now} /\ strays = Zero

------------------------------------------------------------------------------
(***************************************************************************)
(* The budget.                                                             *)
(***************************************************************************)
principalShare ==
  LET tenth == MaxRowsPerHour \div ShareDivisor
  IN  IF tenth > MinShare THEN tenth ELSE MinShare

newWindow_AnyOther(hour) == hour # budgetHour  \* mutant: a bare inequality

newWindow(hour) == hour > budgetHour

\* rollTo, as the counters it leaves
rolled(hour) ==
  IF newWindow(hour)
  THEN [hour |-> hour, rows |-> 0, over |-> 0, spent |-> [p \in Principals |-> 0]]
  ELSE [hour |-> budgetHour, rows |-> rowsThisHour, over |-> overBudgetThisHour,
        spent |-> perPrincipal]

budgetIs(w) ==
  /\ budgetHour' = w.hour /\ rowsThisHour' = w.rows
  /\ overBudgetThisHour' = w.over /\ perPrincipal' = w.spent

refused_NoShare(w, p) == w.rows >= MaxRowsPerHour  \* mutant: no share of one's own

refused(w, p) == w.spent[p] >= principalShare \/ w.rows >= MaxRowsPerHour

(***************************************************************************)
(* stat(): the accumulator of the hour, a detached one for a closed hour.  *)
(***************************************************************************)
closed_Never(hour) == FALSE  \* mutant: an evicted hour starts again at zero

closed(hour) == hour \notin held /\ hour <= evictedThrough

evicted(incoming) ==
  {h \in held : Cardinality({g \in held \cup {incoming} : g > h}) >= MaxHourBuckets}

stat(hour) ==
  LET out == IF hour \in held \/ closed(hour) THEN {} ELSE evicted(hour)
  IN  IF closed(hour) THEN UNCHANGED statVars
      ELSE /\ held' = (held \ out) \cup {hour}
           /\ figure' = [h \in Hours |-> IF h = hour THEN figure[h] + 1
                                         ELSE IF h \in out THEN 0 ELSE figure[h]]
           /\ evictedThrough' =
                CHOOSE e \in out \cup {evictedThrough} : \A f \in out \cup {evictedThrough} : f <= e

\* admitEvent: the row is admitted, or refused and counted as over budget
admitEvent(p) ==
  LET w == rolled(now)
  IN  /\ attempts[now] < MaxAttempts
      /\ attempts' = [attempts EXCEPT ![now] = @ + 1]
      /\ stat(now)
      /\ IF refused(w, p)
         THEN budgetIs([w EXCEPT !.over = @ + 1]) /\ UNCHANGED <<admitted, rowsAdmitted>>
         ELSE /\ budgetIs([w EXCEPT !.rows = @ + 1, !.spent[p] = @ + 1])
              /\ admitted' = [admitted EXCEPT ![p] = @ + 1]
              /\ rowsAdmitted' = rowsAdmitted + 1
      /\ UNCHANGED <<now, flushVars, table, late, failures, seen, strays>>

\* rowsAt and overBudgetAt, which health() calls
readHealth ==
  /\ newWindow(now)
  /\ budgetIs(rolled(now))
  /\ UNCHANGED <<now, statVars, flushVars, table, late, failures, ghostVars>>

------------------------------------------------------------------------------
(***************************************************************************)
(* The flush: one row per held hour, written one after the other; a failed *)
(* row is passed over and the rest of the pass goes on.  The rows go out   *)
(* in the order of the map; the order is left open here.                   *)
(***************************************************************************)
nextRow(rest) ==
  IF rest = Zero
  THEN todo' = Zero /\ writing' = NoHour /\ step' = "idle"
  ELSE \E h \in Hours : /\ rest[h] > 0
                        /\ todo' = rest /\ writing' = h /\ step' = "update"

takeStats_Detaches ==  \* mutant: the accumulators are handed over and start again
  /\ step = "idle"
  /\ \E h \in held : figure[h] > 0
  /\ nextRow(figure)
  /\ figure' = Zero
  /\ UNCHANGED <<now, budgetVars, held, evictedThrough, table, late, failures, ghostVars>>

takeStats ==
  /\ step = "idle"
  /\ \E h \in held : figure[h] > 0
  /\ nextRow(figure)
  /\ UNCHANGED <<now, budgetVars, statVars, table, late, failures, ghostVars>>

afterUpdate(h, fig) == [i \in DOMAIN table[h] |-> fig]

afterInsert(h, fig) == Append(table[h], fig)

rowDone == nextRow([todo EXCEPT ![writing] = 0])

updateOk_AlwaysInserts ==  \* mutant: rowCount is not looked at
  /\ step = "update"
  /\ table' = [table EXCEPT ![writing] = afterUpdate(writing, todo[writing])]
  /\ step' = "insert"
  /\ UNCHANGED <<todo, writing, now, budgetVars, statVars, late, failures, ghostVars>>

updateOk ==
  /\ step = "update"
  /\ table' = [table EXCEPT ![writing] = afterUpdate(writing, todo[writing])]
  /\ IF table[writing] # <<>> THEN rowDone ELSE step' = "insert" /\ UNCHANGED <<todo, writing>>
  /\ UNCHANGED <<now, budgetVars, statVars, late, failures, ghostVars>>

insertOk ==
  /\ step = "insert"
  /\ table' = [table EXCEPT ![writing] = afterInsert(writing, todo[writing])]
  /\ rowDone
  /\ UNCHANGED <<now, budgetVars, statVars, late, failures, ghostVars>>

ran(s) == IF s.step = "update" THEN afterUpdate(s.hour, s.fig) ELSE afterInsert(s.hour, s.fig)

(***************************************************************************)
(* A statement fails: it was refused, its answer was lost after it ran, or *)
(* it was given up at the deadline and the server still has it.            *)
(***************************************************************************)
statementFails ==
  /\ step # "idle"
  /\ failures < MaxFailures /\ failures' = failures + 1
  /\ LET s == [hour |-> writing, step |-> step, fig |-> todo[writing], nth |-> failures]
     IN  \/ UNCHANGED <<table, late, strays>>
         \/ table' = [table EXCEPT ![writing] = ran(s)] /\ UNCHANGED <<late, strays>>
         \/ /\ late' = late \cup {s}
            /\ strays' = [strays EXCEPT ![writing] = IF step = "insert" THEN @ + 1 ELSE @]
            /\ UNCHANGED table
  /\ rowDone
  /\ UNCHANGED <<now, budgetVars, statVars, attempts, admitted, rowsAdmitted, seen>>

lateStatement ==
  \E s \in late :
    /\ late' = late \ {s}
    /\ table' = [table EXCEPT ![s.hour] = ran(s)]
    /\ UNCHANGED <<now, budgetVars, statVars, flushVars, failures, ghostVars>>

hourTurns ==
  /\ \E h \in Hours : (IF ClockStepsBack THEN h # now ELSE h > now) /\ now' = h
  /\ seen' = seen \cup {now'}
  /\ UNCHANGED <<budgetVars, statVars, flushVars, table, late, failures, attempts, admitted,
                 rowsAdmitted, strays>>

Next ==
  \/ \E p \in Principals : admitEvent(p)
  \/ readHealth
  \/ takeStats \/ updateOk \/ insertOk \/ statementFails \/ lateStatement
  \/ hourTurns

Spec == Init /\ [][Next]_vars

(***************************************************************************)
(* The aggregate tick is a timer of the running process, the failures of a *)
(* behaviour are bounded, and a statement left on the server runs or not.  *)
(***************************************************************************)
LiveSpec ==
  Spec /\ WF_vars(takeStats) /\ WF_vars(updateOk \/ insertOk \/ statementFails)

------------------------------------------------------------------------------
summed(h) == FoldFunction(+, 0, table[h])

TypeOK ==
  /\ now \in Hours
  /\ budgetHour \in Hours \cup {0} /\ rowsThisHour \in 0..MaxRowsPerHour
  /\ perPrincipal \in [Principals -> 0..principalShare] /\ overBudgetThisHour \in Nat
  /\ held \subseteq Hours /\ figure \in [Hours -> Nat] /\ evictedThrough \in Hours \cup {0}
  /\ todo \in [Hours -> Nat] /\ writing \in Hours \cup {NoHour}
  /\ step \in {"idle", "update", "insert"}
  /\ table \in [Hours -> Seq(Nat)]
  /\ late \subseteq [hour : Hours, step : {"update", "insert"}, fig : Nat, nth : Nat]
  /\ failures \in 0..MaxFailures
  /\ attempts \in [Hours -> Nat] /\ admitted \in [Principals -> Nat]
  /\ rowsAdmitted \in Nat /\ seen \subseteq Hours /\ strays \in [Hours -> Nat]

\* The cap is a cap: an event of an older hour does not re-arm the budget, so
\* the rows admitted never exceed one budget for each hour there was, nor one
\* share for each hour and principal (counters.ts reserveRow, rollTo).
BudgetNotRearmed ==
  /\ rowsAdmitted <= MaxRowsPerHour * Cardinality(seen)
  /\ \A p \in Principals : admitted[p] <= principalShare * Cardinality(seen)

\* No row says more than happened, and an hour has one row, and one more for
\* each INSERT the client gave up while the server still had it
\* (store.ts writeStat).
StoredIsReal ==
  \A h \in Hours :
    /\ Len(table[h]) <= 1 + strays[h]
    /\ \A i \in DOMAIN table[h] : table[h][i] <= attempts[h]

\* The rows t of an hour stand for what its rows s said, or for more.
noLower(s, t) == Len(s) <= Len(t) /\ \A i \in DOMAIN s : s[i] <= t[i]

\* "a write replaces the hour's figure rather than adding to it, so a fresh
\* accumulator for a closed hour would [...] visibly collapse" it
\* (counters.ts:210-213): what this process writes never lowers a stored
\* figure, in any row, nor takes a row away, whichever way the clock moves.
FigureNeverCollapses ==
  [][lateStatement \/ \A h \in Hours : noLower(table[h], table'[h])]_vars

\* An attempt reaches the table in the end unless its hour is let go first: a
\* pass writes every held hour, whatever failed before (takeStats).
FiguresReachTheTable ==
  \A h \in Hours, c \in 1..MaxAttempts :
    (h \in held /\ figure[h] = c) ~> (summed(h) >= c \/ h \notin held)
=============================================================================
