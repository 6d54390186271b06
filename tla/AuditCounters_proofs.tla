------------------------ MODULE AuditCounters_proofs ------------------------
(***************************************************************************)
(* What the hour-scoped accounting of the sign-in log guarantees for any   *)
(* principals, limits, hours and numbers of attempts and failures.         *)
(***************************************************************************)
EXTENDS AuditCounters, FiniteSetTheorems, SequenceTheorems, WellFoundedInduction, TLAPS

(***************************************************************************)
(* The invariant of the budget: what was admitted fits one budget, and one *)
(* share for each principal, for every hour seen before the window, and    *)
(* what the window has spent.                                              *)
(***************************************************************************)
before(hour) == {h \in seen : h < hour}

BudgetInv ==
  /\ now \in seen
  /\ budgetHour # 0 => budgetHour \in seen
  /\ budgetHour = 0 => rowsThisHour = 0 /\ \A p \in Principals : perPrincipal[p] = 0
  /\ rowsAdmitted <= MaxRowsPerHour * Cardinality(before(budgetHour)) + rowsThisHour
  /\ \A p \in Principals :
       admitted[p] <= principalShare * Cardinality(before(budgetHour)) + perPrincipal[p]

(***************************************************************************)
(* The invariant of the figures: whatever holds one of an hour.            *)
(***************************************************************************)
\* No figure of the hour that is stored, being written or left on the server
\* is above the bound.
Within(h, bound) ==
  /\ \A i \in DOMAIN table[h] : table[h][i] <= bound
  /\ \A s \in late : s.hour = h => s.fig <= bound

Untouched(h) == table[h] = <<>> /\ todo[h] = 0 /\ \A s \in late : s.hour # h

RealInv ==
  \A h \in Hours : figure[h] <= attempts[h] /\ todo[h] <= attempts[h] /\ Within(h, attempts[h])

FlushInv ==
  /\ step = "idle" => todo = Zero
  /\ step # "idle" => writing \in Hours /\ todo[writing] > 0

FigureInv ==
  \A h \in Hours :
    /\ h \in held => Within(h, figure[h]) /\ todo[h] <= figure[h]
    /\ todo[h] > 0 => Within(h, todo[h])
    /\ h \notin held => figure[h] = 0 /\ (h <= evictedThrough \/ Untouched(h))

(***************************************************************************)
(* The invariant of the rows: those of an hour, and those the server may   *)
(* still add, are one more than the INSERTs given up, and not even that    *)
(* while an INSERT is on its way.                                          *)
(***************************************************************************)
pending(h) == {s \in late : s.hour = h /\ s.step = "insert"}

RowsInv ==
  /\ IsFiniteSet(late)
  /\ \A h \in Hours :
       /\ Cardinality(pending(h)) <= strays[h]
       /\ Len(table[h]) + Cardinality(pending(h)) <= strays[h] + 1
       /\ step = "insert" /\ writing = h => Len(table[h]) + Cardinality(pending(h)) <= strays[h]

IInv == TypeOK /\ BudgetInv /\ RealInv /\ FlushInv /\ FigureInv /\ RowsInv

(***************************************************************************)
(* Facts about the operators.                                              *)
(***************************************************************************)
LEMMA SharePositive == principalShare \in Nat
<1>1. MaxRowsPerHour \div ShareDivisor \in Nat
  BY BudgetAssumption
<1> QED
  BY <1>1, BudgetAssumption DEF principalShare

\* A product grows with its factor.
LEMMA Products ==
  ASSUME NEW c \in Nat, NEW a \in Nat, NEW b \in Nat, a <= b
  PROVE  c * a \in Nat /\ c * b \in Nat /\ c * a <= c * b /\ c * (a + 1) = c * a + c
<1>1. PICK d \in Nat : b = a + d
  <2>1. b - a \in Nat /\ b = a + (b - a)
    OBVIOUS
  <2> QED
    BY <2>1
<1>2. c * b = c * a + c * d /\ c * d \in Nat /\ c * a \in Nat
  BY <1>1
<1> QED
  BY <1>2

\* An UPDATE leaves as many rows, which all say the same.
LEMMA UpdatedRows ==
  ASSUME NEW t \in Seq(Nat), NEW fig \in Nat
  PROVE  LET u == [i \in DOMAIN t |-> fig]
         IN  /\ u \in Seq(Nat) /\ Len(u) = Len(t) /\ DOMAIN u = DOMAIN t
             /\ \A i \in DOMAIN u : u[i] = fig
<1>1. Len(t) \in Nat /\ DOMAIN t = 1..Len(t)
  OBVIOUS
<1>2. [i \in 1..Len(t) |-> fig] \in [1..Len(t) -> Nat]
  OBVIOUS
<1>3. [i \in 1..Len(t) |-> fig] \in Seq(Nat) /\ Len([i \in 1..Len(t) |-> fig]) = Len(t)
  BY <1>1
<1> QED
  BY <1>1, <1>3

\* An INSERT leaves one row more, the last.
LEMMA InsertedRows ==
  ASSUME NEW t \in Seq(Nat), NEW fig \in Nat
  PROVE  LET u == Append(t, fig)
         IN  /\ u \in Seq(Nat) /\ Len(u) = Len(t) + 1
             /\ DOMAIN t \subseteq DOMAIN u /\ \A i \in DOMAIN t : u[i] = t[i]
             /\ \A i \in DOMAIN u : i \in DOMAIN t \/ u[i] = fig
OBVIOUS

\* Every set of hours has a last one.
LEMMA LastHour ==
  ASSUME NEW S \in SUBSET (Hours \cup {0}), S # {}
  PROVE  \E e \in S : \A f \in S : f <= e
<1>1. PICK top \in Hours : \A h \in Hours : h <= top
  BY CounterBoundsAssumption
<1>2. top \in Nat /\ \A f \in S : f \in Nat /\ f <= top
  BY <1>1, CounterBoundsAssumption
<1> DEFINE T == {n \in Nat : top - n \in S}
<1>3. T \in SUBSET Nat /\ T # {}
  <2>1. PICK f \in S : TRUE
    OBVIOUS
  <2>2. top - f \in Nat /\ top - (top - f) = f
    BY <1>2
  <2> QED
    BY <2>1, <2>2
<1>4. IsWellFoundedOn(OpToRel(<, Nat), Nat)
  BY NatLessThanWellFounded
<1>5. PICK n \in T : \A m \in T : ~(<<m, n>> \in OpToRel(<, Nat))
  <2> HIDE DEF T
  <2> QED
    BY <1>3, <1>4, WFMin
<1>6. ASSUME NEW f \in S
      PROVE  f <= top - n
  <2>1. top - f \in T /\ top - (top - f) = f
    BY <1>2
  <2>2. ~(top - f < n)
    BY <1>2, <1>5, <2>1 DEF OpToRel
  <2> QED
    BY <1>2, <2>2
<1> QED
  BY <1>6

\* What a statement does to the rows of its hour.
LEMMA StatementRuns ==
  ASSUME TypeOK, NEW h \in Hours, NEW fig \in Nat, NEW kind \in {"update", "insert"},
         table' = [table EXCEPT ![h] = IF kind = "update" THEN afterUpdate(h, fig)
                                                          ELSE afterInsert(h, fig)]
  PROVE  /\ table' \in [Hours -> Seq(Nat)]
         /\ \A g \in Hours : g # h => table'[g] = table[g]
         /\ Len(table'[h]) = IF kind = "update" THEN Len(table[h]) ELSE Len(table[h]) + 1
         /\ \A bound \in Nat : fig <= bound /\ (\A i \in DOMAIN table[h] : table[h][i] <= bound)
                                 => \A i \in DOMAIN table'[h] : table'[h][i] <= bound
         /\ (\A i \in DOMAIN table[h] : table[h][i] <= fig) => noLower(table[h], table'[h])
<1>1. table[h] \in Seq(Nat) /\ table \in [Hours -> Seq(Nat)]
  BY DEF TypeOK
<1>2. \A g \in Hours : g # h => table'[g] = table[g]
  BY <1>1
<1>3. CASE kind = "update"
  <2>1. table' = [table EXCEPT ![h] = afterUpdate(h, fig)] /\ table'[h] = afterUpdate(h, fig)
    BY <1>1, <1>3
  <2>2. /\ afterUpdate(h, fig) \in Seq(Nat) /\ Len(afterUpdate(h, fig)) = Len(table[h])
        /\ DOMAIN afterUpdate(h, fig) = DOMAIN table[h]
        /\ \A i \in DOMAIN afterUpdate(h, fig) : afterUpdate(h, fig)[i] = fig
    BY <1>1, UpdatedRows DEF afterUpdate
  <2> QED
    BY <1>1, <1>2, <1>3, <2>1, <2>2 DEF noLower
<1>4. CASE kind = "insert"
  <2>1. table' = [table EXCEPT ![h] = afterInsert(h, fig)] /\ table'[h] = afterInsert(h, fig)
    BY <1>1, <1>4
  <2>2. /\ afterInsert(h, fig) \in Seq(Nat) /\ Len(afterInsert(h, fig)) = Len(table[h]) + 1
        /\ DOMAIN table[h] \subseteq DOMAIN afterInsert(h, fig)
        /\ \A i \in DOMAIN table[h] : afterInsert(h, fig)[i] = table[h][i]
        /\ \A i \in DOMAIN afterInsert(h, fig) : i \in DOMAIN table[h] \/ afterInsert(h, fig)[i] = fig
    BY <1>1, InsertedRows DEF afterInsert
  <2>3. \A i \in DOMAIN table[h] : table[h][i] \in Nat
    BY <1>1
  <2>4. noLower(table[h], table'[h])
    BY <1>1, <2>1, <2>2, <2>3 DEF noLower
  <2>5. ASSUME NEW bound \in Nat, fig <= bound, \A i \in DOMAIN table[h] : table[h][i] <= bound,
               NEW i \in DOMAIN table'[h]
        PROVE  table'[h][i] <= bound
    BY <2>1, <2>2, <2>5
  <2> QED
    BY <1>1, <1>2, <1>4, <2>1, <2>2, <2>4, <2>5
<1> QED
  BY <1>3, <1>4

\* The next row of a pass, or its end.
LEMMA NextRow ==
  ASSUME NEW rest \in [Hours -> Nat], nextRow(rest)
  PROVE  /\ todo' = rest /\ writing' \in Hours \cup {NoHour} /\ step' \in {"idle", "update"}
         /\ FlushInv'
BY DEF nextRow, FlushInv, Zero

LEMMA RowDone ==
  ASSUME TypeOK, rowDone
  PROVE  /\ todo' = [todo EXCEPT ![writing] = 0] /\ todo' \in [Hours -> Nat]
         /\ writing' \in Hours \cup {NoHour} /\ step' \in {"idle", "update"}
         /\ FlushInv'
<1>1. [todo EXCEPT ![writing] = 0] \in [Hours -> Nat]
  BY DEF TypeOK
<1> QED
  BY <1>1, NextRow DEF rowDone

\* The counters of the window that holds the hour.
LEMMA Rolled ==
  ASSUME TypeOK, NEW hour \in Hours
  PROVE  /\ rolled(hour).hour \in Hours \cup {0} /\ rolled(hour).rows \in 0..MaxRowsPerHour
         /\ rolled(hour).over \in Nat /\ rolled(hour).spent \in [Principals -> 0..principalShare]
         /\ rolled(hour) = [hour |-> rolled(hour).hour, rows |-> rolled(hour).rows,
                            over |-> rolled(hour).over, spent |-> rolled(hour).spent]
<1>1. 0 \in 0..principalShare /\ 0 \in 0..MaxRowsPerHour
  BY SharePositive, BudgetAssumption
<1>2. CASE newWindow(hour)
  BY <1>1, <1>2 DEF rolled
<1>3. CASE ~newWindow(hour)
  BY <1>3 DEF rolled, TypeOK
<1> QED
  BY <1>2, <1>3

\* The accumulators after an event of the hour.
LEMMA Stat ==
  ASSUME TypeOK, NEW hour \in Hours, stat(hour)
  PROVE  \/ UNCHANGED statVars /\ hour \notin held
         \/ \E out \in SUBSET (held \ {hour}) :
              /\ held' = (held \ out) \cup {hour}
              /\ \A h \in Hours : figure'[h] = IF h = hour THEN figure[h] + 1
                                               ELSE IF h \in out THEN 0 ELSE figure[h]
              /\ figure' \in [Hours -> Nat]
              /\ evictedThrough' \in Hours \cup {0} /\ evictedThrough <= evictedThrough'
              /\ \A h \in out : h <= evictedThrough'
              /\ hour \notin held => ~(hour <= evictedThrough)
<1> DEFINE out == IF hour \in held \/ closed(hour) THEN {} ELSE evicted(hour)
<1>1. CASE closed(hour)
  BY <1>1 DEF stat, closed
<1>2. CASE ~closed(hour)
  <2>1. out \in SUBSET (held \ {hour}) /\ out \subseteq Hours
    BY DEF evicted, TypeOK
  <2>2. /\ held' = (held \ out) \cup {hour}
        /\ figure' = [h \in Hours |-> IF h = hour THEN figure[h] + 1
                                      ELSE IF h \in out THEN 0 ELSE figure[h]]
        /\ evictedThrough' =
             CHOOSE e \in out \cup {evictedThrough} : \A f \in out \cup {evictedThrough} : f <= e
    BY <1>2 DEF stat
  <2>3. hour \notin held => ~(hour <= evictedThrough)
    BY <1>2 DEF closed
  <2> HIDE DEF out
  <2>4. /\ evictedThrough' \in out \cup {evictedThrough}
        /\ \A f \in out \cup {evictedThrough} : f <= evictedThrough'
    <3>1. out \cup {evictedThrough} \in SUBSET (Hours \cup {0}) /\ out \cup {evictedThrough} # {}
      BY <2>1 DEF TypeOK
    <3>2. \E e \in out \cup {evictedThrough} : \A f \in out \cup {evictedThrough} : f <= e
      BY <3>1, LastHour
    <3> QED
      BY <2>2, <3>2
  <2>5. figure' \in [Hours -> Nat]
    <3>1. figure \in [Hours -> Nat]
      BY DEF TypeOK
    <3> QED
      BY <2>2, <3>1
  <2>6. evictedThrough' \in Hours \cup {0}
    BY <2>1, <2>4 DEF TypeOK
  <2> QED
    BY <2>1, <2>2, <2>3, <2>4, <2>5, <2>6
<1> QED
  BY <1>1, <1>2

(***************************************************************************)
(* Part 1: the types.                                                      *)
(***************************************************************************)
LEMMA BudgetTypes ==
  ASSUME TypeOK, NEW p \in Principals, NEW hour \in Hours,
         \/ budgetIs(rolled(hour))
         \/ budgetIs([rolled(hour) EXCEPT !.over = @ + 1])
         \/ /\ ~refused(rolled(hour), p)
            /\ budgetIs([rolled(hour) EXCEPT !.rows = @ + 1, !.spent[p] = @ + 1])
  PROVE  /\ budgetHour' = rolled(hour).hour /\ budgetHour' \in Hours \cup {0}
         /\ rowsThisHour' \in 0..MaxRowsPerHour
         /\ perPrincipal' \in [Principals -> 0..principalShare] /\ overBudgetThisHour' \in Nat
<1> DEFINE w == rolled(hour)
<1>1. /\ w.hour \in Hours \cup {0} /\ w.rows \in 0..MaxRowsPerHour
      /\ w.over \in Nat /\ w.spent \in [Principals -> 0..principalShare]
      /\ w = [hour |-> w.hour, rows |-> w.rows, over |-> w.over, spent |-> w.spent]
  BY Rolled
<1> HIDE DEF w
<1>2. CASE budgetIs(w)
  BY <1>1, <1>2 DEF budgetIs, w
<1>3. CASE budgetIs([w EXCEPT !.over = @ + 1])
  BY <1>1, <1>3 DEF budgetIs, w
<1>4. CASE ~refused(w, p) /\ budgetIs([w EXCEPT !.rows = @ + 1, !.spent[p] = @ + 1])
  <2>1. budgetHour' = w.hour /\ rowsThisHour' = w.rows + 1 /\ overBudgetThisHour' = w.over
    BY <1>1, <1>4 DEF budgetIs
  <2>2. perPrincipal' = [w.spent EXCEPT ![p] = @ + 1]
    BY <1>1, <1>4 DEF budgetIs
  <2>3. w.rows + 1 \in 0..MaxRowsPerHour /\ w.spent[p] + 1 \in 0..principalShare
    BY <1>1, <1>4, SharePositive, BudgetAssumption DEF refused
  <2>4. perPrincipal' \in [Principals -> 0..principalShare]
    BY <1>1, <2>2, <2>3
  <2> QED
    BY <1>1, <2>1, <2>3, <2>4 DEF w
<1> QED
  BY <1>2, <1>3, <1>4 DEF w

LEMMA StepTypes ==
  ASSUME TypeOK, FlushInv, [Next]_vars
  PROVE  TypeOK'
<1>1. ASSUME NEW p \in Principals, admitEvent(p)
      PROVE  TypeOK'
  <2>1. UNCHANGED <<now, todo, writing, step, table, late, failures, seen, strays>>
    BY <1>1 DEF admitEvent, flushVars
  <2>2. now \in Hours /\ attempts' \in [Hours -> Nat]
    <3>1. attempts \in [Hours -> Nat] /\ now \in Hours
      BY DEF TypeOK
    <3> QED
      BY <1>1, <3>1 DEF admitEvent
  <2>3. held' \subseteq Hours /\ figure' \in [Hours -> Nat] /\ evictedThrough' \in Hours \cup {0}
    <3>1. stat(now)
      BY <1>1 DEF admitEvent
    <3>2. CASE UNCHANGED statVars
      BY <3>2 DEF statVars, TypeOK
    <3>3. CASE ~UNCHANGED statVars
      <4>1. PICK out \in SUBSET (held \ {now}) : held' = (held \ out) \cup {now}
        BY <2>2, <3>1, <3>3, Stat
      <4>2. figure' \in [Hours -> Nat] /\ evictedThrough' \in Hours \cup {0}
        BY <2>2, <3>1, <3>3, Stat
      <4> QED
        BY <2>2, <4>1, <4>2 DEF TypeOK
    <3> QED
      BY <3>2, <3>3
  <2>4. /\ budgetHour' \in Hours \cup {0} /\ rowsThisHour' \in 0..MaxRowsPerHour
        /\ perPrincipal' \in [Principals -> 0..principalShare] /\ overBudgetThisHour' \in Nat
    BY <1>1, <2>2, BudgetTypes DEF admitEvent
  <2>5. admitted' \in [Principals -> Nat] /\ rowsAdmitted' \in Nat
    <3>1. admitted \in [Principals -> Nat] /\ rowsAdmitted \in Nat
      BY DEF TypeOK
    <3> QED
      BY <1>1, <3>1 DEF admitEvent
  <2> QED
    BY <2>1, <2>2, <2>3, <2>4, <2>5 DEF TypeOK
<1>2. CASE readHealth
  <2>1. UNCHANGED <<now, held, figure, evictedThrough, todo, writing, step, table, late, failures,
                    attempts, admitted, rowsAdmitted, seen, strays>>
    BY <1>2 DEF readHealth, statVars, flushVars, ghostVars
  <2>2. /\ budgetHour' \in Hours \cup {0} /\ rowsThisHour' \in 0..MaxRowsPerHour
        /\ perPrincipal' \in [Principals -> 0..principalShare] /\ overBudgetThisHour' \in Nat
    BY <1>2, Rolled DEF readHealth, budgetIs, TypeOK
  <2> QED
    BY <2>1, <2>2 DEF TypeOK
<1>3. CASE takeStats
  <2>1. UNCHANGED <<now, budgetVars, held, figure, evictedThrough, table, late, failures, ghostVars>>
    BY <1>3 DEF takeStats, statVars
  <2>2. todo' \in [Hours -> Nat] /\ writing' \in Hours \cup {NoHour} /\ step' \in {"idle", "update"}
    BY <1>3, NextRow DEF takeStats, TypeOK
  <2> QED
    BY <2>1, <2>2 DEF TypeOK, budgetVars, ghostVars
<1>4. CASE updateOk \/ insertOk
  <2>1. UNCHANGED <<now, budgetVars, statVars, late, failures, ghostVars>>
    BY <1>4 DEF updateOk, insertOk
  <2>2. writing \in Hours /\ todo \in [Hours -> Nat] /\ todo[writing] \in Nat
    BY <1>4 DEF updateOk, insertOk, FlushInv, TypeOK
  <2>3. table' \in [Hours -> Seq(Nat)]
    BY <1>4, <2>2, StatementRuns DEF updateOk, insertOk
  <2>4. todo' \in [Hours -> Nat] /\ writing' \in Hours \cup {NoHour}
        /\ step' \in {"idle", "update", "insert"}
    BY <1>4, <2>2, RowDone DEF updateOk, insertOk
  <2> QED
    BY <2>1, <2>3, <2>4 DEF TypeOK, budgetVars, statVars, ghostVars
<1>5. CASE statementFails
  <2> DEFINE s == [hour |-> writing, step |-> step, fig |-> todo[writing], nth |-> failures]
  <2>1. UNCHANGED <<now, budgetVars, statVars, attempts, admitted, rowsAdmitted, seen>>
    BY <1>5 DEF statementFails
  <2>2. /\ writing \in Hours /\ todo \in [Hours -> Nat] /\ todo[writing] \in Nat
        /\ step \in {"update", "insert"}
    BY <1>5 DEF statementFails, FlushInv, TypeOK
  <2>3. failures' \in 0..MaxFailures
    BY <1>5, CounterBoundsAssumption DEF statementFails, TypeOK
  <2>4. table' \in [Hours -> Seq(Nat)]
    <3>1. CASE table' = table
      BY <3>1 DEF TypeOK
    <3>2. CASE table' = [table EXCEPT ![writing] = ran(s)]
      <4>1. ran(s) = IF step = "update" THEN afterUpdate(writing, todo[writing])
                                        ELSE afterInsert(writing, todo[writing])
        BY DEF ran
      <4> QED
        BY <2>2, <3>2, <4>1, StatementRuns
    <3> QED
      BY <1>5, <3>1, <3>2 DEF statementFails
  <2>5. late' = late \/ late' = late \cup {s}
    BY <1>5 DEF statementFails
  <2>6. s \in [hour : Hours, step : {"update", "insert"}, fig : Nat, nth : Nat]
    BY <2>2, CounterBoundsAssumption DEF TypeOK
  <2>7. late' \subseteq [hour : Hours, step : {"update", "insert"}, fig : Nat, nth : Nat]
    BY <2>5, <2>6 DEF TypeOK
  <2>8. strays' \in [Hours -> Nat]
    <3>1. strays \in [Hours -> Nat]
      BY DEF TypeOK
    <3> QED
      BY <1>5, <2>2, <3>1 DEF statementFails
  <2>9. todo' \in [Hours -> Nat] /\ writing' \in Hours \cup {NoHour} /\ step' \in {"idle", "update"}
    BY <1>5, RowDone DEF statementFails
  <2> QED
    BY <2>1, <2>3, <2>4, <2>7, <2>8, <2>9 DEF TypeOK, budgetVars, statVars
<1>6. CASE lateStatement
  <2>1. PICK s \in late : /\ late' = late \ {s}
                          /\ table' = [table EXCEPT ![s.hour] = ran(s)]
                          /\ UNCHANGED <<now, budgetVars, statVars, flushVars, failures, ghostVars>>
    BY <1>6 DEF lateStatement
  <2>2. s.hour \in Hours /\ s.fig \in Nat /\ s.step \in {"update", "insert"}
    BY DEF TypeOK
  <2>3. table' \in [Hours -> Seq(Nat)]
    BY <2>1, <2>2, StatementRuns DEF ran
  <2>4. late' \subseteq [hour : Hours, step : {"update", "insert"}, fig : Nat, nth : Nat]
    BY <2>1 DEF TypeOK
  <2> QED
    BY <2>1, <2>3, <2>4 DEF TypeOK, budgetVars, statVars, flushVars, ghostVars
<1>7. CASE hourTurns
  BY <1>7 DEF hourTurns, TypeOK, budgetVars, statVars, flushVars
<1>8. CASE UNCHANGED vars
  BY <1>8 DEF TypeOK, vars, budgetVars, statVars, flushVars, ghostVars
<1> QED
  BY <1>1, <1>2, <1>3, <1>4, <1>5, <1>6, <1>7, <1>8 DEF Next

(***************************************************************************)
(* Part 2: the budget.                                                     *)
(***************************************************************************)

\* A later window has more hours before it.
LEMMA HoursBefore ==
  ASSUME TypeOK, NEW a \in Nat, NEW b \in Nat, a <= b
  PROVE  /\ Cardinality(before(a)) \in Nat /\ Cardinality(before(b)) \in Nat
         /\ Cardinality(before(a)) <= Cardinality(before(b))
         /\ a \in seen /\ a < b => Cardinality(before(a)) + 1 <= Cardinality(before(b))
<1>1. IsFiniteSet(seen) /\ seen \subseteq Nat
  BY FS_Subset, CounterBoundsAssumption DEF TypeOK
<1>2. IsFiniteSet(before(b)) /\ before(a) \subseteq before(b)
  <2>1. \A h \in seen : h < a => h < b
    BY <1>1
  <2>2. before(b) \subseteq seen /\ before(a) \subseteq before(b)
    BY <2>1 DEF before
  <2> QED
    BY <1>1, <2>2, FS_Subset
<1>3. IsFiniteSet(before(a)) /\ Cardinality(before(a)) <= Cardinality(before(b))
  BY <1>2, FS_Subset
<1>4. ASSUME a \in seen, a < b
      PROVE  Cardinality(before(a)) + 1 <= Cardinality(before(b))
  <2>1. a \notin before(a) /\ before(a) \cup {a} \subseteq before(b)
    BY <1>2, <1>4 DEF before
  <2>2. Cardinality(before(a) \cup {a}) = Cardinality(before(a)) + 1
    BY <1>3, <2>1, FS_AddElement
  <2> QED
    BY <1>2, <2>1, <2>2, FS_Subset
<1> QED
  BY <1>2, <1>3, <1>4, FS_CardinalityType

\* Rolling to the hour the clock shows keeps the account: what the window that
\* closes has spent is within the budget of its hour.
LEMMA RolledAccount ==
  ASSUME TypeOK, BudgetInv
  PROVE  LET w == rolled(now)
         IN  /\ w.hour # 0 /\ w.hour \in seen
             /\ rowsAdmitted <= MaxRowsPerHour * Cardinality(before(w.hour)) + w.rows
             /\ \A p \in Principals :
                  admitted[p] <= principalShare * Cardinality(before(w.hour)) + w.spent[p]
<1> DEFINE w == rolled(now)
<1>1. now \in Nat /\ now # 0 /\ budgetHour \in Nat
  BY CounterBoundsAssumption DEF TypeOK
<1>2. CASE ~newWindow(now)
  <2>1. w.hour = budgetHour /\ w.rows = rowsThisHour /\ w.spent = perPrincipal /\ budgetHour # 0
    BY <1>1, <1>2 DEF rolled, newWindow
  <2> QED
    BY <2>1 DEF BudgetInv
<1>3. CASE newWindow(now)
  <2>1. /\ w.hour = now /\ w.rows = 0 /\ w.spent = [p \in Principals |-> 0]
        /\ budgetHour < now
    BY <1>1, <1>3 DEF rolled, newWindow
  <2> DEFINE a == Cardinality(before(budgetHour))
             b == Cardinality(before(now))
  <2>2. a \in Nat /\ b \in Nat /\ a <= b /\ (budgetHour # 0 => a + 1 <= b)
    BY <1>1, <2>1, HoursBefore DEF BudgetInv
  <2>3. MaxRowsPerHour \in Nat /\ principalShare \in Nat
    BY SharePositive, BudgetAssumption
  <2>4. ASSUME NEW c \in Nat, NEW spent \in 0..c, budgetHour = 0 => spent = 0
        PROVE  c * a + spent <= c * b /\ c * a \in Nat /\ c * b \in Nat
    <3> HIDE DEF a, b
    <3>1. CASE budgetHour = 0
      BY <2>2, <2>4, <3>1, Products
    <3>2. CASE budgetHour # 0
      <4>1. c * (a + 1) = c * a + c /\ c * a \in Nat
        BY <2>2, Products
      <4>2. c * (a + 1) <= c * b /\ c * b \in Nat
        BY <2>2, <3>2, Products
      <4> QED
        BY <2>4, <4>1, <4>2
    <3> QED
      BY <3>1, <3>2
  <2>5. rowsAdmitted <= MaxRowsPerHour * b
    <3>1. rowsAdmitted \in Nat /\ rowsThisHour \in 0..MaxRowsPerHour
      BY DEF TypeOK
    <3>2. rowsAdmitted <= MaxRowsPerHour * a + rowsThisHour /\ (budgetHour = 0 => rowsThisHour = 0)
      BY DEF BudgetInv
    <3> HIDE DEF a, b
    <3>3. /\ MaxRowsPerHour * a + rowsThisHour <= MaxRowsPerHour * b
          /\ MaxRowsPerHour * a \in Nat /\ MaxRowsPerHour * b \in Nat
      BY <2>3, <2>4, <3>1, <3>2
    <3> QED
      BY <3>1, <3>2, <3>3
  <2>6. ASSUME NEW p \in Principals
        PROVE  admitted[p] <= principalShare * b
    <3>1. admitted[p] \in Nat /\ perPrincipal[p] \in 0..principalShare
      BY DEF TypeOK
    <3>2. /\ admitted[p] <= principalShare * a + perPrincipal[p]
          /\ budgetHour = 0 => perPrincipal[p] = 0
      BY DEF BudgetInv
    <3> HIDE DEF a, b
    <3>3. /\ principalShare * a + perPrincipal[p] <= principalShare * b
          /\ principalShare * a \in Nat /\ principalShare * b \in Nat
      BY <2>3, <2>4, <3>1, <3>2
    <3> QED
      BY <3>1, <3>2, <3>3
  <2>7. principalShare * b \in Nat /\ MaxRowsPerHour * b \in Nat
    BY <2>2, <2>3, Products
  <2>8. \A p \in Principals : w.spent[p] = 0 /\ admitted[p] <= principalShare * b + w.spent[p]
    BY <2>1, <2>6, <2>7
  <2>9. rowsAdmitted <= MaxRowsPerHour * b + w.rows
    BY <2>1, <2>5, <2>7
  <2> QED
    BY <1>1, <2>1, <2>8, <2>9 DEF BudgetInv
<1> QED
  BY <1>2, <1>3

LEMMA StepBudget ==
  ASSUME TypeOK, TypeOK', BudgetInv, [Next]_vars
  PROVE  BudgetInv'
<1> DEFINE w == rolled(now)
<1>1. /\ w.hour # 0 /\ w.hour \in seen
      /\ rowsAdmitted <= MaxRowsPerHour * Cardinality(before(w.hour)) + w.rows
      /\ \A p \in Principals :
           admitted[p] <= principalShare * Cardinality(before(w.hour)) + w.spent[p]
  BY RolledAccount
<1>2. /\ w.hour \in Hours \cup {0} /\ w.rows \in 0..MaxRowsPerHour /\ w.over \in Nat
      /\ w.spent \in [Principals -> 0..principalShare]
      /\ w = [hour |-> w.hour, rows |-> w.rows, over |-> w.over, spent |-> w.spent]
  BY Rolled DEF TypeOK
<1> DEFINE c == Cardinality(before(w.hour))
<1>3. /\ c \in Nat /\ MaxRowsPerHour * c \in Nat /\ principalShare * c \in Nat
      /\ rowsAdmitted \in Nat /\ admitted \in [Principals -> Nat]
  <2>1. w.hour \in Nat
    BY <1>2, CounterBoundsAssumption
  <2>2. c \in Nat /\ MaxRowsPerHour \in Nat /\ principalShare \in Nat
    BY <2>1, HoursBefore, SharePositive, BudgetAssumption
  <2>3. rowsAdmitted \in Nat /\ admitted \in [Principals -> Nat]
    BY DEF TypeOK
  <2> HIDE DEF c
  <2> QED
    BY <2>2, <2>3, Products
<1>4. ASSUME NEW p \in Principals, admitEvent(p)
      PROVE  BudgetInv'
  <2>1. now' = now /\ seen' = seen
    BY <1>4 DEF admitEvent
  <2>2. budgetHour' = w.hour
    BY <1>4, BudgetTypes DEF admitEvent, TypeOK
  <2>3. before(budgetHour)' = before(w.hour)
    BY <2>1, <2>2 DEF before
  <2>4. CASE UNCHANGED <<admitted, rowsAdmitted>> /\ budgetIs([w EXCEPT !.over = @ + 1])
    <3>1. rowsThisHour' = w.rows /\ perPrincipal' = w.spent
      BY <1>2, <2>4 DEF budgetIs
    <3> QED
      BY <1>1, <2>1, <2>2, <2>3, <2>4, <3>1 DEF BudgetInv
  <2>5. CASE /\ budgetIs([w EXCEPT !.rows = @ + 1, !.spent[p] = @ + 1])
             /\ admitted' = [admitted EXCEPT ![p] = @ + 1] /\ rowsAdmitted' = rowsAdmitted + 1
    <3>1. rowsThisHour' = w.rows + 1 /\ perPrincipal' = [w.spent EXCEPT ![p] = @ + 1]
      BY <1>2, <2>5 DEF budgetIs
    <3>2. rowsAdmitted' <= MaxRowsPerHour * c + rowsThisHour'
      BY <1>1, <1>2, <1>3, <2>5, <3>1
    <3>3. ASSUME NEW q \in Principals
          PROVE  admitted'[q] <= principalShare * c + perPrincipal'[q]
      <4>1. admitted[q] <= principalShare * c + w.spent[q] /\ w.spent[q] \in 0..principalShare
        BY <1>1, <1>2
      <4>2. CASE q = p
        <5>1. admitted'[q] = admitted[q] + 1 /\ perPrincipal'[q] = w.spent[q] + 1
          BY <1>2, <1>3, <2>5, <3>1, <4>2
        <5> QED
          BY <1>3, <4>1, <5>1, SharePositive
      <4>3. CASE q # p
        BY <1>2, <1>3, <2>5, <3>1, <4>1, <4>3
      <4> QED
        BY <4>2, <4>3
    <3> QED
      BY <1>1, <2>1, <2>2, <2>3, <3>2, <3>3 DEF BudgetInv
  <2> QED
    BY <1>4, <2>4, <2>5 DEF admitEvent
<1>5. CASE readHealth
  <2>1. /\ UNCHANGED <<now, seen, admitted, rowsAdmitted>>
        /\ budgetHour' = w.hour /\ rowsThisHour' = w.rows /\ perPrincipal' = w.spent
    BY <1>5 DEF readHealth, budgetIs, ghostVars
  <2>2. before(budgetHour)' = before(w.hour)
    BY <2>1 DEF before
  <2> QED
    BY <1>1, <2>1, <2>2 DEF BudgetInv
<1>6. CASE hourTurns
  <2>1. /\ UNCHANGED <<budgetHour, rowsThisHour, perPrincipal, admitted, rowsAdmitted>>
        /\ seen' = seen \cup {now'}
    BY <1>6 DEF hourTurns, budgetVars
  <2> DEFINE a == Cardinality(before(budgetHour))
             b == Cardinality(before(budgetHour)')
  <2>2. a \in Nat /\ b \in Nat /\ a <= b
    <3>1. IsFiniteSet(before(budgetHour)')
      <4>1. IsFiniteSet(seen')
        BY FS_Subset, CounterBoundsAssumption DEF TypeOK
      <4> QED
        BY <4>1, FS_Subset DEF before
    <3>2. before(budgetHour) \subseteq before(budgetHour)'
      BY <2>1 DEF before
    <3> QED
      BY <3>1, <3>2, FS_Subset, FS_CardinalityType
  <2>3. /\ MaxRowsPerHour \in Nat /\ principalShare \in Nat
    BY SharePositive, BudgetAssumption
  <2>4. ASSUME NEW k \in Nat, NEW x \in Nat, NEW y \in Nat, x <= k * a + y
        PROVE  x <= k * b + y
    <3> HIDE DEF a, b
    <3>1. k * a <= k * b /\ k * a \in Nat /\ k * b \in Nat
      BY <2>2, Products
    <3> QED
      BY <2>4, <3>1
  <2>5. rowsAdmitted <= MaxRowsPerHour * b + rowsThisHour
    <3>1. rowsAdmitted \in Nat /\ rowsThisHour \in Nat /\ rowsAdmitted <= MaxRowsPerHour * a + rowsThisHour
      BY BudgetAssumption DEF TypeOK, BudgetInv
    <3> QED
      BY <2>3, <2>4, <3>1
  <2>6. ASSUME NEW p \in Principals
        PROVE  admitted[p] <= principalShare * b + perPrincipal[p]
    <3>1. admitted[p] \in Nat /\ perPrincipal[p] \in Nat /\ admitted[p] <= principalShare * a + perPrincipal[p]
      BY SharePositive DEF TypeOK, BudgetInv
    <3> QED
      BY <2>3, <2>4, <3>1
  <2> HIDE DEF a
  <2> QED
    BY <2>1, <2>5, <2>6 DEF BudgetInv
<1>7. CASE takeStats \/ updateOk \/ insertOk \/ statementFails \/ lateStatement \/ UNCHANGED vars
  <2>1. UNCHANGED <<now, seen, budgetHour, rowsThisHour, perPrincipal, admitted, rowsAdmitted>>
    BY <1>7 DEF takeStats, updateOk, insertOk, statementFails, lateStatement, vars, budgetVars, ghostVars
  <2> QED
    BY <2>1 DEF BudgetInv, before
<1> QED
  BY <1>4, <1>5, <1>6, <1>7 DEF Next

(***************************************************************************)
(* Part 3: the figures.                                                    *)
(***************************************************************************)

\* What a statement of the hour h leaves in the table.
Runs(h, fig) ==
  \/ table' = table
  \/ \E kind \in {"update", "insert"} :
       table' = [table EXCEPT ![h] = IF kind = "update" THEN afterUpdate(h, fig)
                                                        ELSE afterInsert(h, fig)]

\* A statement of h with a figure within the bound leaves it within the bound,
\* in the table or on the server.
LEMMA StaysWithin ==
  ASSUME TypeOK, NEW h \in Hours, NEW fig \in Nat, Runs(h, fig),
         \A s \in late' : s \in late \/ (s.hour = h /\ s.fig = fig),
         NEW g \in Hours, NEW bound \in Nat, Within(g, bound), g = h => fig <= bound
  PROVE  Within(g, bound)'
<1>1. \A i \in DOMAIN table'[g] : table'[g][i] <= bound
  <2>1. CASE table' = table \/ g # h
    <3>1. table'[g] = table[g]
      BY <2>1 DEF Runs, TypeOK
    <3> QED
      BY <3>1 DEF Within
  <2>2. CASE ~(table' = table) /\ g = h
    <3>1. PICK kind \in {"update", "insert"} :
            table' = [table EXCEPT ![h] = IF kind = "update" THEN afterUpdate(h, fig)
                                                             ELSE afterInsert(h, fig)]
      BY <2>2 DEF Runs
    <3> QED
      BY <2>2, <3>1, StatementRuns DEF Within
  <2> QED
    BY <2>1, <2>2
<1>2. \A s \in late' : s.hour = g => s.fig <= bound
  BY DEF Within
<1> QED
  BY <1>1, <1>2 DEF Within

\* A statement of a pass, or of one before: its figure is one of its hour.
LEMMA StatementKeepsFigures ==
  ASSUME TypeOK, RealInv, FigureInv, NEW h \in Hours, NEW fig \in Nat, Runs(h, fig),
         \A s \in late' : s \in late \/ (s.hour = h /\ s.fig = fig),
         fig <= attempts[h], h \in held => fig <= figure[h], todo'[h] > 0 => fig <= todo[h],
         h \notin held => h <= evictedThrough,
         todo' = todo \/ todo' = [todo EXCEPT ![h] = 0],
         UNCHANGED <<held, figure, evictedThrough, attempts>>
  PROVE  RealInv' /\ FigureInv'
<1>1. /\ figure \in [Hours -> Nat] /\ attempts \in [Hours -> Nat] /\ todo \in [Hours -> Nat]
      /\ Hours \subseteq Nat /\ table \in [Hours -> Seq(Nat)]
  BY CounterBoundsAssumption DEF TypeOK
<1>2. \A g \in Hours : todo'[g] \in Nat /\ (todo'[g] = todo[g] \/ todo'[g] = 0)
  BY <1>1
<1>3. RealInv'
  <2>1. ASSUME NEW g \in Hours
        PROVE  figure'[g] <= attempts'[g] /\ todo'[g] <= attempts'[g] /\ Within(g, attempts[g])'
    <3>1. Within(g, attempts[g]) /\ figure[g] <= attempts[g] /\ todo[g] <= attempts[g]
          /\ attempts[g] \in Nat
      BY <1>1 DEF RealInv
    <3>2. \A i \in DOMAIN table'[g] : table'[g][i] <= attempts'[g]
      BY <3>1, StaysWithin DEF Within
    <3>3. \A s \in late' : s.hour = g => s.fig <= attempts'[g]
      BY <3>1, StaysWithin DEF Within
    <3> QED
      BY <1>1, <1>2, <3>1, <3>2, <3>3 DEF Within
  <2> QED
    BY <2>1 DEF RealInv
<1>4. FigureInv'
  <2>1. ASSUME NEW g \in Hours, g \in held
        PROVE  Within(g, figure[g])' /\ todo'[g] <= figure'[g]
    <3>1. Within(g, figure[g]) /\ figure[g] \in Nat /\ todo[g] <= figure[g]
      BY <1>1, <2>1 DEF FigureInv
    <3>2. \A i \in DOMAIN table'[g] : table'[g][i] <= figure'[g]
      BY <2>1, <3>1, StaysWithin DEF Within
    <3>3. \A s \in late' : s.hour = g => s.fig <= figure'[g]
      BY <2>1, <3>1, StaysWithin DEF Within
    <3> QED
      BY <1>1, <1>2, <3>1, <3>2, <3>3 DEF Within
  <2>2. ASSUME NEW g \in Hours, todo'[g] > 0
        PROVE  Within(g, todo[g])'
    <3>1. todo'[g] = todo[g] /\ todo[g] \in Nat /\ todo[g] > 0
      BY <1>1, <1>2, <2>2
    <3>2. Within(g, todo[g])
      BY <3>1 DEF FigureInv
    <3>3. \A i \in DOMAIN table'[g] : table'[g][i] <= todo'[g]
      BY <2>2, <3>1, <3>2, StaysWithin DEF Within
    <3>4. \A s \in late' : s.hour = g => s.fig <= todo'[g]
      BY <2>2, <3>1, <3>2, StaysWithin DEF Within
    <3> QED
      BY <3>3, <3>4 DEF Within
  <2>3. ASSUME NEW g \in Hours, g \notin held
        PROVE  figure[g] = 0 /\ (g <= evictedThrough \/ Untouched(g)')
    <3>1. figure[g] = 0 /\ (g <= evictedThrough \/ Untouched(g))
      BY <2>3 DEF FigureInv
    <3>2. CASE g # h /\ Untouched(g)
      <4>1. table'[g] = table[g]
        BY <1>1, <3>2 DEF Runs
      <4>2. \A s \in late' : s.hour # g
        BY <3>2 DEF Untouched
      <4>3. todo'[g] = 0
        BY <1>2, <3>2 DEF Untouched
      <4> QED
        BY <3>1, <3>2, <4>1, <4>2, <4>3 DEF Untouched
    <3> QED
      BY <2>3, <3>1, <3>2
  <2> QED
    BY <2>1, <2>2, <2>3 DEF FigureInv
<1> QED
  BY <1>3, <1>4

\* The statement in flight writes the figure of its pass.
LEMMA InFlight ==
  ASSUME TypeOK, RealInv, FlushInv, FigureInv, step # "idle"
  PROVE  /\ writing \in Hours /\ todo[writing] \in Nat /\ todo[writing] > 0
         /\ todo[writing] <= attempts[writing]
         /\ writing \in held => todo[writing] <= figure[writing]
         /\ writing \notin held => writing <= evictedThrough
         /\ Within(writing, todo[writing])
<1>1. writing \in Hours /\ todo \in [Hours -> Nat] /\ todo[writing] > 0
  BY DEF TypeOK, FlushInv
<1>2. todo[writing] \in Nat
  BY <1>1
<1>3. todo[writing] <= attempts[writing]
  BY <1>1 DEF RealInv
<1>4. writing \in held => todo[writing] <= figure[writing]
  BY <1>1 DEF FigureInv
<1>5. writing \notin held => writing <= evictedThrough
  BY <1>1 DEF FigureInv, Untouched
<1>6. Within(writing, todo[writing])
  BY <1>1 DEF FigureInv
<1> QED
  BY <1>1, <1>2, <1>3, <1>4, <1>5, <1>6

\* One left on the server writes a figure of before.
LEMMA OnTheServer ==
  ASSUME TypeOK, RealInv, FigureInv, NEW s \in late
  PROVE  /\ s.hour \in Hours /\ s.fig \in Nat /\ s.fig <= attempts[s.hour]
         /\ s.hour \in held => s.fig <= figure[s.hour]
         /\ s.hour \notin held => s.hour <= evictedThrough
         /\ todo[s.hour] > 0 => s.fig <= todo[s.hour]
<1>1. s.hour \in Hours /\ s.fig \in Nat
  BY DEF TypeOK
<1> QED
  BY <1>1 DEF RealInv, FigureInv, Within, Untouched

\* An attempt is counted, and hours may be let go for its hour.
LEMMA AttemptKeepsFigures ==
  ASSUME TypeOK, RealInv, FigureInv, NEW p \in Principals, admitEvent(p)
  PROVE  RealInv' /\ FigureInv'
<1>1. /\ now \in Hours /\ figure \in [Hours -> Nat] /\ attempts \in [Hours -> Nat]
      /\ Hours \subseteq Nat /\ todo \in [Hours -> Nat] /\ evictedThrough \in Nat
  <2>1. Hours \subseteq Nat
    BY CounterBoundsAssumption
  <2>2. evictedThrough \in Hours \cup {0}
    BY DEF TypeOK
  <2>3. /\ now \in Hours /\ figure \in [Hours -> Nat] /\ attempts \in [Hours -> Nat]
        /\ todo \in [Hours -> Nat]
    BY DEF TypeOK
  <2> QED
    BY <2>1, <2>2, <2>3
<1>2. \A h \in Hours : \A i \in DOMAIN table[h] : table[h][i] \in Nat
  <2>1. table \in [Hours -> Seq(Nat)]
    BY DEF TypeOK
  <2> QED
    BY <2>1
<1>3. \A s \in late : s.fig \in Nat
  BY DEF TypeOK
<1>4. /\ UNCHANGED <<table, late, todo>> /\ stat(now)
      /\ \A h \in Hours : attempts'[h] = IF h = now THEN attempts[h] + 1 ELSE attempts[h]
  BY <1>1 DEF admitEvent, flushVars
<1>5. ASSUME NEW h \in Hours, NEW a \in Nat, NEW b \in Nat, a <= b, Within(h, a)
      PROVE  Within(h, b)
  BY <1>2, <1>3, <1>5 DEF Within
<1>6. ASSUME NEW h \in Hours
      PROVE  Within(h, attempts[h])' /\ todo'[h] <= attempts'[h]
  <2>1. Within(h, attempts[h]) /\ todo[h] <= attempts[h]
    BY DEF RealInv
  <2>2. attempts[h] \in Nat /\ attempts'[h] \in Nat /\ attempts[h] <= attempts'[h] /\ todo[h] \in Nat
    BY <1>1, <1>4
  <2>3. Within(h, attempts'[h])
    BY <1>5, <2>1, <2>2
  <2> QED
    BY <1>4, <2>1, <2>2, <2>3 DEF Within
<1>7. CASE UNCHANGED statVars /\ now \notin held
  <2>1. UNCHANGED <<held, figure, evictedThrough>>
    BY <1>7 DEF statVars
  <2>2. RealInv'
    BY <1>1, <1>4, <1>6, <2>1 DEF RealInv
  <2>3. FigureInv'
    BY <1>4, <2>1 DEF FigureInv, Within, Untouched
  <2> QED
    BY <2>2, <2>3
<1>8. CASE \E out \in SUBSET (held \ {now}) :
             /\ held' = (held \ out) \cup {now}
             /\ \A h \in Hours : figure'[h] = IF h = now THEN figure[h] + 1
                                              ELSE IF h \in out THEN 0 ELSE figure[h]
             /\ figure' \in [Hours -> Nat]
             /\ evictedThrough' \in Hours \cup {0} /\ evictedThrough <= evictedThrough'
             /\ \A h \in out : h <= evictedThrough'
             /\ now \notin held => ~(now <= evictedThrough)
  <2>1. PICK out \in SUBSET (held \ {now}) :
             /\ held' = (held \ out) \cup {now}
             /\ \A h \in Hours : figure'[h] = IF h = now THEN figure[h] + 1
                                              ELSE IF h \in out THEN 0 ELSE figure[h]
             /\ figure' \in [Hours -> Nat]
             /\ evictedThrough' \in Hours \cup {0} /\ evictedThrough <= evictedThrough'
             /\ \A h \in out : h <= evictedThrough'
             /\ now \notin held => ~(now <= evictedThrough)
    BY <1>8
  <2>2. \A h \in Hours : figure'[h] \in Nat /\ figure'[h] <= attempts'[h]
    <3>1. \A h \in Hours : figure[h] \in Nat /\ attempts[h] \in Nat /\ figure[h] <= attempts[h]
      BY <1>1 DEF RealInv
    <3> QED
      BY <1>4, <2>1, <3>1
  <2>3. RealInv'
    BY <1>6, <2>2 DEF RealInv
  <2>4. ASSUME NEW h \in Hours, h \in held'
        PROVE  Within(h, figure[h])' /\ todo'[h] <= figure'[h]
    <3>1. CASE h \in held
      <4>1. Within(h, figure[h]) /\ todo[h] <= figure[h]
        BY <3>1 DEF FigureInv
      <4>2. figure[h] \in Nat /\ figure'[h] \in Nat /\ figure[h] <= figure'[h] /\ todo[h] \in Nat
        BY <1>1, <2>1, <2>4, <3>1
      <4>3. Within(h, figure'[h])
        BY <1>5, <4>1, <4>2
      <4> QED
        BY <1>4, <4>1, <4>2, <4>3 DEF Within
    <3>2. CASE h \notin held
      <4>1. h = now /\ Untouched(h) /\ figure'[h] \in Nat
        BY <2>1, <2>2, <2>4, <3>2 DEF FigureInv
      <4>2. DOMAIN <<>> = {} /\ table'[h] = <<>> /\ todo'[h] = 0 /\ late' = late
        BY <1>4, <4>1 DEF Untouched
      <4> QED
        BY <4>1, <4>2 DEF Untouched, Within
    <3> QED
      BY <3>1, <3>2
  <2>5. ASSUME NEW h \in Hours, h \notin held'
        PROVE  figure'[h] = 0 /\ (h <= evictedThrough' \/ Untouched(h)')
    <3>1. CASE h \in out
      BY <2>1, <2>5, <3>1
    <3>2. CASE h \notin held
      <4>1. h # now /\ figure[h] = 0 /\ (h <= evictedThrough \/ Untouched(h))
        BY <2>1, <2>5, <3>2 DEF FigureInv
      <4>2. figure'[h] = 0
        BY <2>1, <3>2, <4>1
      <4>3. h \in Nat /\ evictedThrough' \in Nat /\ evictedThrough <= evictedThrough'
        BY <1>1, <2>1
      <4>4. Untouched(h) => Untouched(h)'
        BY <1>4 DEF Untouched
      <4> QED
        BY <1>1, <4>1, <4>2, <4>3, <4>4
    <3> QED
      BY <2>1, <2>5, <3>1, <3>2
  <2>6. \A h \in Hours : todo'[h] > 0 => Within(h, todo[h])'
    BY <1>4 DEF FigureInv, Within
  <2> QED
    BY <2>3, <2>4, <2>5, <2>6 DEF FigureInv
<1>9. stat(now)
  BY <1>4
<1> QED
  BY <1>1, <1>7, <1>8, <1>9, Stat

LEMMA StepFigures ==
  ASSUME TypeOK, RealInv, FlushInv, FigureInv, [Next]_vars
  PROVE  RealInv' /\ FlushInv' /\ FigureInv'
<1>1. ASSUME NEW p \in Principals, admitEvent(p)
      PROVE  RealInv' /\ FlushInv' /\ FigureInv'
  BY <1>1, AttemptKeepsFigures DEF admitEvent, flushVars, FlushInv
<1>2. CASE takeStats
  <2>1. UNCHANGED <<held, figure, evictedThrough, attempts, table, late>>
    BY <1>2 DEF takeStats, statVars, ghostVars
  <2>2. figure \in [Hours -> Nat]
    BY DEF TypeOK
  <2>3. todo' = figure /\ FlushInv'
    BY <1>2, <2>2, NextRow DEF takeStats
  <2>4. RealInv'
    BY <2>1, <2>3 DEF RealInv, Within
  <2>5. ASSUME NEW h \in Hours, h \in held
        PROVE  Within(h, figure[h])' /\ todo'[h] <= figure'[h]
    BY <2>1, <2>2, <2>3, <2>5 DEF FigureInv, Within
  <2>6. ASSUME NEW h \in Hours, h \notin held
        PROVE  figure[h] = 0 /\ todo'[h] = 0 /\ (h <= evictedThrough \/ Untouched(h)')
    BY <2>1, <2>3, <2>6 DEF FigureInv, Untouched
  <2>7. ASSUME NEW h \in Hours, todo'[h] > 0
        PROVE  Within(h, todo[h])'
    <3>1. h \in held
      BY <2>6, <2>7
    <3> QED
      BY <2>1, <2>3, <2>5, <3>1 DEF Within
  <2> QED
    BY <2>1, <2>3, <2>4, <2>5, <2>6, <2>7 DEF FigureInv
<1>3. ASSUME step # "idle", Runs(writing, todo[writing]),
             \A s \in late' : s \in late \/ (s.hour = writing /\ s.fig = todo[writing]),
             todo' = todo \/ todo' = [todo EXCEPT ![writing] = 0],
             UNCHANGED <<held, figure, evictedThrough, attempts>>
      PROVE  RealInv' /\ FigureInv'
  BY <1>3, InFlight, StatementKeepsFigures
<1>4. CASE updateOk \/ insertOk
  <2>1. UNCHANGED <<held, figure, evictedThrough, attempts, late>> /\ step # "idle"
    BY <1>4 DEF updateOk, insertOk, statVars, ghostVars
  <2>2. Runs(writing, todo[writing])
    BY <1>4 DEF updateOk, insertOk, Runs
  <2>3. (todo' = todo /\ writing' = writing /\ step' = "insert") \/ rowDone
    BY <1>4 DEF updateOk, insertOk
  <2>4. (todo' = todo \/ todo' = [todo EXCEPT ![writing] = 0]) /\ FlushInv'
    BY <2>1, <2>3, RowDone DEF FlushInv
  <2> QED
    BY <1>3, <2>1, <2>2, <2>4
<1>5. CASE statementFails
  <2> DEFINE s == [hour |-> writing, step |-> step, fig |-> todo[writing], nth |-> failures]
  <2>1. UNCHANGED <<held, figure, evictedThrough, attempts>> /\ step # "idle"
    BY <1>5 DEF statementFails, statVars
  <2>2. Runs(writing, todo[writing])
    BY <1>5, <2>1 DEF statementFails, Runs, ran, TypeOK
  <2>3. \A t \in late' : t \in late \/ (t.hour = writing /\ t.fig = todo[writing])
    BY <1>5 DEF statementFails
  <2>4. todo' = [todo EXCEPT ![writing] = 0] /\ FlushInv'
    BY <1>5, RowDone DEF statementFails
  <2> QED
    BY <1>3, <2>1, <2>2, <2>3, <2>4
<1>6. CASE lateStatement
  <2>1. PICK s \in late : /\ late' = late \ {s}
                          /\ table' = [table EXCEPT ![s.hour] = ran(s)]
                          /\ UNCHANGED <<statVars, flushVars, ghostVars>>
    BY <1>6 DEF lateStatement
  <2>2. UNCHANGED <<held, figure, evictedThrough, attempts, todo, writing, step>>
    BY <2>1 DEF statVars, flushVars, ghostVars
  <2>3. Runs(s.hour, s.fig)
    <3>1. s.step \in {"update", "insert"}
      BY DEF TypeOK
    <3> QED
      BY <2>1, <3>1 DEF Runs, ran
  <2>4. FlushInv'
    BY <2>2 DEF FlushInv
  <2> QED
    BY <2>1, <2>2, <2>3, <2>4, OnTheServer, StatementKeepsFigures
<1>7. CASE readHealth \/ hourTurns \/ UNCHANGED vars
  <2>1. UNCHANGED <<held, figure, evictedThrough, todo, writing, step, table, late, attempts>>
    BY <1>7 DEF readHealth, hourTurns, vars, statVars, flushVars, ghostVars
  <2> QED
    BY <2>1 DEF RealInv, FlushInv, FigureInv, Within, Untouched
<1> QED
  BY <1>1, <1>2, <1>4, <1>5, <1>6, <1>7 DEF Next

(***************************************************************************)
(* Part 4: the rows.                                                       *)
(***************************************************************************)
LEMMA StepRows ==
  ASSUME TypeOK, FlushInv, RowsInv, [Next]_vars
  PROVE  RowsInv'
<1>1. /\ table \in [Hours -> Seq(Nat)] /\ strays \in [Hours -> Nat]
      /\ \A h \in Hours : IsFiniteSet(pending(h)) /\ Cardinality(pending(h)) \in Nat
  <2>1. \A h \in Hours : pending(h) \subseteq late
    BY DEF pending
  <2> QED
    BY <2>1, FS_Subset, FS_CardinalityType DEF RowsInv, TypeOK
<1>2. \A h \in Hours : Len(table[h]) \in Nat /\ strays[h] \in Nat
  BY <1>1
<1>3. ASSUME UNCHANGED <<table, late, strays>>, \A h \in Hours : step' = "insert" /\ writing' = h =>
                                                  Len(table[h]) = 0 \/ (step = "insert" /\ writing = h)
      PROVE  RowsInv'
  <2>1. \A h \in Hours : pending(h)' = pending(h)
    BY <1>3 DEF pending
  <2> QED
    BY <1>1, <1>2, <1>3, <2>1 DEF RowsInv
<1>4. CASE \E p \in Principals : admitEvent(p)
  BY <1>3, <1>4 DEF admitEvent, flushVars
<1>5. CASE readHealth \/ hourTurns \/ UNCHANGED vars
  BY <1>3, <1>5 DEF readHealth, hourTurns, vars, flushVars, ghostVars
<1>6. CASE takeStats
  BY <1>3, <1>6, NextRow DEF takeStats, TypeOK, ghostVars
<1>7. CASE updateOk
  <2>1. writing \in Hours /\ todo[writing] \in Nat /\ UNCHANGED <<late, strays>>
    BY <1>7 DEF updateOk, FlushInv, TypeOK, ghostVars
  <2>2. /\ \A h \in Hours : h # writing => table'[h] = table[h]
        /\ Len(table'[writing]) = Len(table[writing])
    BY <1>7, <2>1, StatementRuns DEF updateOk
  <2>3. step' = "insert" => writing' = writing /\ table[writing] = <<>>
    BY <1>7, RowDone DEF updateOk
  <2>4. \A h \in Hours : pending(h)' = pending(h)
    BY <2>1 DEF pending
  <2>5. \A h \in Hours : Len(table'[h]) = Len(table[h])
    BY <2>2
  <2>6. \A h \in Hours : step' = "insert" /\ writing' = h => Len(table[h]) = 0
    BY <2>3
  <2> QED
    BY <1>1, <1>2, <2>1, <2>4, <2>5, <2>6 DEF RowsInv
<1>8. CASE insertOk
  <2>1. writing \in Hours /\ todo[writing] \in Nat /\ UNCHANGED <<late, strays>> /\ step' # "insert"
    BY <1>8, RowDone DEF insertOk, FlushInv, TypeOK, ghostVars
  <2>2. /\ \A h \in Hours : h # writing => table'[h] = table[h]
        /\ Len(table'[writing]) = Len(table[writing]) + 1
    BY <1>8, <2>1, StatementRuns DEF insertOk
  <2>3. \A h \in Hours : pending(h)' = pending(h)
    BY <2>1 DEF pending
  <2> QED
    BY <1>1, <1>2, <1>8, <2>1, <2>2, <2>3 DEF RowsInv, insertOk
<1>9. CASE statementFails
  <2> DEFINE s == [hour |-> writing, step |-> step, fig |-> todo[writing], nth |-> failures]
  <2>1. /\ writing \in Hours /\ todo[writing] \in Nat /\ step \in {"update", "insert"}
        /\ step' # "insert"
    BY <1>9, RowDone DEF statementFails, FlushInv, TypeOK
  <2>2. CASE UNCHANGED <<table, late, strays>>
    BY <1>3, <2>1, <2>2
  <2>3. CASE table' = [table EXCEPT ![writing] = ran(s)] /\ UNCHANGED <<late, strays>>
    <3>1. ran(s) = IF step = "update" THEN afterUpdate(writing, todo[writing])
                                      ELSE afterInsert(writing, todo[writing])
      BY DEF ran
    <3>2. /\ \A h \in Hours : h # writing => table'[h] = table[h]
          /\ Len(table'[writing]) = IF step = "update" THEN Len(table[writing]) ELSE Len(table[writing]) + 1
      BY <2>1, <2>3, <3>1, StatementRuns
    <3>3. \A h \in Hours : pending(h)' = pending(h)
      BY <2>3 DEF pending
    <3> QED
      BY <1>1, <1>2, <2>1, <2>3, <3>2, <3>3 DEF RowsInv
  <2>4. CASE /\ late' = late \cup {s} /\ UNCHANGED table
             /\ strays' = [strays EXCEPT ![writing] = IF step = "insert" THEN @ + 1 ELSE @]
    <3>1. IsFiniteSet(late')
      BY <2>4, FS_AddElement DEF RowsInv
    <3>2. ASSUME NEW h \in Hours, h # writing \/ step = "update"
          PROVE  pending(h)' = pending(h) /\ strays'[h] = strays[h]
      BY <1>1, <2>1, <2>4, <3>2 DEF pending
    <3>3. ASSUME NEW h \in Hours, h = writing, step = "insert"
          PROVE  /\ Cardinality(pending(h)') <= Cardinality(pending(h)) + 1
                 /\ Cardinality(pending(h)') \in Nat
                 /\ strays'[h] = strays[h] + 1
      <4>1. pending(h)' = pending(h) \cup {s}
        BY <2>4, <3>3 DEF pending
      <4> HIDE DEF s
      <4>2. /\ Cardinality(pending(h) \cup {s}) <= Cardinality(pending(h)) + 1
            /\ IsFiniteSet(pending(h) \cup {s})
        <5>1. IsFiniteSet(pending(h)) /\ Cardinality(pending(h)) \in Nat
          BY <1>1
        <5> QED
          BY <5>1, FS_AddElement
      <4>3. Cardinality(pending(h) \cup {s}) \in Nat
        BY <4>2, FS_CardinalityType
      <4> QED
        BY <1>1, <2>4, <3>3, <4>1, <4>2, <4>3
    <3>4. \A h \in Hours : /\ Cardinality(pending(h)') <= strays'[h]
                           /\ Len(table'[h]) + Cardinality(pending(h)') <= strays'[h] + 1
      <4>1. ASSUME NEW h \in Hours, h # writing \/ step = "update"
            PROVE  /\ Cardinality(pending(h)') <= strays'[h]
                   /\ Len(table'[h]) + Cardinality(pending(h)') <= strays'[h] + 1
        BY <1>1, <1>2, <2>4, <3>2, <4>1 DEF RowsInv
      <4>2. ASSUME NEW h \in Hours, h = writing, step = "insert"
            PROVE  /\ Cardinality(pending(h)') <= strays'[h]
                   /\ Len(table'[h]) + Cardinality(pending(h)') <= strays'[h] + 1
        BY <1>1, <1>2, <2>4, <3>3, <4>2 DEF RowsInv
      <4> QED
        BY <2>1, <4>1, <4>2
    <3> QED
      BY <2>1, <3>1, <3>4 DEF RowsInv
  <2> QED
    BY <1>9, <2>2, <2>3, <2>4 DEF statementFails
<1>10. CASE lateStatement
  <2>1. PICK s \in late : /\ late' = late \ {s}
                          /\ table' = [table EXCEPT ![s.hour] = ran(s)]
                          /\ UNCHANGED <<step, writing, strays>>
    BY <1>10 DEF lateStatement, flushVars, ghostVars
  <2>2. s.hour \in Hours /\ s.fig \in Nat /\ s.step \in {"update", "insert"}
    BY DEF TypeOK
  <2>3. /\ \A h \in Hours : h # s.hour => table'[h] = table[h]
        /\ Len(table'[s.hour]) = IF s.step = "update" THEN Len(table[s.hour]) ELSE Len(table[s.hour]) + 1
    BY <2>1, <2>2, StatementRuns DEF ran
  <2>4. IsFiniteSet(late')
    BY <2>1, FS_Subset DEF RowsInv
  <2>5. ASSUME NEW h \in Hours, h # s.hour \/ s.step = "update"
        PROVE  pending(h)' = pending(h) /\ Len(table'[h]) = Len(table[h])
    BY <2>1, <2>3, <2>5 DEF pending
  <2>6. ASSUME s.step = "insert"
        PROVE  /\ Cardinality(pending(s.hour)') = Cardinality(pending(s.hour)) - 1
               /\ Len(table'[s.hour]) = Len(table[s.hour]) + 1
    <3>1. pending(s.hour)' = pending(s.hour) \ {s} /\ s \in pending(s.hour)
      BY <2>1, <2>2, <2>6 DEF pending
    <3> QED
      <4>1. IsFiniteSet(pending(s.hour))
        BY <1>1, <2>2
      <4>2. Cardinality(pending(s.hour) \ {s}) = Cardinality(pending(s.hour)) - 1
        BY <3>1, <4>1, FS_RemoveElement
      <4> QED
        BY <2>3, <2>6, <3>1, <4>2
  <2>7. ASSUME NEW h \in Hours
        PROVE  /\ Cardinality(pending(h)') <= Cardinality(pending(h))
               /\ Cardinality(pending(h)') \in Int
               /\ Len(table'[h]) + Cardinality(pending(h)') = Len(table[h]) + Cardinality(pending(h))
    <3>1. CASE h # s.hour \/ s.step = "update"
      BY <1>1, <1>2, <2>5, <3>1
    <3>2. CASE h = s.hour /\ s.step = "insert"
      BY <1>1, <1>2, <2>6, <3>2
    <3> QED
      BY <2>2, <3>1, <3>2
  <2> QED
    BY <1>1, <1>2, <2>1, <2>4, <2>7 DEF RowsInv
<1> QED
  BY <1>4, <1>5, <1>6, <1>7, <1>8, <1>9, <1>10 DEF Next

(***************************************************************************)
(* The invariant, and what follows from it.                                *)
(***************************************************************************)
LEMMA InitIInv == Init => IInv
<1> SUFFICES ASSUME Init PROVE IInv
  OBVIOUS
<1>1. /\ Zero \in [Hours -> Nat] /\ (\A h \in Hours : Zero[h] = 0)
      /\ <<>> \in Seq(Nat) /\ Len(<<>>) = 0 /\ DOMAIN <<>> = {}
  BY DEF Zero
<1>2. TypeOK
  <2>1. 0 \in 0..MaxRowsPerHour /\ 0 \in 0..principalShare /\ 0 \in 0..MaxFailures
    BY SharePositive, BudgetAssumption, CounterBoundsAssumption
  <2>2. table \in [Hours -> Seq(Nat)]
    BY <1>1 DEF Init
  <2> QED
    BY <1>1, <2>1, <2>2 DEF Init, TypeOK
<1>3. BudgetInv
  <2>1. before(0) = {}
    BY CounterBoundsAssumption DEF before, Init
  <2>2. Cardinality(before(0)) = 0
    BY <2>1, FS_EmptySet
  <2>3. MaxRowsPerHour * 0 + 0 = 0 /\ principalShare * 0 + 0 = 0
    BY SharePositive, BudgetAssumption
  <2> QED
    BY <2>2, <2>3 DEF Init, BudgetInv
<1>4. RealInv /\ FlushInv /\ FigureInv
  BY <1>1 DEF Init, RealInv, FlushInv, FigureInv, Within, Untouched
<1>5. RowsInv
  <2>1. \A h \in Hours : pending(h) = {}
    BY DEF Init, pending
  <2>2. IsFiniteSet({}) /\ Cardinality({}) = 0
    BY FS_EmptySet
  <2>3. \A h \in Hours : Len(table[h]) = 0 /\ Cardinality(pending(h)) = 0 /\ strays[h] = 0
    BY <1>1, <2>1, <2>2 DEF Init
  <2>4. step = "idle" /\ IsFiniteSet(late)
    BY <2>2 DEF Init
  <2> QED
    BY <2>3, <2>4 DEF RowsInv
<1> QED
  BY <1>2, <1>3, <1>4, <1>5 DEF IInv

LEMMA StepIInv ==
  ASSUME IInv, [Next]_vars
  PROVE  IInv'
<1>1. TypeOK'
  BY StepTypes DEF IInv
<1> QED
  BY <1>1, StepBudget, StepFigures, StepRows DEF IInv

\* The counters keep their types: the budget of the hour and the share of a
\* principal are not overspent, whatever the limits.
THEOREM TypeCorrect == Spec => []TypeOK
<1>1. IInv => TypeOK
  BY DEF IInv
<1> QED
  BY <1>1, InitIInv, StepIInv, PTL DEF Spec

\* However the clock moves back and forth, and for any number of hours and
\* principals, the rows admitted fit one budget for each hour there was, and
\* those of a principal one share for each.
THEOREM OneBudgetAnHour == Spec => []BudgetNotRearmed
<1>1. IInv => BudgetNotRearmed
  <2> SUFFICES ASSUME IInv PROVE BudgetNotRearmed
    OBVIOUS
  <2>1. TypeOK /\ BudgetInv /\ IsFiniteSet(seen) /\ seen \subseteq Nat
    BY FS_Subset, CounterBoundsAssumption DEF IInv, TypeOK
  <2> DEFINE a == Cardinality(before(budgetHour))
             b == Cardinality(seen)
  <2>2. a \in Nat /\ b \in Nat /\ (budgetHour = 0 => a = 0) /\ (budgetHour # 0 => a + 1 <= b)
    <3>1. before(budgetHour) \subseteq seen
      BY DEF before
    <3>2. IsFiniteSet(before(budgetHour)) /\ a \in Nat /\ b \in Nat
      BY <2>1, <3>1, FS_Subset, FS_CardinalityType
    <3>3. CASE budgetHour = 0
      <4>1. before(budgetHour) = {}
        <5>1. \A h \in seen : ~(h < budgetHour)
          BY <2>1, <3>3
        <5> QED
          BY <5>1 DEF before
      <4> QED
        BY <3>2, <3>3, <4>1, FS_EmptySet
    <3>4. CASE budgetHour # 0
      <4>1. budgetHour \notin before(budgetHour) /\ before(budgetHour) \cup {budgetHour} \subseteq seen
        <5>1. budgetHour \in seen /\ ~(budgetHour < budgetHour)
          <6>1. budgetHour \in seen
            BY <2>1, <3>4 DEF BudgetInv
          <6>2. \A n \in Nat : ~(n < n)
            OBVIOUS
          <6> QED
            BY <2>1, <6>1, <6>2
        <5> QED
          BY <3>1, <5>1 DEF before
      <4>2. Cardinality(before(budgetHour) \cup {budgetHour}) = a + 1
        BY <3>2, <4>1, FS_AddElement
      <4> QED
        BY <2>1, <3>2, <3>4, <4>1, <4>2, FS_Subset
    <3> QED
      BY <3>3, <3>4, <3>2
  <2>3. ASSUME NEW c \in Nat, NEW x \in Nat, NEW spent \in 0..c, x <= c * a + spent,
               budgetHour = 0 => spent = 0
        PROVE  x <= c * b
    <3> HIDE DEF a, b
    <3>1. CASE budgetHour = 0
      BY <2>2, <2>3, <3>1, Products
    <3>2. CASE budgetHour # 0
      <4>1. c * (a + 1) = c * a + c /\ c * a \in Nat
        BY <2>2, Products
      <4>2. c * (a + 1) <= c * b /\ c * b \in Nat
        BY <2>2, <3>2, Products
      <4> QED
        BY <2>3, <4>1, <4>2
    <3> QED
      BY <3>1, <3>2
  <2>4. MaxRowsPerHour \in Nat /\ principalShare \in Nat
    BY SharePositive, BudgetAssumption
  <2>5. /\ rowsAdmitted \in Nat /\ rowsThisHour \in 0..MaxRowsPerHour
        /\ rowsAdmitted <= MaxRowsPerHour * a + rowsThisHour
        /\ budgetHour = 0 => rowsThisHour = 0
    BY <2>1 DEF TypeOK, BudgetInv
  <2>6. ASSUME NEW p \in Principals
        PROVE  /\ admitted[p] \in Nat /\ perPrincipal[p] \in 0..principalShare
               /\ admitted[p] <= principalShare * a + perPrincipal[p]
               /\ budgetHour = 0 => perPrincipal[p] = 0
    BY <2>1 DEF TypeOK, BudgetInv
  <2> HIDE DEF a
  <2> QED
    BY <2>3, <2>4, <2>5, <2>6 DEF BudgetNotRearmed
<1> QED
  BY <1>1, InitIInv, StepIInv, PTL DEF Spec

\* A stored figure never says more than happened, and an hour has no more rows
\* than one and the INSERTs given up on the server, for any number of failed
\* statements and whenever the server runs them.
THEOREM FiguresAreReal == Spec => []StoredIsReal
<1>1. IInv => StoredIsReal
  <2> SUFFICES ASSUME IInv, NEW h \in Hours
               PROVE  /\ Len(table[h]) <= 1 + strays[h]
                      /\ \A i \in DOMAIN table[h] : table[h][i] <= attempts[h]
    BY DEF StoredIsReal
  <2>1. Len(table[h]) + Cardinality(pending(h)) <= strays[h] + 1 /\ IsFiniteSet(pending(h))
    <3>1. pending(h) \subseteq late
      BY DEF pending
    <3> QED
      BY <3>1, FS_Subset DEF IInv, RowsInv
  <2>2. Len(table[h]) \in Nat /\ strays[h] \in Nat /\ Cardinality(pending(h)) \in Nat
    <3>1. table \in [Hours -> Seq(Nat)] /\ strays \in [Hours -> Nat]
      BY DEF IInv, TypeOK
    <3> QED
      BY <2>1, <3>1, FS_CardinalityType
  <2>3. \A i \in DOMAIN table[h] : table[h][i] <= attempts[h]
    BY DEF IInv, RealInv, Within
  <2> QED
    BY <2>1, <2>2, <2>3
<1> QED
  BY <1>1, InitIInv, StepIInv, PTL DEF Spec

\* What this process writes never lowers a stored figure and takes no row away:
\* an hour that was let go gets no new accumulator, and the figure of a pass is
\* not below one that an earlier pass left in the table or on the server.
THEOREM FiguresNeverCollapse == Spec => FigureNeverCollapses
<1>1. ASSUME IInv, [Next]_vars
      PROVE  [lateStatement \/ \A h \in Hours : noLower(table[h], table'[h])]_vars
  <2>1. TypeOK /\ RealInv /\ FlushInv /\ FigureInv
    BY <1>1 DEF IInv
  <2>2. ASSUME NEW h \in Hours, table'[h] = table[h]
        PROVE  noLower(table[h], table'[h])
    <3>1. table \in [Hours -> Seq(Nat)]
      BY <2>1 DEF TypeOK
    <3> QED
      BY <2>2, <3>1 DEF noLower
  <2>3. CASE updateOk \/ insertOk \/ statementFails
    <3>1. step # "idle"
      BY <2>3 DEF updateOk, insertOk, statementFails
    <3>2. /\ writing \in Hours /\ todo[writing] \in Nat
          /\ \A i \in DOMAIN table[writing] : table[writing][i] <= todo[writing]
      BY <2>1, <3>1, InFlight DEF Within
    <3>3. Runs(writing, todo[writing])
      <4>1. CASE updateOk \/ insertOk
        BY <4>1 DEF updateOk, insertOk, Runs
      <4>2. CASE statementFails
        BY <2>1, <3>1, <4>2 DEF statementFails, Runs, ran, TypeOK
      <4> QED
        BY <2>3, <4>1, <4>2
    <3>4. CASE table' = table
      BY <2>2, <3>4
    <3>5. CASE table' # table
      <4>1. PICK kind \in {"update", "insert"} :
              table' = [table EXCEPT ![writing] = IF kind = "update"
                                                  THEN afterUpdate(writing, todo[writing])
                                                  ELSE afterInsert(writing, todo[writing])]
        BY <3>3, <3>5 DEF Runs
      <4>2. /\ \A g \in Hours : g # writing => table'[g] = table[g]
            /\ noLower(table[writing], table'[writing])
        BY <2>1, <3>2, <4>1, StatementRuns
      <4> QED
        BY <2>2, <4>2
    <3> QED
      BY <3>4, <3>5
  <2>4. CASE (\E p \in Principals : admitEvent(p)) \/ readHealth \/ takeStats \/ hourTurns
    <3>1. table' = table
      BY <2>4 DEF admitEvent, readHealth, takeStats, hourTurns
    <3> QED
      BY <2>2, <3>1
  <2> QED
    BY <1>1, <2>3, <2>4 DEF Next
<1> QED
  BY <1>1, InitIInv, StepIInv, PTL DEF Spec, FigureNeverCollapses
====
