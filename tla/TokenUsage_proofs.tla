-------------------------- MODULE TokenUsage_proofs --------------------------
(***************************************************************************)
(* Proofs about TokenUsage, for any tokens, hours and lives of a process:  *)
(* no use is counted twice or forgotten, and no write of this process      *)
(* lowers a stored count.                                                  *)
(***************************************************************************)
EXTENDS TokenUsage, TLAPS

(***************************************************************************)
(* The inductive invariant.                                                *)
(***************************************************************************)
\* The table and every reader's copy of it stay below what happened.
TableSound ==
  \A n \in Nodes, k \in Keys :
    rows[n][k] <= peak[n][k] /\ peak[n][k] <= used[n][k] /\ snap[n][k] <= used[n][k]

\* So does what was given up and may still run; it is of this life or a past one.
LateSound ==
  \A w \in late : w.node <= boot /\ \A k \in Keys : w.sent[k] <= used[w.node][k]

\* A cell is its key's whole count; a key without a cell was let go, or never used.
CellSound(k) ==
  IF k \in held
  THEN k[1] <= now /\ stored[k] + pending[k] = used[boot][k] /\ stored[k] <= peak[boot][k]
  ELSE /\ stored[k] = 0 /\ pending[k] = 0
       /\ used[boot][k] <= peak[boot][k] + lost[boot][k]
       /\ k[1] >= now => used[boot][k] = 0

\* What is on the wire is real, and at least what any earlier upsert said.
WireSound(k) ==
  flight[k] > 0 =>
    /\ flight[k] <= used[boot][k] /\ peak[boot][k] <= flight[k]
    /\ \A w \in late : w.node = boot => w.sent[k] <= flight[k]

\* Lives that have not begun have counted nothing.
Unborn == \A n \in Nodes, k \in Keys : n > boot => used[n][k] = 0

IInv ==
  /\ TypeOK /\ TableSound /\ LateSound /\ Unborn
  /\ \A k \in Keys : CellSound(k) /\ WireSound(k)

-----------------------------------------------------------------------------
(***************************************************************************)
(* What the operators do, key by key.                                      *)
(***************************************************************************)
\* An hour is a number.
LEMMA KeyHours == \A k \in Keys : k[1] \in Int /\ k[1] \in Hours
<1>1. \A k \in Keys : k[1] \in Hours
  BY DEF Keys
<1>2. \A h \in Hours : h \in Int
  BY HoursAssumption
<1> QED
  BY <1>1, <1>2

\* An upsert replaces the rows it carries and leaves the others.
LEMMA UpsertRows ==
  ASSUME TypeOK, NEW m \in Nodes, NEW sent \in Totals, writeUsage(m, sent)
  PROVE  /\ rows' \in [Nodes -> Totals] /\ peak' \in [Nodes -> Totals]
         /\ \A n \in Nodes, k \in Keys :
              /\ rows'[n][k] = IF n = m /\ sent[k] > 0 THEN sent[k] ELSE rows[n][k]
              /\ peak'[n][k] = IF n = m /\ rows'[n][k] > peak[n][k]
                               THEN rows'[n][k] ELSE peak[n][k]
<1>1. rows \in [Nodes -> Totals] /\ peak \in [Nodes -> Totals]
  BY DEF TypeOK
<1> DEFINE u == upserted(rows[m], sent)
           p == higher(peak[m], u)
<1>2. u \in Totals /\ \A k \in Keys : u[k] = IF sent[k] > 0 THEN sent[k] ELSE rows[m][k]
  BY <1>1 DEF upserted, Totals
<1> HIDE DEF u
<1>3. p \in Totals /\ \A k \in Keys : p[k] = IF peak[m][k] > u[k] THEN peak[m][k] ELSE u[k]
  BY <1>1, <1>2 DEF higher, Totals
<1> HIDE DEF p
<1>4. rows' = [rows EXCEPT ![m] = u] /\ peak' = [peak EXCEPT ![m] = p]
  BY DEF writeUsage, u, p
<1>5. rows' \in [Nodes -> Totals] /\ peak' \in [Nodes -> Totals]
  BY <1>1, <1>2, <1>3, <1>4
<1>6. ASSUME NEW n \in Nodes, NEW k \in Keys
      PROVE  /\ rows'[n][k] = IF n = m /\ sent[k] > 0 THEN sent[k] ELSE rows[n][k]
             /\ peak'[n][k] = IF n = m /\ rows'[n][k] > peak[n][k]
                              THEN rows'[n][k] ELSE peak[n][k]
  <2>1. CASE n = m
    <3>1. rows'[n] = u /\ peak'[n] = p
      BY <1>1, <1>4, <2>1
    <3>2. u[k] \in Nat /\ peak[m][k] \in Nat
      BY <1>1, <1>2 DEF Totals
    <3> QED
      BY <1>2, <1>3, <2>1, <3>1, <3>2
  <2>2. CASE n # m
    BY <1>1, <1>4, <2>2
  <2> QED
    BY <2>1, <2>2
<1> QED
  BY <1>5, <1>6

\* An upsert that says no more than happened leaves the table so.
LEMMA UpsertSound ==
  ASSUME TypeOK, TableSound, NEW m \in Nodes, NEW sent \in Totals, writeUsage(m, sent),
         \A k \in Keys : sent[k] <= used[m][k]
  PROVE  \A n \in Nodes, k \in Keys :
           /\ rows'[n][k] <= peak'[n][k] /\ peak'[n][k] <= used[n][k]
           /\ peak[n][k] <= peak'[n][k]
<1> TAKE n \in Nodes, k \in Keys
<1>1. /\ rows'[n][k] = IF n = m /\ sent[k] > 0 THEN sent[k] ELSE rows[n][k]
      /\ peak'[n][k] = IF n = m /\ rows'[n][k] > peak[n][k] THEN rows'[n][k] ELSE peak[n][k]
  BY UpsertRows
<1>2. rows[n][k] \in Nat /\ peak[n][k] \in Nat /\ used[n][k] \in Nat /\ sent[k] \in Nat
  BY DEF TypeOK, Totals
<1>3. rows[n][k] <= peak[n][k] /\ peak[n][k] <= used[n][k]
  BY DEF TableSound
<1> QED
  BY <1>1, <1>2, <1>3

\* An upsert nobody waits for has run, will not, or is left behind.
LEMMA Abandoned ==
  ASSUME IInv, abandoned
  PROVE  /\ rows' \in [Nodes -> Totals] /\ peak' \in [Nodes -> Totals]
         /\ late' \subseteq [node : Nodes, sent : Totals]
         /\ \A n \in Nodes, k \in Keys :
              /\ rows'[n][k] <= peak'[n][k] /\ peak'[n][k] <= used[n][k]
              /\ peak[n][k] <= peak'[n][k] /\ rows[n][k] <= rows'[n][k]
         /\ \A w \in late' : w.node <= boot /\ \A k \in Keys : w.sent[k] <= used[w.node][k]
<1>1. /\ flight \in Totals /\ boot \in Nodes /\ late \subseteq [node : Nodes, sent : Totals]
      /\ rows \in [Nodes -> Totals] /\ peak \in [Nodes -> Totals] /\ used \in [Nodes -> Totals]
  BY DEF IInv, TypeOK
<1>2. \A k \in Keys : flight[k] <= used[boot][k]
  <2> TAKE k \in Keys
  <2>1. flight[k] \in Nat /\ used[boot][k] \in Nat
    BY <1>1 DEF Totals
  <2> QED
    BY <2>1 DEF IInv, WireSound
<1>3. \A n \in Nodes, k \in Keys :
        /\ rows[n][k] <= peak[n][k] /\ peak[n][k] <= used[n][k]
        /\ rows[n][k] \in Nat /\ peak[n][k] \in Nat
  BY <1>1 DEF IInv, TableSound, Totals
<1>4. \A w \in late : w.node <= boot /\ \A k \in Keys : w.sent[k] <= used[w.node][k]
  BY DEF IInv, LateSound
<1>5. CASE UNCHANGED <<tableVars, late>>
  BY <1>1, <1>3, <1>4, <1>5 DEF tableVars
<1>6. CASE writeUsage(boot, flight) /\ UNCHANGED late
  <2>1. rows' \in [Nodes -> Totals] /\ peak' \in [Nodes -> Totals]
    BY <1>1, <1>6, UpsertRows DEF IInv
  <2>2. \A n \in Nodes, k \in Keys :
          /\ rows'[n][k] <= peak'[n][k] /\ peak'[n][k] <= used[n][k]
          /\ peak[n][k] <= peak'[n][k]
    BY <1>1, <1>2, <1>6, UpsertSound DEF IInv
  <2>3. ASSUME NEW n \in Nodes, NEW k \in Keys PROVE rows[n][k] <= rows'[n][k]
    <3>1. rows'[n][k] = IF n = boot /\ flight[k] > 0 THEN flight[k] ELSE rows[n][k]
      BY <1>1, <1>6, UpsertRows DEF IInv
    <3>2. flight[k] > 0 => peak[boot][k] <= flight[k]
      BY DEF IInv, WireSound
    <3>3. flight[k] \in Nat
      BY <1>1 DEF Totals
    <3> QED
      BY <1>3, <3>1, <3>2, <3>3
  <2> QED
    BY <1>1, <1>4, <1>6, <2>1, <2>2, <2>3
<1>7. CASE late' = late \cup {[node |-> boot, sent |-> flight]} /\ UNCHANGED tableVars
  <2>1. [node |-> boot, sent |-> flight] \in [node : Nodes, sent : Totals]
    BY <1>1
  <2>2. late' \subseteq [node : Nodes, sent : Totals]
    BY <1>1, <1>7, <2>1
  <2>3. boot <= boot
    BY <1>1 DEF Nodes
  <2>4. \A w \in late' : w.node <= boot /\ \A k \in Keys : w.sent[k] <= used[w.node][k]
    BY <1>2, <1>4, <1>7, <2>3
  <2>5. rows' = rows /\ peak' = peak
    BY <1>7 DEF tableVars
  <2> QED
    BY <1>1, <1>3, <2>2, <2>4, <2>5
<1> QED
  BY <1>5, <1>6, <1>7 DEF abandoned

-----------------------------------------------------------------------------
(***************************************************************************)
(* The invariant holds at first, and each action keeps it.                 *)
(***************************************************************************)
\* The types of the variables, one function at a time.
LEMMA Types ==
  ASSUME IInv
  PROVE  /\ now \in Int /\ now \in Hours /\ boot \in Int /\ boot \in Nodes /\ held \subseteq Keys
         /\ \A k \in Keys : pending[k] \in Nat /\ stored[k] \in Nat /\ flight[k] \in Nat
         /\ \A n \in Nodes, k \in Keys :
              /\ rows[n][k] \in Nat /\ peak[n][k] \in Nat /\ used[n][k] \in Nat
              /\ lost[n][k] \in Nat /\ snap[n][k] \in Nat
         /\ \A w \in late : w.node \in Nodes /\ w.sent \in Totals /\ \A k \in Keys : w.sent[k] \in Nat
<1>1. TypeOK
  BY DEF IInv
<1>2. now \in Int /\ now \in Hours
  BY <1>1, HoursAssumption DEF TypeOK
<1>3. boot \in Int /\ boot \in Nodes
  BY <1>1 DEF TypeOK, Nodes
<1>4. \A k \in Keys : pending[k] \in Nat /\ stored[k] \in Nat /\ flight[k] \in Nat
  BY <1>1 DEF TypeOK, Totals
<1>5. \A n \in Nodes, k \in Keys :
        /\ rows[n][k] \in Nat /\ peak[n][k] \in Nat /\ used[n][k] \in Nat
        /\ lost[n][k] \in Nat /\ snap[n][k] \in Nat
  BY <1>1 DEF TypeOK, Totals
<1>6. \A w \in late : w.node \in Nodes /\ w.sent \in Totals
  BY <1>1 DEF TypeOK
<1>7. \A w \in late : \A k \in Keys : w.sent[k] \in Nat
  BY <1>6 DEF Totals
<1>8. held \subseteq Keys
  BY <1>1 DEF TypeOK
<1> QED
  BY <1>2, <1>3, <1>4, <1>5, <1>6, <1>7, <1>8

LEMMA InitInv == Init => IInv
<1> SUFFICES ASSUME Init PROVE IInv
  OBVIOUS
<1>1. Nothing \in Totals /\ \A k \in Keys : Nothing[k] = 0
  BY DEF Nothing, Totals
<1>2. NoRows \in [Nodes -> Totals] /\ \A n \in Nodes, k \in Keys : NoRows[n][k] = 0
  BY <1>1 DEF NoRows
<1>3. 1 \in Nodes /\ 0 \in 0..MaxUses
  BY TokenBoundsAssumption DEF Nodes
<1>4. TypeOK
  BY <1>1, <1>2, <1>3 DEF Init, TypeOK
<1>5. TableSound /\ LateSound /\ Unborn
  BY <1>2 DEF Init, TableSound, LateSound, Unborn
<1>6. ASSUME NEW k \in Keys PROVE CellSound(k) /\ WireSound(k)
  BY <1>1, <1>2, <1>3 DEF Init, CellSound, WireSound
<1> QED
  BY <1>4, <1>5, <1>6 DEF IInv

\* A use: the cells it evicts are of hours before this one.
LEMMA CountStep ==
  ASSUME IInv, NEW t \in Tokens, count(t)
  PROVE  IInv'
<1> DEFINE key == <<now, t>>
           out == IF key \in held THEN {} ELSE evicted(now)
<1>1. TypeOK /\ TableSound /\ LateSound /\ Unborn /\ \A k \in Keys : CellSound(k) /\ WireSound(k)
  BY DEF IInv
<1>2. key \in Keys /\ key[1] = now
  BY Types DEF Keys
<1>3. out \subseteq held /\ key \notin out
  BY DEF evicted
<1>4. \A k \in out : k \in Keys /\ k[1] < now
  <2> TAKE k \in out
  <2>1. k \in held /\ k \in Keys
    BY <1>3, Types
  <2>2. k[1] # now
    BY DEF evicted, doomed
  <2>3. k[1] <= now
    BY <1>1, <2>1 DEF CellSound
  <2> QED
    BY <2>1, <2>2, <2>3, KeyHours, Types
<1>5. /\ held' = (held \ out) \cup {key}
      /\ pending' = [k \in Keys |-> IF k = key THEN pending[k] + 1
                                    ELSE IF k \in out THEN 0 ELSE pending[k]]
      /\ stored' = [k \in Keys |-> IF k \in out THEN 0 ELSE stored[k]]
      /\ uses < MaxUses /\ uses' = uses + 1
      /\ used' = [used EXCEPT ![boot][key] = @ + 1]
      /\ lost' = [lost EXCEPT ![boot] = [k \in Keys |->
                     lost[boot][k] + (IF k \in out THEN pending[k] ELSE 0)]]
      /\ UNCHANGED <<now, boot, flight, rows, peak, late, reading, snap>>
  BY DEF count, tableVars, readVars
<1> HIDE DEF key, out
<1>6. /\ used' \in [Nodes -> Totals]
      /\ \A n \in Nodes, k \in Keys :
           used'[n][k] = IF n = boot /\ k = key THEN used[n][k] + 1 ELSE used[n][k]
  <2>1. used \in [Nodes -> Totals] /\ boot \in Nodes
    BY <1>1 DEF TypeOK
  <2> DEFINE u == [used[boot] EXCEPT ![key] = @ + 1]
  <2>2. u \in Totals /\ \A k \in Keys : u[k] = IF k = key THEN used[boot][k] + 1 ELSE used[boot][k]
    BY <1>2, <2>1 DEF Totals
  <2>3. used' = [used EXCEPT ![boot] = u]
    BY <1>5
  <2> HIDE DEF u
  <2> QED
    BY <2>1, <2>2, <2>3
<1>7. /\ lost' \in [Nodes -> Totals]
      /\ \A n \in Nodes, k \in Keys :
           lost'[n][k] = IF n = boot /\ k \in out THEN lost[n][k] + pending[k] ELSE lost[n][k]
  <2>1. lost \in [Nodes -> Totals] /\ boot \in Nodes /\ pending \in Totals
    BY <1>1 DEF TypeOK
  <2> DEFINE l == [k \in Keys |-> lost[boot][k] + (IF k \in out THEN pending[k] ELSE 0)]
  <2>2. l \in Totals
    BY <2>1 DEF Totals
  <2>3. \A k \in Keys : l[k] = IF k \in out THEN lost[boot][k] + pending[k] ELSE lost[boot][k]
    BY Types
  <2>4. lost' = [lost EXCEPT ![boot] = l]
    BY <1>5
  <2> HIDE DEF l
  <2> QED
    BY <2>1, <2>2, <2>3, <2>4
<1>8. pending' \in Totals /\ stored' \in Totals
  BY <1>5, Types DEF Totals
<1>9. TypeOK'
  <2>1. held' \subseteq Keys
    BY <1>2, <1>5, Types
  <2>2. uses' \in 0..MaxUses
    BY <1>1, <1>5, TokenBoundsAssumption DEF TypeOK
  <2> QED
    BY <1>1, <1>5, <1>6, <1>7, <1>8, <2>1, <2>2 DEF TypeOK
<1>10. \A n \in Nodes, k \in Keys : used[n][k] <= used'[n][k]
  BY <1>6, Types
<1>11. TableSound'
  <2> SUFFICES ASSUME NEW n \in Nodes, NEW k \in Keys
               PROVE  rows[n][k] <= peak[n][k] /\ peak[n][k] <= used'[n][k] /\ snap[n][k] <= used'[n][k]
    BY <1>5 DEF TableSound
  <2>1. rows[n][k] <= peak[n][k] /\ peak[n][k] <= used[n][k] /\ snap[n][k] <= used[n][k]
    BY <1>1 DEF TableSound
  <2>2. used'[n][k] \in Nat
    BY <1>6 DEF Totals
  <2> QED
    BY <1>10, <2>1, <2>2, Types
<1>12. LateSound'
  <2> SUFFICES ASSUME NEW w \in late
               PROVE  w.node <= boot /\ \A k \in Keys : w.sent[k] <= used'[w.node][k]
    BY <1>5 DEF LateSound
  <2>1. w.node <= boot /\ w.node \in Nodes
    BY <1>1, Types DEF LateSound
  <2>2. ASSUME NEW k \in Keys PROVE w.sent[k] <= used'[w.node][k]
    <3>1. w.sent[k] <= used[w.node][k] /\ w.sent[k] \in Nat /\ used[w.node][k] \in Nat
      BY <1>1, <2>1, Types DEF LateSound
    <3>2. used'[w.node][k] \in Nat /\ used[w.node][k] <= used'[w.node][k]
      BY <1>6, <1>10, <2>1 DEF Totals
    <3> QED
      BY <3>1, <3>2
  <2> QED
    BY <2>1, <2>2
<1>13. Unborn'
  BY <1>1, <1>5, <1>6, Types DEF Unborn
<1>14. ASSUME NEW k \in Keys PROVE CellSound(k)'
  <2>1. CellSound(k) /\ boot \in Nodes
    BY <1>1, Types
  <2>2. /\ pending[k] \in Nat /\ stored[k] \in Nat /\ used[boot][k] \in Nat
        /\ peak[boot][k] \in Nat /\ lost[boot][k] \in Nat
    BY Types
  <2>3. CASE k = key
    <3>1. /\ k \in held' /\ pending'[k] = pending[k] + 1 /\ stored'[k] = stored[k]
          /\ used'[boot][k] = used[boot][k] + 1
      BY <1>3, <1>5, <1>6, <2>1, <2>3
    <3>2. k[1] <= now
      BY <1>2, <2>3, Types
    <3>3. stored[k] + pending[k] = used[boot][k] /\ stored[k] <= peak[boot][k]
      BY <1>2, <2>1, <2>2, <2>3, Types DEF CellSound
    <3>4. stored[k] + (pending[k] + 1) = used[boot][k] + 1
      BY <2>2, <3>3
    <3> QED
      BY <1>5, <3>1, <3>2, <3>3, <3>4 DEF CellSound
  <2>4. CASE k \in out
    <3>1. k # key /\ k \in held /\ k \notin held'
      BY <1>3, <1>5, <2>4
    <3>2. /\ pending'[k] = 0 /\ stored'[k] = 0 /\ used'[boot][k] = used[boot][k]
          /\ lost'[boot][k] = lost[boot][k] + pending[k]
      BY <1>5, <1>6, <1>7, <2>1, <2>4, <3>1
    <3>3. stored[k] + pending[k] = used[boot][k] /\ stored[k] <= peak[boot][k]
      BY <2>1, <3>1 DEF CellSound
    <3>4. used[boot][k] <= peak[boot][k] + (lost[boot][k] + pending[k])
      BY <2>2, <3>3
    <3>5. ~(k[1] >= now)
      BY <1>4, <2>4, KeyHours, Types
    <3> QED
      BY <1>5, <3>1, <3>2, <3>4, <3>5 DEF CellSound
  <2>5. CASE k # key /\ k \notin out
    <3>1. /\ (k \in held') = (k \in held) /\ pending'[k] = pending[k] /\ stored'[k] = stored[k]
          /\ used'[boot][k] = used[boot][k] /\ lost'[boot][k] = lost[boot][k]
      BY <1>5, <1>6, <1>7, <2>1, <2>5
    <3> QED
      BY <1>5, <2>1, <3>1 DEF CellSound
  <2> QED
    BY <2>3, <2>4, <2>5
<1>15. ASSUME NEW k \in Keys PROVE WireSound(k)'
  <2>1. WireSound(k) /\ used[boot][k] <= used'[boot][k]
    BY <1>1, <1>10, Types
  <2>2. flight[k] \in Nat /\ used[boot][k] \in Nat
    BY Types
  <2>3. used'[boot][k] \in Nat
    BY <1>6, Types DEF Totals
  <2>4. flight[k] <= used[boot][k] => flight[k] <= used'[boot][k]
    BY <2>1, <2>2, <2>3
  <2> QED
    BY <1>5, <2>1, <2>4 DEF WireSound
<1> QED
  BY <1>9, <1>11, <1>12, <1>13, <1>14, <1>15 DEF IInv

\* A flush puts running totals on the wire, and nothing else changes.
LEMMA FlushStep ==
  ASSUME IInv, flushTokenUsage
  PROVE  IInv'
<1>1. TypeOK /\ TableSound /\ LateSound /\ Unborn /\ \A k \in Keys : CellSound(k) /\ WireSound(k)
  BY DEF IInv
<1>2. /\ flight' = [k \in Keys |-> IF k \in held /\ pending[k] > 0 THEN stored[k] + pending[k] ELSE 0]
      /\ UNCHANGED <<now, boot, held, pending, stored, rows, peak, late, reading, snap,
                     uses, used, lost>>
  BY DEF flushTokenUsage, cellVars, tableVars, readVars, runningTotal
<1>3. flight' \in Totals
  BY <1>2, Types DEF Totals
<1>4. TypeOK' /\ TableSound' /\ LateSound' /\ Unborn'
  BY <1>1, <1>2, <1>3 DEF TypeOK, TableSound, LateSound, Unborn
<1>5. ASSUME NEW k \in Keys PROVE CellSound(k)'
  BY <1>1, <1>2 DEF CellSound
<1>6. ASSUME NEW k \in Keys PROVE WireSound(k)'
  <2> SUFFICES ASSUME flight'[k] > 0
               PROVE  /\ flight'[k] <= used[boot][k] /\ peak[boot][k] <= flight'[k]
                      /\ \A w \in late : w.node = boot => w.sent[k] <= flight'[k]
    BY <1>2 DEF WireSound
  <2>1. k \in held /\ flight'[k] = stored[k] + pending[k]
    BY <1>2
  <2>2. flight'[k] = used[boot][k] /\ boot \in Nodes /\ used[boot][k] \in Nat
    BY <1>1, <2>1, Types DEF CellSound
  <2>3. peak[boot][k] <= used[boot][k]
    BY <1>1, <2>2 DEF TableSound
  <2>4. \A w \in late : w.node = boot => w.sent[k] <= used[boot][k]
    BY <1>1 DEF LateSound
  <2> QED
    BY <2>2, <2>3, <2>4
<1> QED
  BY <1>4, <1>5, <1>6 DEF IInv

\* Uses that came while the upsert was out stay pending.
LEMMA FlushOkStep ==
  ASSUME IInv, flushOk
  PROVE  IInv'
<1>1. TypeOK /\ TableSound /\ LateSound /\ Unborn /\ \A k \in Keys : CellSound(k) /\ WireSound(k)
  BY DEF IInv
<1>2. /\ writeUsage(boot, flight) /\ markWritten /\ flight' = Nothing
      /\ UNCHANGED <<now, boot, held, late, reading, snap, uses, used, lost>>
  BY DEF flushOk, readVars
<1>3. flight \in Totals /\ boot \in Nodes
  BY <1>1 DEF TypeOK
<1>4. \A k \in Keys : flight[k] <= used[boot][k]
  <2> TAKE k \in Keys
  <2>1. WireSound(k) /\ flight[k] \in Nat /\ used[boot][k] \in Nat
    BY <1>1, Types
  <2> QED
    BY <2>1 DEF WireSound
<1>5. /\ rows' \in [Nodes -> Totals] /\ peak' \in [Nodes -> Totals]
      /\ \A n \in Nodes, k \in Keys :
           rows'[n][k] = IF n = boot /\ flight[k] > 0 THEN flight[k] ELSE rows[n][k]
  BY <1>1, <1>2, <1>3, UpsertRows
<1>6. \A n \in Nodes, k \in Keys :
        /\ rows'[n][k] <= peak'[n][k] /\ peak'[n][k] <= used[n][k]
        /\ peak[n][k] <= peak'[n][k]
  BY <1>1, <1>2, <1>3, <1>4, UpsertSound
<1>7. Nothing \in Totals /\ \A k \in Keys : Nothing[k] = 0
  BY DEF Nothing, Totals
<1>8. /\ stored' = [k \in Keys |-> IF submitted(k) THEN flight[k] ELSE stored[k]]
      /\ pending' = [k \in Keys |->
           IF ~submitted(k) THEN pending[k]
           ELSE IF pending[k] + stored[k] > flight[k] THEN pending[k] + stored[k] - flight[k]
           ELSE 0]
  BY <1>2 DEF markWritten
<1>9. stored' \in Totals /\ pending' \in Totals
  <2>1. ASSUME NEW k \in Keys PROVE stored'[k] \in Nat /\ pending'[k] \in Nat
    <3>1. pending[k] \in Nat /\ stored[k] \in Nat /\ flight[k] \in Nat
      BY Types
    <3> QED
      BY <1>8, <3>1
  <2> QED
    BY <1>8, <2>1 DEF Totals
<1>10. TypeOK' /\ TableSound' /\ LateSound' /\ Unborn'
  <2>1. TypeOK'
    BY <1>1, <1>2, <1>5, <1>7, <1>9 DEF TypeOK
  <2>2. TableSound'
    BY <1>1, <1>2, <1>6 DEF TableSound
  <2> QED
    BY <1>1, <1>2, <2>1, <2>2 DEF LateSound, Unborn
<1>11. ASSUME NEW k \in Keys PROVE CellSound(k)'
  <2>1. /\ pending[k] \in Nat /\ stored[k] \in Nat /\ flight[k] \in Nat
        /\ used[boot][k] \in Nat /\ peak[boot][k] \in Nat /\ lost[boot][k] \in Nat
    BY <1>3, Types
  <2>2. peak'[boot][k] \in Nat /\ peak[boot][k] <= peak'[boot][k]
    BY <1>3, <1>5, <1>6 DEF Totals
  <2>3. CellSound(k)
    BY <1>1
  <2>4. CASE submitted(k)
    <3>1. k \in held /\ k \in held' /\ flight[k] > 0
      BY <1>2, <2>4 DEF submitted
    <3>2. k[1] <= now /\ stored[k] + pending[k] = used[boot][k]
      BY <2>3, <3>1 DEF CellSound
    <3>3. stored'[k] = flight[k] /\ stored'[k] + pending'[k] = used[boot][k]
      BY <1>4, <1>8, <2>1, <2>4, <3>2
    <3>4. rows'[boot][k] = flight[k] /\ rows'[boot][k] <= peak'[boot][k]
      BY <1>3, <1>5, <1>6, <3>1
    <3> QED
      BY <1>2, <3>1, <3>2, <3>3, <3>4 DEF CellSound
  <2>5. CASE ~submitted(k)
    <3>1. stored'[k] = stored[k] /\ pending'[k] = pending[k]
      BY <1>8, <2>5
    <3>2. stored[k] <= peak[boot][k] => stored[k] <= peak'[boot][k]
      BY <2>1, <2>2
    <3>3. used[boot][k] <= peak[boot][k] + lost[boot][k]
             => used[boot][k] <= peak'[boot][k] + lost[boot][k]
      BY <2>1, <2>2
    <3> QED
      BY <1>2, <2>3, <3>1, <3>2, <3>3 DEF CellSound
  <2> QED
    BY <2>4, <2>5
<1>12. ASSUME NEW k \in Keys PROVE WireSound(k)'
  BY <1>2, <1>7 DEF WireSound
<1> QED
  BY <1>10, <1>11, <1>12 DEF IInv

\* A flush that failed leaves every cell as it was.
LEMMA FlushFailedStep ==
  ASSUME IInv, flushFailed
  PROVE  IInv'
<1>1. TypeOK /\ TableSound /\ LateSound /\ Unborn /\ \A k \in Keys : CellSound(k) /\ WireSound(k)
  BY DEF IInv
<1>2. /\ flight' = Nothing
      /\ UNCHANGED <<now, boot, held, pending, stored, reading, snap, uses, used, lost>>
  BY DEF flushFailed, cellVars, readVars
<1>3. /\ rows' \in [Nodes -> Totals] /\ peak' \in [Nodes -> Totals]
      /\ late' \subseteq [node : Nodes, sent : Totals]
      /\ \A n \in Nodes, k \in Keys :
           /\ rows'[n][k] <= peak'[n][k] /\ peak'[n][k] <= used[n][k]
           /\ peak[n][k] <= peak'[n][k]
      /\ \A w \in late' : w.node <= boot /\ \A k \in Keys : w.sent[k] <= used[w.node][k]
  BY Abandoned DEF flushFailed
<1>4. Nothing \in Totals /\ \A k \in Keys : Nothing[k] = 0
  BY DEF Nothing, Totals
<1>5. TypeOK' /\ TableSound' /\ LateSound' /\ Unborn'
  <2>1. TypeOK'
    BY <1>1, <1>2, <1>3, <1>4 DEF TypeOK
  <2>2. TableSound'
    BY <1>1, <1>2, <1>3 DEF TableSound
  <2>3. LateSound'
    BY <1>2, <1>3 DEF LateSound
  <2> QED
    BY <1>1, <1>2, <2>1, <2>2, <2>3 DEF Unborn
<1>6. ASSUME NEW k \in Keys PROVE CellSound(k)'
  <2>1. /\ stored[k] \in Nat /\ used[boot][k] \in Nat /\ peak[boot][k] \in Nat
        /\ lost[boot][k] \in Nat /\ boot \in Nodes
    BY Types
  <2>2. peak'[boot][k] \in Nat /\ peak[boot][k] <= peak'[boot][k]
    BY <1>3, <2>1 DEF Totals
  <2>3. stored[k] <= peak[boot][k] => stored[k] <= peak'[boot][k]
    BY <2>1, <2>2
  <2>4. used[boot][k] <= peak[boot][k] + lost[boot][k]
           => used[boot][k] <= peak'[boot][k] + lost[boot][k]
    BY <2>1, <2>2
  <2> QED
    BY <1>1, <1>2, <2>3, <2>4 DEF CellSound
<1>7. ASSUME NEW k \in Keys PROVE WireSound(k)'
  BY <1>2, <1>4 DEF WireSound
<1> QED
  BY <1>5, <1>6, <1>7 DEF IInv

\* A statement the server runs late says no more than what happened.
LEMMA LateWriteStep ==
  ASSUME IInv, lateWrite
  PROVE  IInv'
<1>1. TypeOK /\ TableSound /\ LateSound /\ Unborn /\ \A k \in Keys : CellSound(k) /\ WireSound(k)
  BY DEF IInv
<1>2. PICK w \in late : late' = late \ {w} /\ writeUsage(w.node, w.sent)
  BY DEF lateWrite
<1>3. UNCHANGED <<now, boot, held, pending, stored, flight, reading, snap, uses, used, lost>>
  BY DEF lateWrite, cellVars, readVars
<1>4. w.node \in Nodes /\ w.sent \in Totals /\ boot \in Nodes
  BY Types
<1>5. \A k \in Keys : w.sent[k] <= used[w.node][k]
  BY <1>1 DEF LateSound
<1>6. /\ rows' \in [Nodes -> Totals] /\ peak' \in [Nodes -> Totals]
      /\ \A n \in Nodes, k \in Keys :
           /\ rows'[n][k] = IF n = w.node /\ w.sent[k] > 0 THEN w.sent[k] ELSE rows[n][k]
           /\ peak'[n][k] = IF n = w.node /\ rows'[n][k] > peak[n][k]
                            THEN rows'[n][k] ELSE peak[n][k]
  BY <1>1, <1>2, <1>4, UpsertRows
<1>7. \A n \in Nodes, k \in Keys :
        /\ rows'[n][k] <= peak'[n][k] /\ peak'[n][k] <= used[n][k]
        /\ peak[n][k] <= peak'[n][k]
  BY <1>1, <1>2, <1>4, <1>5, UpsertSound
<1>8. late' \subseteq late
  BY <1>2
<1>9. TypeOK' /\ TableSound' /\ LateSound' /\ Unborn'
  <2>1. TypeOK'
    BY <1>1, <1>3, <1>6, <1>8 DEF TypeOK
  <2>2. TableSound'
    BY <1>1, <1>3, <1>7 DEF TableSound
  <2>3. LateSound'
    BY <1>1, <1>3, <1>8 DEF LateSound
  <2> QED
    BY <1>1, <1>3, <2>1, <2>2, <2>3 DEF Unborn
<1>10. ASSUME NEW k \in Keys PROVE CellSound(k)'
  <2>1. /\ stored[k] \in Nat /\ used[boot][k] \in Nat /\ peak[boot][k] \in Nat
        /\ lost[boot][k] \in Nat
    BY <1>4, Types
  <2>2. peak'[boot][k] \in Nat /\ peak[boot][k] <= peak'[boot][k]
    BY <1>4, <1>6, <1>7 DEF Totals
  <2>3. stored[k] <= peak[boot][k] => stored[k] <= peak'[boot][k]
    BY <2>1, <2>2
  <2>4. used[boot][k] <= peak[boot][k] + lost[boot][k]
           => used[boot][k] <= peak'[boot][k] + lost[boot][k]
    BY <2>1, <2>2
  <2> QED
    BY <1>1, <1>3, <2>3, <2>4 DEF CellSound
<1>11. ASSUME NEW k \in Keys PROVE WireSound(k)'
  <2> SUFFICES ASSUME flight[k] > 0
               PROVE  /\ flight[k] <= used[boot][k] /\ peak'[boot][k] <= flight[k]
                      /\ \A v \in late' : v.node = boot => v.sent[k] <= flight[k]
    BY <1>3 DEF WireSound
  <2>1. /\ flight[k] <= used[boot][k] /\ peak[boot][k] <= flight[k]
        /\ \A v \in late : v.node = boot => v.sent[k] <= flight[k]
    BY <1>1 DEF WireSound
  <2>2. rows[boot][k] <= peak[boot][k]
    BY <1>1, <1>4 DEF TableSound
  <2>3. /\ flight[k] \in Nat /\ rows[boot][k] \in Nat /\ peak[boot][k] \in Nat
        /\ w.sent[k] \in Nat
    BY <1>4, Types
  <2>4. rows'[boot][k] <= flight[k]
    <3>1. rows'[boot][k] = IF boot = w.node /\ w.sent[k] > 0 THEN w.sent[k] ELSE rows[boot][k]
      BY <1>4, <1>6
    <3>2. boot = w.node => w.sent[k] <= flight[k]
      BY <2>1
    <3> QED
      BY <2>1, <2>2, <2>3, <3>1, <3>2
  <2>5. peak'[boot][k] = rows'[boot][k] \/ peak'[boot][k] = peak[boot][k]
    BY <1>4, <1>6
  <2>6. peak'[boot][k] <= flight[k]
    BY <2>1, <2>4, <2>5
  <2> QED
    BY <1>8, <2>1, <2>6
<1> QED
  BY <1>9, <1>10, <1>11 DEF IInv

\* A query copies the table, or answers and forgets its copy.
LEMMA ReadStep ==
  ASSUME IInv, readWindow \/ reply
  PROVE  IInv'
<1>1. TypeOK /\ TableSound /\ LateSound /\ Unborn /\ \A k \in Keys : CellSound(k) /\ WireSound(k)
  BY DEF IInv
<1>2. /\ reading' \in BOOLEAN /\ (snap' = rows \/ snap' = NoRows)
      /\ UNCHANGED <<now, boot, held, pending, stored, flight, rows, peak, late, uses, used, lost>>
  BY DEF readWindow, reply, cellVars, tableVars
<1>3. NoRows \in [Nodes -> Totals] /\ \A n \in Nodes, k \in Keys : NoRows[n][k] = 0
  <2>1. Nothing \in Totals /\ \A k \in Keys : Nothing[k] = 0
    BY DEF Nothing, Totals
  <2> QED
    BY <2>1 DEF NoRows
<1>4. \A n \in Nodes, k \in Keys : snap'[n][k] <= used[n][k]
  <2> TAKE n \in Nodes, k \in Keys
  <2>1. rows[n][k] <= peak[n][k] /\ peak[n][k] <= used[n][k]
    BY <1>1 DEF TableSound
  <2>2. rows[n][k] \in Nat /\ peak[n][k] \in Nat /\ used[n][k] \in Nat
    BY Types
  <2>3. rows[n][k] <= used[n][k] /\ 0 <= used[n][k]
    BY <2>1, <2>2
  <2> QED
    BY <1>2, <1>3, <2>3
<1>5. snap' \in [Nodes -> Totals]
  BY <1>1, <1>2, <1>3 DEF TypeOK
<1>6. TypeOK'
  BY <1>1, <1>2, <1>5 DEF TypeOK
<1>7. TableSound' /\ LateSound' /\ Unborn'
  BY <1>1, <1>2, <1>4 DEF TableSound, LateSound, Unborn
<1>8. ASSUME NEW k \in Keys PROVE CellSound(k)' /\ WireSound(k)'
  BY <1>1, <1>2 DEF CellSound, WireSound
<1> QED
  BY <1>6, <1>7, <1>8 DEF IInv

\* A later hour only makes more cells cells of the past.
LEMMA HourStep ==
  ASSUME IInv, hourTurns
  PROVE  IInv'
<1>1. TypeOK /\ TableSound /\ LateSound /\ Unborn /\ \A k \in Keys : CellSound(k) /\ WireSound(k)
  BY DEF IInv
<1>2. /\ now' \in Hours /\ now' > now
      /\ UNCHANGED <<boot, held, pending, stored, flight, rows, peak, late, reading, snap,
                     uses, used, lost>>
  BY DEF hourTurns, cellVars, tableVars, readVars
<1>3. TypeOK' /\ TableSound' /\ LateSound' /\ Unborn'
  BY <1>1, <1>2 DEF TypeOK, TableSound, LateSound, Unborn
<1>4. ASSUME NEW k \in Keys PROVE CellSound(k)'
  <2>1. CellSound(k) /\ k[1] \in Int /\ now \in Int /\ now' \in Int
    BY <1>1, <1>2, KeyHours, Types, HoursAssumption
  <2>2. (k[1] <= now => k[1] <= now') /\ (k[1] >= now' => k[1] >= now)
    BY <1>2, <2>1
  <2> QED
    BY <1>2, <2>1, <2>2 DEF CellSound
<1>5. ASSUME NEW k \in Keys PROVE WireSound(k)'
  BY <1>1, <1>2 DEF WireSound
<1> QED
  BY <1>3, <1>4, <1>5 DEF IInv

\* The next life writes rows of its own, and none of them is claimed yet.
LEMMA RestartStep ==
  ASSUME IInv, restart
  PROVE  IInv'
<1>1. TypeOK /\ TableSound /\ LateSound /\ Unborn /\ \A k \in Keys : CellSound(k) /\ WireSound(k)
  BY DEF IInv
<1>2. /\ boot < MaxBoots /\ boot' = boot + 1
      /\ held' = {} /\ pending' = Nothing /\ stored' = Nothing /\ flight' = Nothing
      /\ reading' = FALSE /\ snap' = NoRows
      /\ UNCHANGED <<now, uses, used, lost>>
  BY DEF restart
<1>3. /\ rows' \in [Nodes -> Totals] /\ peak' \in [Nodes -> Totals]
      /\ late' \subseteq [node : Nodes, sent : Totals]
      /\ \A n \in Nodes, k \in Keys :
           rows'[n][k] <= peak'[n][k] /\ peak'[n][k] <= used[n][k]
      /\ \A w \in late' : w.node <= boot /\ \A k \in Keys : w.sent[k] <= used[w.node][k]
  BY Abandoned DEF restart
<1>4. Nothing \in Totals /\ \A k \in Keys : Nothing[k] = 0
  BY DEF Nothing, Totals
<1>5. NoRows \in [Nodes -> Totals] /\ \A n \in Nodes, k \in Keys : NoRows[n][k] = 0
  BY <1>4 DEF NoRows
<1>6. boot' \in Nodes /\ boot < boot' /\ boot \in Nodes
  BY <1>2, Types, TokenBoundsAssumption DEF Nodes
<1>7. TypeOK'
  <2>1. \A w \in late' : w \in [node : Nodes, sent : Totals]
    BY <1>3
  <2> QED
    BY <1>1, <1>2, <1>3, <1>4, <1>5, <1>6, <2>1 DEF TypeOK
<1>8. TableSound'
  <2> SUFFICES ASSUME NEW n \in Nodes, NEW k \in Keys PROVE snap'[n][k] <= used[n][k]
    BY <1>2, <1>3 DEF TableSound
  <2> QED
    BY <1>2, <1>5, Types
<1>9. LateSound'
  <2> SUFFICES ASSUME NEW w \in late' PROVE w.node <= boot'
    BY <1>2, <1>3 DEF LateSound
  <2>1. w.node \in Nodes /\ w.node <= boot
    BY <1>3
  <2> QED
    BY <1>6, <2>1 DEF Nodes
<1>10. Unborn'
  <2> SUFFICES ASSUME NEW n \in Nodes, NEW k \in Keys, n > boot' PROVE used[n][k] = 0
    BY <1>2 DEF Unborn
  <2>1. n > boot
    BY <1>6 DEF Nodes
  <2> QED
    BY <1>1, <2>1 DEF Unborn
<1>11. ASSUME NEW k \in Keys PROVE CellSound(k)'
  <2>1. used[boot'][k] = 0
    BY <1>1, <1>6 DEF Unborn, Nodes
  <2>2. peak'[boot'][k] \in Nat /\ lost'[boot'][k] \in Nat
    BY <1>6, <1>7 DEF TypeOK, Totals
  <2>3. used'[boot'][k] <= peak'[boot'][k] + lost'[boot'][k] /\ used'[boot'][k] = 0
    BY <1>2, <2>1, <2>2
  <2>4. k \notin held' /\ stored'[k] = 0 /\ pending'[k] = 0
    BY <1>2, <1>4
  <2> QED
    BY <2>3, <2>4 DEF CellSound
<1>12. ASSUME NEW k \in Keys PROVE WireSound(k)'
  BY <1>2, <1>4 DEF WireSound
<1> QED
  BY <1>7, <1>8, <1>9, <1>10, <1>11, <1>12 DEF IInv

\* Nothing happens.
LEMMA StutterStep ==
  ASSUME IInv, UNCHANGED vars
  PROVE  IInv'
<1>1. UNCHANGED <<now, boot, held, pending, stored, flight, rows, peak, late, reading, snap,
                  uses, used, lost>>
  BY DEF vars, cellVars, tableVars, readVars
<1>2. TypeOK' /\ TableSound' /\ LateSound' /\ Unborn'
  BY <1>1 DEF IInv, TypeOK, TableSound, LateSound, Unborn
<1>3. ASSUME NEW k \in Keys PROVE CellSound(k)' /\ WireSound(k)'
  BY <1>1 DEF IInv, CellSound, WireSound
<1> QED
  BY <1>2, <1>3 DEF IInv

LEMMA NextInv == IInv /\ [Next]_vars => IInv'
<1> SUFFICES ASSUME IInv, [Next]_vars PROVE IInv'
  OBVIOUS
<1>1. ASSUME NEW t \in Tokens, count(t) PROVE IInv'
  BY <1>1, CountStep
<1>2. CASE flushTokenUsage
  BY <1>2, FlushStep
<1>3. CASE flushOk
  BY <1>3, FlushOkStep
<1>4. CASE flushFailed
  BY <1>4, FlushFailedStep
<1>5. CASE lateWrite
  BY <1>5, LateWriteStep
<1>6. CASE readWindow \/ reply
  BY <1>6, ReadStep
<1>7. CASE hourTurns
  BY <1>7, HourStep
<1>8. CASE restart
  BY <1>8, RestartStep
<1>9. CASE UNCHANGED vars
  BY <1>9, StutterStep
<1> QED
  BY <1>1, <1>2, <1>3, <1>4, <1>5, <1>6, <1>7, <1>8, <1>9 DEF Next

LEMMA Invariance == Spec => []IInv
  BY InitInv, NextInv, PTL DEF Spec

-----------------------------------------------------------------------------
(***************************************************************************)
(* The theorems.                                                           *)
(***************************************************************************)
\* Cells, rows, replies and abandoned upserts stay within their types,
\* whatever count, flushes, evictions and restarts do (TokenCounters).
THEOREM TypeCorrect == Spec => []TypeOK
<1>1. IInv => TypeOK
  BY DEF IInv
<1> QED
  BY Invariance, <1>1, PTL

\* No row and no reply claims a use that did not happen, no reply says less
\* than the table did when it was read, and every use is in
\* a cell, in the table, or logged as dropped (TokenCounters.count, evict and
\* markWritten; service.ts writeTokenUsage and queryTokenUsage).
THEOREM UsesAreExact == Spec => []UsesExact
<1>1. IInv => UsesExact
  <2> SUFFICES ASSUME IInv PROVE UsesExact
    OBVIOUS
  <2>1. TableSound /\ \A k \in Keys : CellSound(k)
    BY DEF IInv
  <2>2. ASSUME NEW n \in Nodes, NEW k \in Keys
        PROVE  /\ rows[n][k] <= used[n][k]
               /\ snap[n][k] <= merged(n, k) /\ merged(n, k) <= used[n][k]
    <3>1. rows[n][k] <= peak[n][k] /\ peak[n][k] <= used[n][k] /\ snap[n][k] <= used[n][k]
      BY <2>1 DEF TableSound
    <3>2. rows[n][k] \in Nat /\ peak[n][k] \in Nat /\ used[n][k] \in Nat /\ snap[n][k] \in Nat
      BY <2>1, Types
    <3>3. n = boot /\ k \in held => stored[k] + pending[k] = used[n][k]
      BY <2>1, <3>2 DEF CellSound
    <3> QED
      BY <3>1, <3>2, <3>3 DEF merged
  <2>3. ASSUME NEW k \in Keys
        PROVE  IF k \in held
               THEN stored[k] + pending[k] = used[boot][k] /\ stored[k] <= peak[boot][k]
               ELSE used[boot][k] <= peak[boot][k] + lost[boot][k]
    BY <2>1 DEF CellSound
  <2> QED
    BY <2>2, <2>3 DEF UsesExact
<1> QED
  BY Invariance, <1>1, PTL

\* Only a statement the server runs after the client gave it up can lower a
\* stored count (the running totals of writeTokenUsage, token-usage.ts:24-33).
THEOREM StoredOnlyGrows == Spec => StoredNeverShrinks
<1>1. ASSUME IInv, [Next]_vars, ~lateWrite, NEW n \in Nodes, NEW k \in Keys
      PROVE  rows'[n][k] >= rows[n][k]
  <2>1. rows[n][k] \in Nat /\ boot \in Nodes /\ flight \in Totals
    BY <1>1, Types DEF IInv, TypeOK
  <2>2. CASE rows' = rows
    BY <2>1, <2>2
  <2>3. CASE flushOk
    <3>1. writeUsage(boot, flight) /\ TypeOK /\ TableSound /\ WireSound(k)
      BY <1>1, <2>3 DEF flushOk, IInv
    <3>2. rows'[n][k] = IF n = boot /\ flight[k] > 0 THEN flight[k] ELSE rows[n][k]
      BY <2>1, <3>1, UpsertRows
    <3>3. rows[n][k] <= peak[n][k] /\ peak[n][k] \in Nat /\ flight[k] \in Nat
      BY <1>1, <3>1, Types DEF TableSound
    <3>4. n = boot /\ flight[k] > 0 => peak[n][k] <= flight[k]
      BY <3>1 DEF WireSound
    <3> QED
      BY <2>1, <3>2, <3>3, <3>4
  <2>4. CASE abandoned
    <3>1. rows' \in [Nodes -> Totals] /\ rows[n][k] <= rows'[n][k]
      BY <1>1, <2>4, Abandoned
    <3>2. rows'[n][k] \in Nat
      BY <3>1 DEF Totals
    <3> QED
      BY <2>1, <3>1, <3>2
  <2>5. rows' = rows \/ flushOk \/ abandoned
    BY <1>1 DEF Next, count, flushTokenUsage, flushFailed, readWindow, reply, hourTurns,
                restart, tableVars, vars
  <2> QED
    BY <2>2, <2>3, <2>4, <2>5
<1>2. IInv /\ [Next]_vars
        => [lateWrite \/ \A n \in Nodes, k \in Keys : rows'[n][k] >= rows[n][k]]_vars
  BY <1>1
<1> QED
  BY Invariance, <1>2, PTL DEF Spec, StoredNeverShrinks
=============================================================================
