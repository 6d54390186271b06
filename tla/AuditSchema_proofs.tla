-------------------------- MODULE AuditSchema_proofs --------------------------
(***************************************************************************)
(* What the schema passes guarantee for every number of processes, data    *)
(* nodes and resources and every pair of definitions running side by side. *)
(***************************************************************************)
EXTENDS AuditSchema, TLAPS

(***************************************************************************)
(* The invariant.  Two definitions make only three shapes of a resource:   *)
(* the one, the other and both; a process sends an update only when it     *)
(* read the other's shape, so what it sends is always both.                *)
(***************************************************************************)
Both(r) == deployed[1][r] \cup deployed[2][r]
Known(r) == {deployed[1][r], deployed[2][r], Both(r)}

\* A resource that exists has one of the three shapes.
LiveKnown ==
  \A r \in Resources \ Replaced : live[r] # absent => live[r].cols \in Known(r)

\* A process about to send an update read a shape that lacks its own columns.
ReadKnown(n) ==
  pass[n].at = "update" /\ pass[n].res \notin Replaced =>
    /\ pass[n].read \in Known(pass[n].res)
    /\ ~clashes(want(n), pass[n].read)
    /\ ~(want(n) \subseteq pass[n].read)

\* A write on the wire creates one definition or updates to both.
RequestSound(q) ==
  q.res \notin Replaced =>
    /\ q.kind = "create" => q.cols \in {deployed[1][q.res], deployed[2][q.res]}
    /\ q.kind = "update" => q.cols = Both(q.res)

StrayKnown == \A q \in stray : RequestSound(q)

\* The resources a pass has been through.
DoneBy(n, r) == r < pass[n].res \/ pass[n].at = "barrier"

\* A pass during which nothing was dropped leaves its columns behind it, and
\* a process that lost a create race finds the winner's resource.
PassSound(n) ==
  pass[n].at # "idle" /\ pass[n].clean =>
    /\ \A r \in Resources \ Replaced : DoneBy(n, r) => deployed[version[n]][r] \subseteq live[r].cols
    /\ pass[n].at = "reread" => live[pass[n].res] # absent

\* A process that is ready has its columns.
ReadySound(n) ==
  health[n] = "green" =>
    \A r \in Resources \ Replaced : deployed[version[n]][r] \subseteq live[r].cols

\* A revision a pass made is not newer than the resource's own.
WaitsSound(n) ==
  \A r \in Resources :
    /\ pass[n].waits[r] <= clock
    /\ live[r] # absent => pass[n].waits[r] <= live[r].rev

NodeSound(n) == ReadKnown(n) /\ PassSound(n) /\ ReadySound(n) /\ WaitsSound(n)

IInv == TypeOK /\ LiveKnown /\ StrayKnown /\ \A n \in Nodes : NodeSound(n)

(***************************************************************************)
(* What a step does to the pass of its process.                            *)
(***************************************************************************)

\* The state of the other processes is left alone.
Others(n) ==
  \A m \in Nodes : m # n => pass'[m] = pass[m] /\ health'[m] = health[m]

Typed ==
  /\ pass' \in [Nodes -> Passes]
  /\ client' \in [Nodes -> BOOLEAN]
  /\ health' \in [Nodes -> {"red", "green", "dropped"}]

\* No pass of this process is under way, or one that has just begun.
Fresh(n) == pass'[n] = idlePass \/ \E job \in {"open", "probe"} : pass'[n] = newPass(job)

\* The two passes that are not under way have their type.
LEMMA FreshTyped == idlePass \in Passes /\ \A job \in {"open", "probe"} : newPass(job) \in Passes
<1>1. 1 \in Resources
  BY ResourceAssumption DEF Resources
<1>2. noWaits \in [Resources -> 0..MaxRev]
  BY BoundAssumption DEF noWaits
<1>3. idlePass \in Passes
  BY <1>1, <1>2 DEF idlePass, Passes, Stages
<1>4. ASSUME NEW job \in {"open", "probe"} PROVE newPass(job) \in Passes
  BY <1>3 DEF newPass, Passes, Stages
<1> QED
  BY <1>3, <1>4

\* A pass that fails leaves its process idle and not ready.
LEMMA PassFails ==
  ASSUME TypeOK, NEW n \in Nodes, passFails(n)
  PROVE  Typed /\ Others(n) /\ Fresh(n) /\ health'[n] # "green"
BY FreshTyped DEF TypeOK, passFails, Typed, Others, Fresh

\* A pass that ends makes its process ready only if nothing was dropped.
LEMMA PassEnds ==
  ASSUME TypeOK, NEW n \in Nodes, passEnds(n)
  PROVE  /\ Typed /\ Others(n) /\ Fresh(n)
         /\ health'[n] = "green" => health[n] = "green" \/ pass[n].clean
BY FreshTyped DEF TypeOK, passEnds, Typed, Others, Fresh

\* The state after a resource is settled: the next one, the barrier or the end.
Settled(n, waits) ==
  \/ /\ pass'[n].at \in {"get", "barrier"}
     /\ pass'[n].waits = waits
     /\ pass'[n].clean = pass[n].clean
     /\ \A r \in Resources : DoneBy(n, r)' => r <= pass[n].res
     /\ health'[n] = health[n]
  \/ /\ Fresh(n)
     /\ health'[n] = "green" =>
          health[n] = "green" \/ (pass[n].clean /\ \A r \in Resources : r <= pass[n].res)

\* The last resource is the greatest.
LEMMA Last ==
  ASSUME NEW r \in Resources, isLast(r), NEW q \in Resources
  PROVE  q <= r
BY ResourceAssumption DEF isLast, Resources

\* Going on settles exactly the resource the pass is at.
LEMMA GoOn ==
  ASSUME TypeOK, NEW n \in Nodes, NEW waits \in [Resources -> 0..MaxRev], goOn(n, waits)
  PROVE  Typed /\ Others(n) /\ Settled(n, waits)
<1>0. pass[n] \in Passes /\ pass[n].res \in Resources /\ Resources \subseteq Nat
  BY DEF TypeOK, Passes, Resources
<1>1. CASE ~isLast(pass[n].res)
  <2>1. /\ pass' = [pass EXCEPT ![n].res = @ + 1, ![n].at = "get",
                                ![n].read = {}, ![n].waits = waits]
        /\ UNCHANGED <<client, health>>
    BY <1>1 DEF goOn
  <2>2. pass[n].res + 1 \in Resources
    BY <1>0, <1>1 DEF isLast
  <2>3. pass'[n] = [pass[n] EXCEPT !.res = @ + 1, !.at = "get", !.read = {}, !.waits = waits]
    BY <2>1 DEF TypeOK
  <2>4. pass'[n] \in Passes
    BY <1>0, <2>2, <2>3 DEF Passes, Stages
  <2>5. Typed /\ Others(n)
    BY <2>1, <2>3, <2>4 DEF TypeOK, Typed, Others
  <2>6. pass'[n].at = "get" /\ pass'[n].waits = waits /\ pass'[n].clean = pass[n].clean
        /\ pass'[n].res = pass[n].res + 1
    BY <1>0, <2>3 DEF Passes
  <2>7. \A r \in Resources : DoneBy(n, r)' => r <= pass[n].res
    <3>1. pass[n].res \in Nat /\ \A r \in Resources : r \in Nat
      BY <1>0
    <3>2. SUFFICES ASSUME NEW r \in Resources, r < pass'[n].res PROVE r <= pass[n].res
      BY <2>6 DEF DoneBy
    <3> QED
      BY <2>6, <3>1, <3>2
  <2> QED
    BY <2>1, <2>5, <2>6, <2>7 DEF Settled
<1>2. CASE isLast(pass[n].res) /\ waits # noWaits
  <2>1. /\ pass' = [pass EXCEPT ![n].at = "barrier", ![n].read = {}, ![n].waits = waits]
        /\ UNCHANGED <<client, health>>
    BY <1>2 DEF goOn
  <2>2. pass'[n] = [pass[n] EXCEPT !.at = "barrier", !.read = {}, !.waits = waits]
    BY <2>1 DEF TypeOK
  <2>3. pass'[n] \in Passes
    BY <1>0, <2>2 DEF Passes, Stages
  <2>4. Typed /\ Others(n)
    BY <2>1, <2>2, <2>3 DEF TypeOK, Typed, Others
  <2>5. pass'[n].at = "barrier" /\ pass'[n].waits = waits /\ pass'[n].clean = pass[n].clean
        /\ pass'[n].res = pass[n].res
    BY <1>0, <2>2 DEF Passes
  <2>6. \A r \in Resources : DoneBy(n, r)' => r <= pass[n].res
    BY <1>0, <1>2, Last
  <2> QED
    BY <2>1, <2>4, <2>5, <2>6 DEF Settled
<1>3. CASE isLast(pass[n].res) /\ waits = noWaits
  <2>1. passEnds(n)
    BY <1>3 DEF goOn
  <2>2. \A r \in Resources : r <= pass[n].res
    BY <1>0, <1>3, Last
  <2> QED
    BY <2>1, <2>2, PassEnds DEF Settled
<1> QED
  BY <1>1, <1>2, <1>3

(***************************************************************************)
(* What a write does to the registry.                                      *)
(***************************************************************************)

\* No step but a drop takes a column away, makes a resource absent, or gives
\* one a revision that is not the newest.
Growth ==
  /\ clock' >= clock
  /\ \A r \in Resources :
       /\ r \notin Replaced => live[r].cols \subseteq live'[r].cols
       /\ live[r] # absent => live'[r] # absent
       /\ live'[r] = live[r] \/ live'[r].rev = clock'

\* The two definitions are sets of columns.
LEMMA Defined ==
  ASSUME TypeOK, NEW v \in Versions, NEW r \in Resources
  PROVE  deployed[v][r] \in SUBSET Columns
BY DeploymentAssumption DEF TypeOK

\* An update computed from the other version's shape is both definitions.
LEMMA UnionIsBoth ==
  ASSUME NEW v \in Versions, NEW r \in Resources, NEW have \in Known(r),
         ~clashes(deployed[v][r], have), ~(deployed[v][r] \subseteq have)
  PROVE  unionFamilies(deployed[v][r], have) = Both(r)
<1>1. deployed[v][r] \cup have = Both(r)
  BY DEF Known, Both, Versions
<1>2. unionFamilies(deployed[v][r], have) = deployed[v][r] \cup have
  BY DEF unionFamilies, clashes
<1> QED
  BY <1>1, <1>2

\* What a process has on the wire creates one definition or updates to both.
LEMMA Outgoing ==
  ASSUME TypeOK, NEW n \in Nodes, ReadKnown(n), pass[n].at \in Kinds
  PROVE  request(n) \in Requests /\ RequestSound(request(n))
<1>0. /\ pass[n] \in Passes /\ pass[n].res \in Resources /\ version[n] \in Versions
      /\ pass[n].read \in SUBSET Columns
  BY DEF TypeOK, Passes
<1>1. want(n) \in SUBSET Columns /\ want(n) \in {deployed[1][pass[n].res], deployed[2][pass[n].res]}
  BY <1>0, Defined DEF want, Versions
<1>2. CASE pass[n].at = "create"
  BY <1>0, <1>1, <1>2 DEF request, RequestSound, Requests, Kinds
<1>3. CASE pass[n].at = "update"
  <2>1. toSend(pass[n].res, want(n), pass[n].read) \in SUBSET Columns
    BY <1>0, <1>1 DEF toSend, unionFamilies
  <2>2. pass[n].res \notin Replaced => toSend(pass[n].res, want(n), pass[n].read) = Both(pass[n].res)
    BY <1>0, <1>3, UnionIsBoth DEF ReadKnown, toSend, want
  <2> QED
    BY <1>0, <1>3, <2>1, <2>2 DEF request, RequestSound, Requests, Kinds
<1> QED
  BY <1>2, <1>3 DEF Kinds

\* A write that is accepted adds to the resource and stamps it.
LEMMA Lands ==
  ASSUME TypeOK, LiveKnown, NEW q \in Requests, RequestSound(q), accepts(q),
         write(q.res, q.cols), UNCHANGED deployed
  PROVE  /\ Growth /\ LiveKnown'
         /\ live' \in [Resources -> Entry] /\ clock' \in Nat
         /\ live'[q.res] # absent /\ live'[q.res].rev = clock' /\ clock' = clock + 1
         /\ live'[q.res].cols = q.cols /\ clock' \in 0..MaxRev
<1>0. /\ q.res \in Resources /\ q.kind \in Kinds /\ q.cols \in SUBSET Columns
      /\ clock \in Nat /\ clock < MaxRev /\ clock' = clock + 1 /\ MaxRev \in Nat
      /\ live \in [Resources -> Entry]
      /\ live' = [live EXCEPT ![q.res] = [rev |-> clock + 1, cols |-> q.cols]]
  BY BoundAssumption DEF TypeOK, Requests, write
<1>1. live'[q.res] = [rev |-> clock + 1, cols |-> q.cols] /\ \A r \in Resources : r # q.res => live'[r] = live[r]
  BY <1>0
<1>2. clock' \in Nat /\ clock' \in 0..MaxRev /\ clock' >= clock /\ clock' # 0
  BY <1>0
<1>3. live'[q.res] # absent
  BY <1>0, <1>1, <1>2 DEF absent
<1>4. live' \in [Resources -> Entry]
  BY <1>0, <1>2 DEF Entry
<1>5. q.res \notin Replaced => q.cols \in Known(q.res) /\ live[q.res].cols \subseteq q.cols
  <2>1. CASE q.kind = "create"
    BY <2>1, <1>0 DEF RequestSound, accepts, absent, Known
  <2>2. CASE q.kind = "update"
    BY <2>2, <1>0 DEF RequestSound, accepts, LiveKnown, Known, Both
  <2> QED
    BY <2>1, <2>2, <1>0 DEF Kinds
<1>6. LiveKnown'
  BY <1>0, <1>1, <1>5 DEF LiveKnown, Known, Both
<1>7. Growth
  BY <1>0, <1>1, <1>2, <1>3, <1>5 DEF Growth
<1> QED
  BY <1>0, <1>1, <1>2, <1>3, <1>4, <1>6, <1>7

(***************************************************************************)
(* What a step leaves of the invariant, for a process that did not move    *)
(* and for the one that did.                                               *)
(***************************************************************************)

\* A process that does not move keeps what it has, whatever others write.
LEMMA Still ==
  ASSUME IInv, NEW n \in Nodes, pass'[n] = pass[n], health'[n] = health[n],
         Growth, live' \in [Resources -> Entry], clock' \in Nat, UNCHANGED <<deployed, version>>
  PROVE  NodeSound(n)'
<1>0. /\ NodeSound(n) /\ pass[n] \in Passes /\ pass[n].res \in Resources
      /\ pass[n].waits \in [Resources -> 0..MaxRev] /\ clock \in Nat /\ clock' \in Nat
      /\ live \in [Resources -> Entry]
  BY DEF IInv, TypeOK, Passes
<1>1. ReadKnown(n)'
  BY <1>0 DEF NodeSound, ReadKnown, Known, Both, want
<1>2. ReadySound(n)'
  BY <1>0 DEF NodeSound, ReadySound, Growth
<1>3. PassSound(n)'
  BY <1>0 DEF NodeSound, PassSound, DoneBy, Growth
<1>4. ASSUME NEW r \in Resources
      PROVE  /\ pass'[n].waits[r] <= clock'
             /\ live'[r] # absent => pass'[n].waits[r] <= live'[r].rev
  <2>1. /\ pass[n].waits[r] \in Nat /\ pass[n].waits[r] <= clock /\ clock <= clock'
        /\ live[r] # absent => pass[n].waits[r] <= live[r].rev
    BY <1>0, BoundAssumption DEF NodeSound, WaitsSound, Growth
  <2>2. live'[r] = live[r] \/ live'[r].rev = clock'
    BY DEF Growth
  <2>3. pass'[n].waits[r] <= clock'
    BY <1>0, <2>1
  <2> QED
    BY <1>0, <2>1, <2>2, <2>3
<1>5. WaitsSound(n)'
  BY <1>4 DEF WaitsSound
<1> QED
  BY <1>1, <1>2, <1>3, <1>5 DEF NodeSound

\* A pass that has just begun, or none, holds nothing yet.
LEMMA FreshSound ==
  ASSUME IInv, NEW n \in Nodes, Fresh(n), live' \in [Resources -> Entry], clock' \in Nat,
         ReadySound(n)'
  PROVE  NodeSound(n)'
<1>0. /\ idlePass.at = "idle" /\ idlePass.res = 1 /\ idlePass.waits = noWaits
      /\ \A job : newPass(job).at = "get" /\ newPass(job).res = 1 /\ newPass(job).waits = noWaits
  BY DEF idlePass, newPass
<1>1. pass'[n].at \in {"idle", "get"} /\ pass'[n].res = 1 /\ pass'[n].waits = noWaits
  BY <1>0 DEF Fresh
<1>2. ReadKnown(n)'
  BY <1>1 DEF ReadKnown
<1>3. PassSound(n)'
  <2>1. \A r \in Resources : ~DoneBy(n, r)'
    BY <1>1, ResourceAssumption DEF DoneBy, Resources
  <2> QED
    BY <1>1, <2>1 DEF PassSound
<1>4. WaitsSound(n)'
  <2>1. ASSUME NEW r \in Resources
        PROVE  /\ pass'[n].waits[r] <= clock'
               /\ live'[r] # absent => pass'[n].waits[r] <= live'[r].rev
    <3>1. live'[r].rev \in Nat /\ pass'[n].waits[r] = 0
      BY <1>1, BoundAssumption DEF Entry, noWaits
    <3> QED
      BY <3>1
  <2> QED
    BY <2>1 DEF WaitsSound
<1> QED
  BY <1>2, <1>3, <1>4 DEF NodeSound

\* A pass that settles a resource it now finds as declared.
LEMMA SettledSound ==
  ASSUME IInv, NEW n \in Nodes, NEW waits \in [Resources -> 0..MaxRev], Settled(n, waits),
         pass[n].at \in {"get", "create", "reread", "update"},
         Growth, live' \in [Resources -> Entry], clock' \in Nat, UNCHANGED <<deployed, version>>,
         \A r \in Resources : /\ waits[r] <= clock'
                              /\ live'[r] # absent => waits[r] <= live'[r].rev,
         pass[n].clean /\ pass[n].res \notin Replaced => want(n) \subseteq live'[pass[n].res].cols
  PROVE  NodeSound(n)'
<1>0. /\ NodeSound(n) /\ pass[n] \in Passes /\ pass[n].res \in Resources
      /\ \A r \in Resources : r \in Nat
  BY DEF IInv, TypeOK, Passes, Resources
<1>1. pass[n].clean => \A r \in Resources \ Replaced :
        r <= pass[n].res => deployed'[version'[n]][r] \subseteq live'[r].cols
  <2>1. SUFFICES ASSUME pass[n].clean, NEW r \in Resources \ Replaced, r <= pass[n].res
                 PROVE  deployed[version[n]][r] \subseteq live'[r].cols
    OBVIOUS
  <2>2. CASE r = pass[n].res
    BY <2>1, <2>2 DEF want
  <2>3. CASE r # pass[n].res
    <3>1. r < pass[n].res
      BY <1>0, <2>1, <2>3
    <3>2. deployed[version[n]][r] \subseteq live[r].cols
      BY <1>0, <2>1, <3>1 DEF NodeSound, PassSound, DoneBy
    <3> QED
      BY <3>2 DEF Growth
  <2> QED
    BY <2>2, <2>3
<1>2. ReadySound(n)'
  <2>1. health'[n] = "green" =>
          health[n] = "green" \/ (pass[n].clean /\ \A r \in Resources : r <= pass[n].res)
        \/ health'[n] = health[n]
    BY DEF Settled
  <2> QED
    BY <1>0, <1>1, <2>1 DEF NodeSound, ReadySound, Growth
<1>3. CASE Fresh(n)
  BY <1>2, <1>3, FreshSound
<1>4. CASE ~Fresh(n)
  <2>1. /\ pass'[n].at \in {"get", "barrier"} /\ pass'[n].waits = waits
        /\ pass'[n].clean = pass[n].clean /\ \A r \in Resources : DoneBy(n, r)' => r <= pass[n].res
    BY <1>4 DEF Settled
  <2>2. ReadKnown(n)'
    BY <2>1 DEF ReadKnown
  <2>3. PassSound(n)'
    BY <1>1, <2>1 DEF PassSound
  <2>4. WaitsSound(n)'
    BY <2>1 DEF WaitsSound
  <2> QED
    BY <1>2, <2>2, <2>3, <2>4 DEF NodeSound
<1> QED
  BY <1>3, <1>4

\* A comparison fails the pass, settles the resource or goes on to update it.
LEMMA Compared ==
  ASSUME IInv, NEW n \in Nodes, pass[n].at \in {"get", "reread"}, NEW have \in SUBSET Columns,
         live[pass[n].res] # absent, have = live[pass[n].res].cols, compared(n, have),
         UNCHANGED <<deployed, version, live, clock>>
  PROVE  Typed /\ Others(n) /\ NodeSound(n)'
<1>0. /\ TypeOK /\ NodeSound(n) /\ pass[n] \in Passes /\ pass[n].res \in Resources
      /\ pass[n].waits \in [Resources -> 0..MaxRev]
      /\ live' \in [Resources -> Entry] /\ clock' \in Nat /\ clock \in Nat
  BY DEF IInv, TypeOK, Passes
<1>1. CASE conflict(pass[n].res, want(n), have)
  <2>1. passFails(n)
    BY <1>1 DEF compared
  <2>2. Typed /\ Others(n) /\ Fresh(n) /\ health'[n] # "green"
    BY <1>0, <2>1, PassFails
  <2> QED
    BY <1>0, <2>2, FreshSound DEF ReadySound
<1>2. CASE ~conflict(pass[n].res, want(n), have) /\ agrees(pass[n].res, want(n), have)
  <2>1. goOn(n, pass[n].waits)
    BY <1>2 DEF compared, unchanged
  <2>2. Typed /\ Others(n) /\ Settled(n, pass[n].waits)
    BY <1>0, <2>1, GoOn
  <2>3. Growth
    BY <1>0 DEF Growth
  <2>4. pass[n].res \notin Replaced => want(n) \subseteq live'[pass[n].res].cols
    BY <1>2 DEF agrees
  <2>5. \A r \in Resources : /\ pass[n].waits[r] <= clock'
                             /\ live'[r] # absent => pass[n].waits[r] <= live'[r].rev
    BY <1>0 DEF NodeSound, WaitsSound
  <2> QED
    BY <1>0, <2>2, <2>3, <2>4, <2>5, SettledSound
<1>3. CASE ~conflict(pass[n].res, want(n), have) /\ ~agrees(pass[n].res, want(n), have)
  <2>1. /\ pass' = [pass EXCEPT ![n].at = "update", ![n].read = have]
        /\ UNCHANGED <<client, health>>
    BY <1>3 DEF compared
  <2>2. pass'[n] = [pass[n] EXCEPT !.at = "update", !.read = have]
    BY <1>0, <2>1 DEF TypeOK
  <2>3. /\ pass'[n] \in Passes /\ pass'[n].at = "update" /\ pass'[n].read = have
        /\ pass'[n].res = pass[n].res /\ pass'[n].clean = pass[n].clean
        /\ pass'[n].waits = pass[n].waits
    BY <1>0, <2>2 DEF Passes, Stages
  <2>4. Typed /\ Others(n)
    BY <1>0, <2>1, <2>3 DEF TypeOK, Typed, Others
  <2>5. ReadKnown(n)'
    <3>1. pass[n].res \notin Replaced => have \in Known(pass[n].res)
      BY <1>0 DEF IInv, LiveKnown
    <3> QED
      BY <1>3, <2>3, <3>1 DEF ReadKnown, conflict, agrees, want, Known, Both
  <2>6. PassSound(n)'
    BY <1>0, <2>3 DEF NodeSound, PassSound, DoneBy
  <2>7. ReadySound(n)' /\ WaitsSound(n)'
    BY <1>0, <2>1, <2>3 DEF NodeSound, ReadySound, WaitsSound
  <2> QED
    BY <2>4, <2>5, <2>6, <2>7 DEF NodeSound
<1> QED
  BY <1>1, <1>2, <1>3

\* A write that is answered settles the resource with its own revision.
LEMMA Wrote ==
  ASSUME IInv, NEW n \in Nodes, pass[n].at \in Kinds, accepts(request(n)),
         write(pass[n].res, request(n).cols), goOn(n, withWait(n, clock + 1)),
         UNCHANGED <<deployed, version>>
  PROVE  /\ Typed /\ Others(n) /\ NodeSound(n)' /\ Growth /\ LiveKnown'
         /\ live' \in [Resources -> Entry] /\ clock' \in Nat
<1>0. /\ TypeOK /\ LiveKnown /\ NodeSound(n) /\ ReadKnown(n) /\ pass[n] \in Passes
      /\ pass[n].res \in Resources /\ pass[n].waits \in [Resources -> 0..MaxRev]
      /\ clock \in Nat /\ version[n] \in Versions /\ live \in [Resources -> Entry]
  BY DEF IInv, NodeSound, TypeOK, Passes
<1>1. request(n) \in Requests /\ RequestSound(request(n)) /\ request(n).res = pass[n].res
  BY <1>0, Outgoing DEF request
<1>2. /\ Growth /\ LiveKnown' /\ live' \in [Resources -> Entry] /\ clock' \in Nat
      /\ live'[pass[n].res] # absent /\ live'[pass[n].res].rev = clock' /\ clock' = clock + 1
      /\ live'[pass[n].res].cols = request(n).cols /\ clock' \in 0..MaxRev
  BY <1>0, <1>1, Lands
<1>3. withWait(n, clock + 1) = [pass[n].waits EXCEPT ![pass[n].res] = clock']
  BY <1>2 DEF withWait
<1>4. withWait(n, clock + 1) \in [Resources -> 0..MaxRev]
  BY <1>0, <1>2, <1>3
<1>5. Typed /\ Others(n) /\ Settled(n, withWait(n, clock + 1))
  BY <1>0, <1>4, GoOn
<1>6. ASSUME NEW r \in Resources
      PROVE  /\ withWait(n, clock + 1)[r] <= clock'
             /\ live'[r] # absent => withWait(n, clock + 1)[r] <= live'[r].rev
  <2>1. CASE r = pass[n].res
    <3>1. withWait(n, clock + 1)[r] = clock'
      BY <1>0, <1>3, <2>1
    <3> QED
      BY <1>2, <2>1, <3>1
  <2>2. CASE r # pass[n].res
    <3>1. withWait(n, clock + 1)[r] = pass[n].waits[r] /\ live'[r] = live[r]
      BY <1>0, <1>3, <2>2 DEF write
    <3>2. pass[n].waits[r] \in Nat /\ pass[n].waits[r] <= clock
      BY <1>0, BoundAssumption DEF NodeSound, WaitsSound
    <3> QED
      BY <1>0, <1>2, <3>1, <3>2 DEF NodeSound, WaitsSound
  <2> QED
    BY <2>1, <2>2
<1>7. pass[n].res \notin Replaced => want(n) \subseteq live'[pass[n].res].cols
  <2>1. want(n) \subseteq request(n).cols
    BY <1>0 DEF request, toSend, unionFamilies, Kinds
  <2> QED
    BY <1>2, <2>1
<1>8. NodeSound(n)'
  BY <1>2, <1>4, <1>5, <1>6, <1>7, SettledSound DEF Kinds
<1> QED
  BY <1>2, <1>5, <1>8

(***************************************************************************)
(* The invariant is inductive.                                             *)
(***************************************************************************)

\* The first state: nothing under way, and every resource of one version.
LEMMA InitHolds == Init => IInv
<1> SUFFICES ASSUME Init PROVE IInv
  OBVIOUS
<1>1. TypeOK
  BY FreshTyped DEF Init, TypeOK
<1>2. LiveKnown
  BY DEF Init, LiveKnown, Known, Versions
<1>3. StrayKnown
  BY DEF Init, StrayKnown
<1>4. ASSUME NEW n \in Nodes PROVE NodeSound(n)
  <2>1. pass[n] = idlePass /\ idlePass.at = "idle" /\ idlePass.waits = noWaits /\ health[n] = "red"
    BY <1>4 DEF Init, idlePass
  <2>2. WaitsSound(n)
    <3>1. ASSUME NEW r \in Resources
          PROVE  pass[n].waits[r] = 0 /\ clock = 1 /\ live[r].rev \in Nat
      BY <2>1, BoundAssumption DEF Init, noWaits, Entry
    <3> QED
      BY <3>1 DEF WaitsSound
  <2> QED
    BY <2>1, <2>2 DEF NodeSound, ReadKnown, PassSound, ReadySound
<1> QED
  BY <1>1, <1>2, <1>3, <1>4 DEF IInv

\* The processes that do not move keep their part when one of them does.
LEMMA OneMoves ==
  ASSUME IInv, NEW n \in Nodes, Typed, Others(n), NodeSound(n)', Growth, LiveKnown', StrayKnown',
         live' \in [Resources -> Entry], clock' \in Nat, stray' \subseteq Requests,
         UNCHANGED <<deployed, version, shown>>
  PROVE  IInv'
<1>1. TypeOK'
  BY DEF IInv, TypeOK, Typed
<1>2. ASSUME NEW m \in Nodes PROVE NodeSound(m)'
  <2>1. CASE m = n
    BY <2>1
  <2>2. CASE m # n
    BY <2>2, Still DEF Others
  <2> QED
    BY <2>1, <2>2
<1> QED
  BY <1>1, <1>2 DEF IInv

\* Nothing is written: the registry, and the requests on the wire, stay sound.
LEMMA Unwritten ==
  ASSUME IInv, UNCHANGED <<deployed, live, clock>>
  PROVE  /\ Growth /\ LiveKnown' /\ live' \in [Resources -> Entry] /\ clock' \in Nat
         /\ UNCHANGED stray => StrayKnown' /\ stray' \subseteq Requests
<1>1. live' \in [Resources -> Entry] /\ clock' \in Nat /\ clock \in Nat
  BY DEF IInv, TypeOK
<1>2. Growth
  BY <1>1 DEF Growth
<1>3. LiveKnown'
  BY DEF IInv, LiveKnown, Known, Both
<1>4. UNCHANGED stray => StrayKnown' /\ stray' \subseteq Requests
  BY DEF IInv, TypeOK, StrayKnown, RequestSound, Both
<1> QED
  BY <1>1, <1>2, <1>3, <1>4

\* The requests on the wire stay sound while the definitions do.
LEMMA StraysStay ==
  ASSUME IInv, UNCHANGED <<deployed, stray>>
  PROVE  StrayKnown' /\ stray' \subseteq Requests
BY DEF IInv, TypeOK, StrayKnown, RequestSound, Both

\* A step of one process.
LEMMA StepHolds ==
  ASSUME IInv, NEW n \in Nodes, step(n)
  PROVE  IInv' /\ Growth
<1>0. /\ TypeOK /\ NodeSound(n) /\ pass[n] \in Passes /\ pass[n].res \in Resources
      /\ version[n] \in Versions /\ live \in [Resources -> Entry]
      /\ pass[n].waits \in [Resources -> 0..MaxRev]
      /\ stray \subseteq Requests /\ StrayKnown /\ version \in [Nodes -> Versions]
  BY DEF IInv, TypeOK, Passes
<1>1. CASE begin(n)
  <2>1. /\ pass' = [pass EXCEPT ![n] = newPass(IF client[n] THEN "probe" ELSE "open")]
        /\ UNCHANGED <<deployed, version, live, clock, shown, client, health, stray>>
    BY <1>1 DEF begin
  <2>2. Fresh(n)
    BY <1>0, <2>1 DEF Fresh, TypeOK
  <2>3. pass'[n] \in Passes
    BY <2>2, FreshTyped DEF Fresh
  <2>4. Typed /\ Others(n)
    BY <1>0, <2>1, <2>3 DEF TypeOK, Typed, Others
  <2>5. ReadySound(n)'
    BY <1>0, <2>1 DEF NodeSound, ReadySound
  <2>6. NodeSound(n)'
    BY <2>1, <2>2, <2>5, FreshSound, Unwritten
  <2> QED
    BY <2>1, <2>4, <2>6, Unwritten, OneMoves
<1>2. CASE get(n)
  <2>1. UNCHANGED <<deployed, version, live, clock, shown, stray>>
    BY <1>2 DEF get
  <2>2. CASE live[pass[n].res] # absent
    <3>1. compared(n, live[pass[n].res].cols) /\ live[pass[n].res].cols \in SUBSET Columns
      BY <1>0, <1>2, <2>2 DEF get, Entry
    <3>2. Typed /\ Others(n) /\ NodeSound(n)'
      BY <1>2, <2>1, <2>2, <3>1, Compared DEF get
    <3> QED
      BY <2>1, <3>2, Unwritten, OneMoves
  <2>3. CASE live[pass[n].res] = absent
    <3>1. pass' = [pass EXCEPT ![n].at = "create"] /\ UNCHANGED <<client, health>>
      BY <1>2, <2>3 DEF get
    <3>2. pass'[n] = [pass[n] EXCEPT !.at = "create"]
      BY <1>0, <3>1 DEF TypeOK
    <3>3. /\ pass'[n] \in Passes /\ pass'[n].at = "create" /\ pass'[n].res = pass[n].res
          /\ pass'[n].clean = pass[n].clean /\ pass'[n].waits = pass[n].waits
      BY <1>0, <3>2 DEF Passes, Stages
    <3>4. Typed /\ Others(n)
      BY <1>0, <3>1, <3>3 DEF TypeOK, Typed, Others
    <3>5. NodeSound(n)'
      BY <1>0, <1>2, <2>1, <3>1, <3>3
         DEF NodeSound, ReadKnown, PassSound, DoneBy, ReadySound, WaitsSound, get
    <3> QED
      BY <2>1, <3>4, <3>5, Unwritten, OneMoves
  <2> QED
    BY <2>2, <2>3
<1>3. CASE create(n)
  <2>1. UNCHANGED <<deployed, version, shown, stray>> /\ pass[n].at = "create" /\ pass[n].at \in Kinds
    BY <1>3 DEF create, Kinds
  <2>2. CASE accepts(request(n))
    <3>1. write(pass[n].res, request(n).cols) /\ goOn(n, withWait(n, clock + 1))
      BY <1>3, <2>2 DEF create
    <3> QED
      BY <2>1, <2>2, <3>1, Wrote, StraysStay, OneMoves
  <2>3. CASE ~accepts(request(n))
    <3>1. /\ pass' = [pass EXCEPT ![n].at = "reread"]
          /\ UNCHANGED <<live, clock, client, health>>
      BY <1>3, <2>3 DEF create
    <3>2. pass'[n] = [pass[n] EXCEPT !.at = "reread"]
      BY <1>0, <3>1 DEF TypeOK
    <3>3. /\ pass'[n] \in Passes /\ pass'[n].at = "reread" /\ pass'[n].res = pass[n].res
          /\ pass'[n].clean = pass[n].clean /\ pass'[n].waits = pass[n].waits
      BY <1>0, <3>2 DEF Passes, Stages
    <3>4. Typed /\ Others(n)
      BY <1>0, <3>1, <3>3 DEF TypeOK, Typed, Others
    <3>5. live[pass[n].res] # absent
      BY <2>1, <2>3 DEF accepts, request
    <3>6. NodeSound(n)'
      BY <1>0, <2>1, <3>1, <3>3, <3>5
         DEF NodeSound, ReadKnown, PassSound, DoneBy, ReadySound, WaitsSound
    <3> QED
      BY <2>1, <3>1, <3>4, <3>6, Unwritten, OneMoves
  <2> QED
    BY <2>2, <2>3
<1>4. CASE reread(n)
  <2>1. UNCHANGED <<deployed, version, live, clock, shown, stray>> /\ pass[n].at = "reread"
    BY <1>4 DEF reread
  <2>2. CASE live[pass[n].res] # absent
    <3>1. compared(n, live[pass[n].res].cols) /\ live[pass[n].res].cols \in SUBSET Columns
      BY <1>0, <1>4, <2>2 DEF reread, Entry
    <3>2. Typed /\ Others(n) /\ NodeSound(n)'
      BY <2>1, <2>2, <3>1, Compared
    <3> QED
      BY <2>1, <3>2, Unwritten, OneMoves
  <2>3. CASE live[pass[n].res] = absent
    <3>1. goOn(n, pass[n].waits)
      BY <1>4, <2>3 DEF reread, unchanged
    <3>2. Typed /\ Others(n) /\ Settled(n, pass[n].waits)
      BY <1>0, <3>1, GoOn
    <3>3. ~pass[n].clean
      BY <1>0, <2>1, <2>3 DEF NodeSound, PassSound
    <3>4. \A r \in Resources : /\ pass[n].waits[r] <= clock'
                               /\ live'[r] # absent => pass[n].waits[r] <= live'[r].rev
      BY <1>0, <2>1 DEF NodeSound, WaitsSound
    <3>5. NodeSound(n)'
      BY <1>0, <2>1, <3>2, <3>3, <3>4, Unwritten, SettledSound
    <3> QED
      BY <2>1, <3>2, <3>5, Unwritten, OneMoves
  <2> QED
    BY <2>2, <2>3
<1>5. CASE update(n)
  <2>1. UNCHANGED <<deployed, version, shown, stray>> /\ pass[n].at \in Kinds
    BY <1>5 DEF update, Kinds
  <2> QED
    BY <1>5, <2>1, Wrote, StraysStay, OneMoves DEF update
<1>6. CASE awaitSchemaApplied(n)
  <2>1. UNCHANGED <<deployed, version, live, clock, shown, stray>> /\ pass[n].at = "barrier" /\ passEnds(n)
    BY <1>6 DEF awaitSchemaApplied
  <2>2. /\ Typed /\ Others(n) /\ Fresh(n)
        /\ health'[n] = "green" => health[n] = "green" \/ pass[n].clean
    BY <1>0, <2>1, PassEnds
  <2>3. ReadySound(n)'
    BY <1>0, <2>1, <2>2 DEF NodeSound, ReadySound, PassSound, DoneBy
  <2>4. NodeSound(n)'
    BY <2>1, <2>2, <2>3, FreshSound, Unwritten
  <2> QED
    BY <2>1, <2>2, <2>4, Unwritten, OneMoves
<1>7. CASE callFails(n)
  <2>1. /\ UNCHANGED <<deployed, version, live, clock, shown>> /\ passFails(n) /\ leavesRequest(n)
    BY <1>7 DEF callFails
  <2>2. Typed /\ Others(n) /\ Fresh(n) /\ health'[n] # "green"
    BY <1>0, <2>1, PassFails
  <2>3. NodeSound(n)'
    BY <2>1, <2>2, FreshSound, Unwritten DEF ReadySound
  <2>4. StrayKnown' /\ stray' \subseteq Requests
    <3>1. CASE UNCHANGED stray
      BY <2>1, <3>1, StraysStay
    <3>2. CASE pass[n].at \in Kinds /\ stray' = stray \cup {request(n)}
      <4>1. request(n) \in Requests /\ RequestSound(request(n))
        BY <1>0, <3>2, Outgoing DEF NodeSound
      <4> QED
        BY <1>0, <2>1, <3>2, <4>1 DEF StrayKnown, RequestSound, Both
    <3> QED
      BY <2>1, <3>1, <3>2 DEF leavesRequest
  <2> QED
    BY <2>1, <2>2, <2>3, <2>4, Unwritten, OneMoves
<1>8. CASE restart(n)
  <2>1. PICK v \in Versions : version' = [version EXCEPT ![n] = v]
    BY <1>8 DEF restart
  <2>2. /\ pass' = [pass EXCEPT ![n] = idlePass] /\ client' = [client EXCEPT ![n] = FALSE]
        /\ health' = [health EXCEPT ![n] = "red"]
        /\ UNCHANGED <<deployed, live, clock, shown, stray>>
    BY <1>8 DEF restart
  <2>3. /\ Growth /\ LiveKnown' /\ live' \in [Resources -> Entry] /\ clock' \in Nat
        /\ StrayKnown' /\ stray' \subseteq Requests
    BY <2>2, Unwritten
  <2>4. TypeOK'
    BY <1>0, <2>1, <2>2, FreshTyped DEF TypeOK
  <2>5. ASSUME NEW m \in Nodes PROVE NodeSound(m)'
    <3>1. CASE m = n
      <4>1. Fresh(n) /\ health'[n] = "red"
        BY <1>0, <2>2 DEF Fresh, TypeOK
      <4> QED
        BY <2>3, <3>1, <4>1, FreshSound DEF ReadySound
    <3>2. CASE m # n
      <4>1. /\ pass'[m] = pass[m] /\ health'[m] = health[m] /\ version'[m] = version[m]
            /\ NodeSound(m)
        BY <1>0, <2>1, <2>2, <3>2 DEF IInv, TypeOK
      <4> QED
        BY <2>2, <4>1
           DEF NodeSound, ReadKnown, PassSound, ReadySound, WaitsSound, DoneBy, want, Known, Both
    <3> QED
      BY <3>1, <3>2
  <2> QED
    BY <2>3, <2>4, <2>5 DEF IInv
<1> QED
  BY <1>1, <1>2, <1>3, <1>4, <1>5, <1>6, <1>7, <1>8 DEF step

\* Someone drops a resource: no pass under way vouches for it any more.
LEMMA DropHolds ==
  ASSUME IInv, NEW r \in Resources, dropped(r)
  PROVE  IInv'
<1>0. /\ TypeOK /\ LiveKnown /\ live' = [live EXCEPT ![r] = absent]
      /\ pass' = [n \in Nodes |-> [pass[n] EXCEPT !.clean = FALSE]]
      /\ health' = [n \in Nodes |-> IF health[n] = "green" THEN "dropped" ELSE health[n]]
      /\ UNCHANGED <<deployed, version, clock, shown, client, stray>>
      /\ live \in [Resources -> Entry] /\ absent \in Entry
  BY BoundAssumption DEF IInv, TypeOK, dropped, absent, Entry
<1>1. ASSUME NEW n \in Nodes
      PROVE  /\ pass'[n] \in Passes /\ ~pass'[n].clean /\ pass'[n].at = pass[n].at
             /\ pass'[n].res = pass[n].res /\ pass'[n].read = pass[n].read
             /\ pass'[n].waits = pass[n].waits
  BY <1>0 DEF TypeOK, Passes
<1>2. ASSUME NEW n \in Nodes
      PROVE  health'[n] # "green" /\ health'[n] \in {"red", "green", "dropped"}
  BY <1>0 DEF TypeOK
<1>3. TypeOK'
  <2>1. pass' \in [Nodes -> Passes] /\ health' \in [Nodes -> {"red", "green", "dropped"}]
    BY <1>0, <1>1, <1>2
  <2> QED
    BY <1>0, <2>1 DEF TypeOK
<1>4. LiveKnown'
  BY <1>0 DEF LiveKnown, Known, Both
<1>5. StrayKnown'
  BY <1>0, StraysStay DEF IInv
<1>6. ASSUME NEW n \in Nodes PROVE NodeSound(n)'
  <2>1. NodeSound(n)
    BY DEF IInv
  <2>2. ReadKnown(n)'
    BY <1>0, <1>1, <2>1 DEF NodeSound, ReadKnown, want, Known, Both
  <2>3. PassSound(n)' /\ ReadySound(n)'
    BY <1>1, <1>2 DEF PassSound, ReadySound
  <2>4. WaitsSound(n)'
    BY <1>0, <1>1, <2>1 DEF NodeSound, WaitsSound
  <2> QED
    BY <2>2, <2>3, <2>4 DEF NodeSound
<1> QED
  BY <1>3, <1>4, <1>5, <1>6 DEF IInv

\* A write whose caller is gone lands, or is refused.
LEMMA StrayHolds ==
  ASSUME IInv, strayLands
  PROVE  IInv' /\ Growth
<1>1. PICK q \in stray :
        /\ stray' = stray \ {q}
        /\ IF accepts(q) THEN write(q.res, q.cols) ELSE UNCHANGED <<live, clock>>
  BY DEF strayLands
<1>2. /\ UNCHANGED <<deployed, version, shown, pass, client, health>>
      /\ TypeOK /\ LiveKnown /\ q \in Requests /\ RequestSound(q)
  BY <1>1 DEF strayLands, IInv, TypeOK, StrayKnown
<1>3. Growth /\ LiveKnown' /\ live' \in [Resources -> Entry] /\ clock' \in Nat
  <2>1. CASE accepts(q)
    BY <1>1, <1>2, <2>1, Lands
  <2>2. CASE ~accepts(q)
    BY <1>1, <1>2, <2>2, Unwritten
  <2> QED
    BY <2>1, <2>2
<1>4. TypeOK'
  BY <1>1, <1>2, <1>3 DEF TypeOK
<1>5. StrayKnown'
  BY <1>1, <1>2 DEF IInv, StrayKnown, RequestSound, Both
<1>6. ASSUME NEW n \in Nodes PROVE NodeSound(n)'
  BY <1>2, <1>3, Still
<1> QED
  BY <1>3, <1>4, <1>5, <1>6 DEF IInv

\* A data node loads a resource.
LEMMA PropagateHolds ==
  ASSUME IInv, NEW d \in DataNodes, NEW r \in Resources, propagate(d, r)
  PROVE  IInv'
<1>1. /\ shown' = [shown EXCEPT ![d][r] = live[r]]
      /\ UNCHANGED <<deployed, version, live, clock, pass, client, health, stray>>
  BY DEF propagate
<1>2. TypeOK'
  <2>1. shown' \in [DataNodes -> [Resources -> Entry]]
    BY <1>1 DEF IInv, TypeOK
  <2> QED
    BY <1>1, <2>1 DEF IInv, TypeOK
<1>3. LiveKnown' /\ StrayKnown'
  BY <1>1, Unwritten
<1>4. ASSUME NEW n \in Nodes PROVE NodeSound(n)'
  BY <1>1, Unwritten, Still DEF IInv
<1> QED
  BY <1>2, <1>3, <1>4 DEF IInv

\* Every step keeps the invariant.
LEMMA NextHolds == IInv /\ [Next]_vars => IInv'
<1> SUFFICES ASSUME IInv, [Next]_vars PROVE IInv'
  OBVIOUS
<1>1. CASE \E n \in Nodes : step(n)
  BY <1>1, StepHolds
<1>2. CASE \E d \in DataNodes, r \in Resources : propagate(d, r)
  BY <1>2, PropagateHolds
<1>3. CASE \E r \in Resources : dropped(r)
  BY <1>3, DropHolds
<1>4. CASE strayLands
  BY <1>4, StrayHolds
<1>5. CASE UNCHANGED vars
  <2>1. TypeOK' /\ LiveKnown' /\ StrayKnown'
    BY <1>5, Unwritten DEF vars, IInv, TypeOK
  <2>2. ASSUME NEW n \in Nodes PROVE NodeSound(n)'
    BY <1>5, Unwritten, Still DEF vars
  <2> QED
    BY <2>1, <2>2 DEF IInv
<1> QED
  BY <1>1, <1>2, <1>3, <1>4, <1>5 DEF Next

\* A step takes no column from a resource it leaves there.
LEMMA NothingTaken ==
  ASSUME IInv, [Next]_vars, NEW r \in Resources \ Replaced, live'[r] # absent
  PROVE  live[r].cols \subseteq live'[r].cols
<1>1. CASE \E n \in Nodes : step(n)
  BY <1>1, StepHolds DEF Growth
<1>2. CASE \E d \in DataNodes, q \in Resources : propagate(d, q)
  BY <1>2 DEF propagate
<1>3. CASE \E q \in Resources : dropped(q)
  <2>1. PICK q \in Resources : live' = [live EXCEPT ![q] = absent]
    BY <1>3 DEF dropped
  <2> QED
    BY <2>1 DEF IInv, TypeOK
<1>4. CASE strayLands
  BY <1>4, StrayHolds DEF Growth
<1>5. CASE UNCHANGED vars
  BY <1>5 DEF vars
<1> QED
  BY <1>1, <1>2, <1>3, <1>4, <1>5 DEF Next

\* The invariant holds in every reachable state.
THEOREM Invariance == Spec => []IInv
BY InitHolds, NextHolds, PTL DEF Spec

(***************************************************************************)
(* The properties the runs check.                                          *)
(***************************************************************************)

\* Every variable of the schema passes keeps its type.
THEOREM SchemaTypeCorrect == Spec => []TypeOK
<1>1. IInv => TypeOK
  BY DEF IInv
<1> QED
  BY <1>1, Invariance, PTL

\* Two versions side by side never take a column from each other: settle()
\* without removals, and unionFamilies(), make every update carry both.
THEOREM NoColumnIsLost == Spec => NothingRemoved
<1>1. IInv /\ [Next]_vars =>
        [\A r \in Resources \ Replaced :
           live'[r] # absent => live[r].cols \subseteq live'[r].cols]_vars
  BY NothingTaken
<1> QED
  BY <1>1, Invariance, PTL DEF Spec, NothingRemoved

\* open() and probe() vouch for the columns a write needs.
THEOREM ReadyMeansDeclared == Spec => []ReadyHasSchema
<1>1. IInv => ReadyHasSchema
  BY DEF IInv, NodeSound, ReadySound, ReadyHasSchema
<1> QED
  BY <1>1, Invariance, PTL

\* migrate() hands the barrier revisions the resources have.
THEOREM BarrierCanPass == Spec => []BarrierReachable
<1>1. IInv => BarrierReachable
  BY DEF IInv, NodeSound, WaitsSound, BarrierReachable
<1> QED
  BY <1>1, Invariance, PTL
=============================================================================
