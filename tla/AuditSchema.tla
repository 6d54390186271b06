----------------------------- MODULE AuditSchema -----------------------------
(***************************************************************************)
(* How Horizon processes bring the audit schema of a BanyanDB server into  *)
(* line with what their build declares: SchemaManager's get-compare-create-*)
(* or-update of each resource in turn, and BanyanDBAuditStore.open() and   *)
(* probe(), which run that pass and then wait for the data nodes.          *)
(*                                                                         *)
(* Every process applies its own definition, two versions run at once      *)
(* during an upgrade, and the registry has no compare-and-set: an update   *)
(* is computed from what an earlier read returned and replaces the whole   *)
(* resource.  Each call is a request and an answer with an await between   *)
(* them, so the steps of several processes interleave call by call.        *)
(*                                                                         *)
(* A resource is its set of columns, <<name, type>>.  `Replaced' holds the *)
(* resources whose update carries the declaration alone (the index rule    *)
(* and its binding); the others are streams and measures.                  *)
(***************************************************************************)
EXTENDS Naturals, FiniteSets

CONSTANTS
  Nodes,        \* the Horizon processes
  DataNodes,    \* the BanyanDB data nodes
  NResources,   \* how many resources migrate() applies, in order
  Replaced,     \* those updated by replacement
  Names, Types, \* of columns
  BarrierKnown, \* the server implements the schema barrier
  Deployments,  \* pairs of definitions that may run side by side
  MaxRev,       \* bound: writes the server accepts
  MaxStray      \* bound: requests that outlive their caller

Resources == 1..NResources
Columns == Names \X Types
Versions == {1, 2}

ASSUME ResourceAssumption == NResources \in Nat \ {0}
ASSUME ReplacedAssumption == Replaced \subseteq Resources
ASSUME DeploymentAssumption ==
  Deployments \subseteq [Versions -> [Resources -> SUBSET Columns]]
ASSUME ServerAssumption == BarrierKnown \in BOOLEAN
ASSUME BoundAssumption == MaxRev \in Nat /\ MaxStray \in Nat

VARIABLES
  deployed,     \* the definitions of the two versions
  version,      \* the version each process runs
  live,         \* the registry: revision and columns of each resource
  clock,        \* the newest revision handed out
  shown,        \* what each data node has loaded of the registry
  pass,         \* the pass each process is in
  client,       \* the process holds an opened client
  health,       \* what its last tryOpen() reported
  stray         \* writes whose caller is gone and that may still land

vars == <<deployed, version, live, clock, shown, pass, client, health, stray>>

Stages == {"idle", "get", "create", "reread", "update", "barrier"}
Kinds == {"create", "update"}
Entry == [rev : 0..MaxRev, cols : SUBSET Columns]
absent == [rev |-> 0, cols |-> {}]
noWaits == [r \in Resources |-> 0]

\* A pass: open()'s or probe()'s migrate(), the call it awaits, the resource
\* it is at, the columns its last read returned and the revisions it made.
\* `clean' is history: no resource was dropped since it began.
Passes == [job : {"none", "open", "probe"}, at : Stages, res : Resources,
           read : SUBSET Columns, waits : [Resources -> 0..MaxRev], clean : BOOLEAN]
Requests == [kind : Kinds, res : Resources, cols : SUBSET Columns]
idlePass == [job |-> "none", at |-> "idle", res |-> 1, read |-> {},
             waits |-> noWaits, clean |-> TRUE]
newPass(job) == [idlePass EXCEPT !.job = job, !.at = "get"]

want(n) == deployed[version[n]][pass[n].res]

Init ==
  /\ deployed \in Deployments
  /\ version \in [Nodes -> Versions]
  /\ live \in [Resources -> Entry]
  /\ \A r \in Resources : \/ live[r] = absent
                          \/ \E v \in Versions : live[r] = [rev |-> 1, cols |-> deployed[v][r]]
  /\ clock = 1
  /\ shown = [d \in DataNodes |-> live]
  /\ pass = [n \in Nodes |-> idlePass]
  /\ client = [n \in Nodes |-> FALSE]
  /\ health = [n \in Nodes |-> "red"]
  /\ stray = {}

(***************************************************************************)
(* Comparing a declaration with what the server holds.                     *)
(***************************************************************************)

\* A column that exists with another type is drift the update may not send.
clashes(wanted, have) == \E c \in wanted, h \in have : c[1] = h[1] /\ c # h

conflict(r, wanted, have) == r \notin Replaced /\ clashes(wanted, have)

\* A removal is reported and kept: it alone is no reason to act.
agrees(r, wanted, have) == IF r \in Replaced THEN wanted = have ELSE wanted \subseteq have

\* The declaration and whatever the server holds that it does not mention.
unionFamilies_DeclaredOnly(wanted, have) == wanted
unionFamilies(wanted, have) ==
  wanted \cup {h \in have : \A c \in wanted : c[1] # h[1]}

toSend(r, wanted, have) == IF r \in Replaced THEN wanted ELSE unionFamilies(wanted, have)

(***************************************************************************)
(* The registry.                                                           *)
(***************************************************************************)

write(r, cols) ==
  /\ clock < MaxRev
  /\ clock' = clock + 1
  /\ live' = [live EXCEPT ![r] = [rev |-> clock + 1, cols |-> cols]]

\* The request a process has on the wire.
request(n) ==
  LET p == pass[n] IN
  [kind |-> p.at, res |-> p.res,
   cols |-> IF p.at = "create" THEN want(n) ELSE toSend(p.res, want(n), p.read)]

\* A caller that gives up on a write leaves it on the wire, or it was lost.
leavesRequest(n) ==
  \/ UNCHANGED stray
  \/ /\ pass[n].at \in Kinds
     /\ Cardinality(stray) < MaxStray
     /\ stray' = stray \cup {request(n)}

\* A create finds the resource absent, an update finds it there.
accepts(q) == IF q.kind = "create" THEN live[q.res] = absent ELSE live[q.res] # absent

strayLands ==
  /\ \E q \in stray : /\ stray' = stray \ {q}
                      /\ IF accepts(q) THEN write(q.res, q.cols) ELSE UNCHANGED <<live, clock>>
  /\ UNCHANGED <<deployed, version, shown, pass, client, health>>

propagate(d, r) ==
  /\ shown[d][r] # live[r]
  /\ shown' = [shown EXCEPT ![d][r] = live[r]]
  /\ UNCHANGED <<deployed, version, live, clock, pass, client, health, stray>>

\* Someone deletes a resource behind Horizon's back.
dropped(r) ==
  /\ live[r] # absent
  /\ live' = [live EXCEPT ![r] = absent]
  /\ pass' = [n \in Nodes |-> [pass[n] EXCEPT !.clean = FALSE]]
  /\ health' = [n \in Nodes |-> IF health[n] = "green" THEN "dropped" ELSE health[n]]
  /\ UNCHANGED <<deployed, version, clock, shown, client, stray>>

(***************************************************************************)
(* A pass of one process.                                                  *)
(***************************************************************************)

\* tryOpen(): open() unless there is a client already, and then probe().
begin(n) ==
  /\ pass[n].at = "idle"
  /\ pass' = [pass EXCEPT ![n] = newPass(IF client[n] THEN "probe" ELSE "open")]
  /\ UNCHANGED <<deployed, version, live, clock, shown, client, health, stray>>

\* open() keeps its client and probe() follows; probe() reports available.
passEnds(n) ==
  \/ /\ pass[n].job = "open"
     /\ client' = [client EXCEPT ![n] = TRUE]
     /\ pass' = [pass EXCEPT ![n] = newPass("probe")]
     /\ UNCHANGED health
  \/ /\ pass[n].job = "probe"
     /\ health' = [health EXCEPT ![n] = IF pass[n].clean THEN "green" ELSE "dropped"]
     /\ pass' = [pass EXCEPT ![n] = idlePass]
     /\ UNCHANGED client

\* An open() that throws drops its client; a probe() that fails keeps it.
passFails(n) ==
  /\ client' = [client EXCEPT ![n] = pass[n].job = "probe"]
  /\ health' = [health EXCEPT ![n] = "red"]
  /\ pass' = [pass EXCEPT ![n] = idlePass]

\* The next resource of migrate(), the barrier after the last, or the end
\* when nothing was written.
isLast(r) == r + 1 \notin Resources
goOn(n, waits) ==
  \/ /\ ~isLast(pass[n].res)
     /\ pass' = [pass EXCEPT ![n].res = @ + 1, ![n].at = "get",
                             ![n].read = {}, ![n].waits = waits]
     /\ UNCHANGED <<client, health>>
  \/ /\ isLast(pass[n].res)
     /\ waits # noWaits
     /\ pass' = [pass EXCEPT ![n].at = "barrier", ![n].read = {}, ![n].waits = waits]
     /\ UNCHANGED <<client, health>>
  \/ /\ isLast(pass[n].res)
     /\ waits = noWaits
     /\ passEnds(n)

unchanged(n) == goOn(n, pass[n].waits)

\* The barrier compares per key, so a key waits for its own revision.
withWait_Newest(n, rev) ==
  [r \in Resources |-> IF r = pass[n].res \/ pass[n].waits[r] > 0 THEN rev ELSE 0]
withWait(n, rev) == [pass[n].waits EXCEPT ![pass[n].res] = rev]

\* settle(): a conflict throws, a difference is sent, agreement goes on.
compared(n, have) ==
  \/ /\ conflict(pass[n].res, want(n), have)
     /\ passFails(n)
  \/ /\ ~conflict(pass[n].res, want(n), have)
     /\ agrees(pass[n].res, want(n), have)
     /\ unchanged(n)
  \/ /\ ~conflict(pass[n].res, want(n), have)
     /\ ~agrees(pass[n].res, want(n), have)
     /\ pass' = [pass EXCEPT ![n].at = "update", ![n].read = have]
     /\ UNCHANGED <<client, health>>

get(n) ==
  /\ pass[n].at = "get"
  /\ \/ /\ live[pass[n].res] = absent
        /\ pass' = [pass EXCEPT ![n].at = "create"]
        /\ UNCHANGED <<client, health>>
     \/ /\ live[pass[n].res] # absent
        /\ compared(n, live[pass[n].res].cols)
  /\ UNCHANGED <<deployed, version, live, clock, shown, stray>>

\* ALREADY_EXISTS: another replica won the race.
create(n) ==
  /\ pass[n].at = "create"
  /\ \/ /\ accepts(request(n))
        /\ write(pass[n].res, request(n).cols)
        /\ goOn(n, withWait(n, clock + 1))
     \/ /\ ~accepts(request(n))
        /\ pass' = [pass EXCEPT ![n].at = "reread"]
        /\ UNCHANGED <<live, clock, client, health>>
  /\ UNCHANGED <<deployed, version, shown, stray>>

\* What the winner made is compared like any other resource; one that is
\* already gone again counts as unchanged.
reread_AcceptsWinner(n) ==
  /\ pass[n].at = "reread"
  /\ unchanged(n)
  /\ UNCHANGED <<deployed, version, live, clock, shown, stray>>
reread(n) ==
  /\ pass[n].at = "reread"
  /\ \/ /\ live[pass[n].res] = absent
        /\ unchanged(n)
     \/ /\ live[pass[n].res] # absent
        /\ compared(n, live[pass[n].res].cols)
  /\ UNCHANGED <<deployed, version, live, clock, shown, stray>>

update(n) ==
  /\ pass[n].at = "update"
  /\ accepts(request(n))
  /\ write(pass[n].res, request(n).cols)
  /\ goOn(n, withWait(n, clock + 1))
  /\ UNCHANGED <<deployed, version, shown, stray>>

\* Every data node is at the revisions the pass made, or the server is too
\* old to say.
awaitSchemaApplied(n) ==
  /\ pass[n].at = "barrier"
  /\ \/ ~BarrierKnown
     \/ \A d \in DataNodes, r \in Resources : shown[d][r].rev >= pass[n].waits[r]
  /\ passEnds(n)
  /\ UNCHANGED <<deployed, version, live, clock, shown, stray>>

\* Any call may fail: an update of a resource that is gone, a barrier that
\* times out, a deadline after which the write still lands.
callFails(n) ==
  /\ pass[n].at # "idle"
  /\ passFails(n)
  /\ leavesRequest(n)
  /\ UNCHANGED <<deployed, version, live, clock, shown>>

\* The process dies and comes back, perhaps on the other version (what it had
\* on the wire is a call that failed first).
restart(n) ==
  /\ version' \in {[version EXCEPT ![n] = v] : v \in Versions}
  /\ pass' = [pass EXCEPT ![n] = idlePass]
  /\ client' = [client EXCEPT ![n] = FALSE]
  /\ health' = [health EXCEPT ![n] = "red"]
  /\ UNCHANGED <<deployed, live, clock, shown, stray>>

step(n) ==
  \/ begin(n) \/ get(n) \/ create(n) \/ reread(n) \/ update(n)
  \/ awaitSchemaApplied(n) \/ callFails(n) \/ restart(n)

Next ==
  \/ \E n \in Nodes : step(n)
  \/ \E d \in DataNodes, r \in Resources : propagate(d, r)
  \/ \E r \in Resources : dropped(r)
  \/ strayLands

Spec == Init /\ [][Next]_vars

(***************************************************************************)
(* Properties.                                                             *)
(***************************************************************************)

\* Every variable keeps its type; a pass is at a declared resource and names
\* one call it awaits.
TypeOK ==
  /\ deployed \in Deployments
  /\ version \in [Nodes -> Versions]
  /\ live \in [Resources -> Entry]
  /\ clock \in Nat
  /\ shown \in [DataNodes -> [Resources -> Entry]]
  /\ pass \in [Nodes -> Passes]
  /\ client \in [Nodes -> BOOLEAN]
  /\ health \in [Nodes -> {"red", "green", "dropped"}]
  /\ stray \subseteq Requests

\* While two versions run side by side and none but Horizon deletes, no
\* process ever takes a column away, or gives it another type: an update sent
\* from an old read, by either version, still carries what the other wrote
\* since (the comment of settle() in schema-manager.ts).
NothingRemoved ==
  [][\A r \in Resources \ Replaced :
       live'[r] # absent => live[r].cols \subseteq live'[r].cols]_vars

\* A process whose last tryOpen() answered available, with nothing dropped
\* since that pass began, finds every column it declares on the server, by
\* whoever's write and whatever others wrote since: a lost create race is not
\* taken for agreement.
ReadyHasSchema ==
  \A n \in Nodes : health[n] = "green" =>
    \A r \in Resources \ Replaced : deployed[version[n]][r] \subseteq live[r].cols

\* No pass waits at the barrier for a revision the resource will not have by
\* itself: a resource that is there is at the awaited revision or past it, so
\* the data nodes only have to catch up (the comment in migrate()).
BarrierReachable ==
  \A n \in Nodes, r \in Resources :
    pass[n].at = "barrier" /\ live[r] # absent => pass[n].waits[r] <= live[r].rev

\* What migrate() says its barrier is for: a process that may write, on a
\* server that has the barrier, writes columns every data node has loaded.
OpenMeansApplied ==
  \A n \in Nodes : health[n] = "green" /\ BarrierKnown =>
    \A r \in Resources \ Replaced, d \in DataNodes :
      deployed[version[n]][r] \subseteq shown[d][r].cols
=============================================================================
