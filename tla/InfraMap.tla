------------------------------ MODULE InfraMap ------------------------------
(***************************************************************************)
(* The 3D infrastructure map of the web client across sign-ins: the        *)
(* identity epoch of apps/ui/src/state/sessionReset.ts, the sign-in store  *)
(* that moves it, and the module-level stores of features/infra-3d that    *)
(* must not carry one session's reads into the next: the map's             *)
(* configuration, the pipeline and its strip of stages, the metrics and    *)
(* the alarms.                                                             *)
(*                                                                         *)
(* A reset cannot cancel a request it does not own, so the calls of        *)
(* earlier epochs stay out and are answered at any later time.  A store is *)
(* abstracted to the epochs whose reads it holds.  An action is what one   *)
(* handler does up to its next await; a view is one mount of               *)
(* Infra3DView.vue with the loader it owns.                                *)
(***************************************************************************)
EXTENDS Naturals

CONSTANTS
  Views,       \* bound: mounts of the map alive at once, leftovers included
  Generations  \* bound: identity generations that have calls out at once

ASSUME GenerationsAssumption == Generations \in Nat \ {0}

\* The counter of sessionReset.ts, modulo Generations: a value is not taken
\* again while a call that captured it is out, as the counter's never is.
Epochs == 0..(Generations - 1)

\* The stages of STAGE_ORDER that await a read; `templates' and `layout' end
\* where they start.
Awaiting == {"services", "topologies", "hierarchy", "metrics"}

VARIABLES
  epoch,        \* the identity generation
  user,         \* somebody is signed in
  loginOut,     \* the login request is out
  cfg,          \* epochs the configuration snapshot was read under, {} when null
  loading,      \* `inFlight' holds a promise; `loading' goes with it
  fetches,      \* epochs a configuration request is out for
  running,      \* the pipeline's latch
  strip,        \* stages the drawer shows as running
  stripOf,      \* epochs whose runs wrote the strip since it was reset
  runs,         \* where the run of each epoch awaits
  metricsOf,    \* epochs the metric values and units come from
  alarmsOf,     \* epochs the alarm sets come from
  polling,      \* the alarms' `inflight' holds a promise
  polls,        \* epochs an alarm request is out for
  view          \* the mounts of the map

authVars   == <<user, loginOut>>
configVars == <<cfg, loading, fetches>>
stripVars  == <<strip, stripOf>>
runVars    == <<running, stripVars, runs, metricsOf>>
alarmVars  == <<alarmsOf, polling, polls>>
mapVars == <<epoch, authVars, configVars, runVars, alarmVars, view>>

noView == [at |-> "gone", on |-> 0, mounted |-> FALSE, timer |-> FALSE]

isCurrentEpoch_Always(e) == TRUE  \* mutant: answers are published whoever asked

isCurrentEpoch(e) == e = epoch

MapInit ==
  /\ epoch = 0 /\ user \in BOOLEAN /\ loginOut = FALSE
  /\ cfg = {} /\ loading = FALSE /\ fetches = {}
  /\ running = FALSE /\ strip = {} /\ stripOf = {}
  /\ runs = [e \in Epochs |-> "none"] /\ metricsOf = {}
  /\ alarmsOf = {} /\ polling = FALSE /\ polls = {}
  /\ view = [v \in Views |-> noView]

-----------------------------------------------------------------------------
(***************************************************************************)
(* Identity changes                                                        *)
(***************************************************************************)
resetConfig == cfg' = {} /\ loading' = FALSE

successor == IF epoch + 1 = Generations THEN 0 ELSE epoch + 1

\* Every registrant runs, with the new generation already in place.
resetSessionState ==
  /\ successor \notin fetches \cup polls /\ runs[successor] = "none"
  /\ epoch' = successor
  /\ resetConfig
  /\ running' = FALSE /\ strip' = {} /\ stripOf' = {}
  /\ metricsOf' = {}
  /\ alarmsOf' = {} /\ polling' = FALSE
  /\ UNCHANGED <<fetches, runs, polls, view>>

\* The login page is mounted, so the map is not.
login ==
  /\ ~user /\ ~loginOut /\ \A v \in Views : ~view[v].mounted
  /\ loginOut' = TRUE /\ UNCHANGED user
  /\ resetSessionState

loginAnswered ==
  /\ loginOut /\ loginOut' = FALSE /\ user' \in BOOLEAN
  /\ UNCHANGED <<epoch, configVars, runVars, alarmVars, view>>

\* A logout whose request is over, or the client's hook on a 401, which asks
\* nothing about the request: at any time, whoever is signed in.
endSession == user' = FALSE /\ UNCHANGED loginOut /\ resetSessionState

-----------------------------------------------------------------------------
(***************************************************************************)
(* The configuration                                                       *)
(***************************************************************************)
\* The caller has the snapshot at once, or awaits the request of this epoch.
ensureLoaded(held) ==
  /\ cfg' = held
  /\ IF held # {} \/ loading
     THEN UNCHANGED <<loading, fetches>>
     ELSE loading' = TRUE /\ fetches' = fetches \cup {epoch}

\* The admin page, another route, saved the configuration.
refreshConfig ==
  /\ user /\ \A v \in Views : ~view[v].mounted
  /\ ensureLoaded({})
  /\ UNCHANGED <<epoch, authVars, runVars, alarmVars, view>>

-----------------------------------------------------------------------------
(***************************************************************************)
(* The pipeline                                                            *)
(***************************************************************************)
\* What the reporter of a run of epoch e leaves on the strip: `ended' is no
\* longer shown as running, `begun' is.
reported(e, ended, begun) ==
  IF isCurrentEpoch(e)
  THEN /\ strip' = (strip \ ended) \cup begun
       /\ stripOf' = stripOf \cup {e}
  ELSE UNCHANGED stripVars

latchAfter_Unconditional(e) == FALSE  \* mutant: a superseded run releases it too

\* The latch after a run of epoch e is over.
latchAfter(e) == running /\ ~isCurrentEpoch(e)

runOver(e) == runs' = [runs EXCEPT ![e] = "none"] /\ running' = latchAfter(e)

\* The stage a new run shows in the turn it starts in.
firstShown == IF cfg = {} THEN {} ELSE {"services"}

\* No-op while a run is out.  A light run leaves the stages it skips alone.
run(full) ==
  IF running
  THEN UNCHANGED <<configVars, runVars>>
  ELSE /\ running' = TRUE
       /\ ensureLoaded(cfg)
       /\ runs' = [runs EXCEPT ![epoch] = IF cfg = {} THEN "config" ELSE "services"]
       /\ strip' = (IF full THEN {} ELSE strip) \cup firstShown
       /\ stripOf' = IF cfg = {} THEN stripOf ELSE stripOf \cup {epoch}
       /\ UNCHANGED metricsOf

\* The run goes on to the stage it awaits next.
goesOn(e, next) ==
  /\ reported(e, {runs[e]}, {next})
  /\ runs' = [runs EXCEPT ![e] = next]
  /\ UNCHANGED running

\* A light run starts over with `services', a full one with `templates' after it.
servicesEnd(e) == runs[e] = "services" /\ goesOn(e, "topologies") /\ UNCHANGED metricsOf

topologiesEnd(e) == runs[e] = "topologies" /\ goesOn(e, "hierarchy") /\ UNCHANGED metricsOf

\* The metrics stage empties the store; it reads when some service has a metric.
metricsBegin(e) ==
  /\ runs[e] = "hierarchy" /\ isCurrentEpoch(e) /\ cfg # {}
  /\ goesOn(e, "metrics") /\ metricsOf' = {e}

\* Nothing to read, no configuration, or a superseded run: the stage is over.
metricsSkipped(e) ==
  /\ runs[e] = "hierarchy" /\ reported(e, {"hierarchy"}, {})
  /\ metricsOf' = IF isCurrentEpoch(e) THEN {} ELSE metricsOf
  /\ runOver(e)

metricsLand(e) ==
  /\ runs[e] = "metrics" /\ reported(e, {"metrics"}, {})
  /\ metricsOf' = IF isCurrentEpoch(e) THEN metricsOf \cup {e} ELSE metricsOf
  /\ runOver(e)

stageThrows_StartsOver(e) ==  \* mutant: a failed stage has the run start again
  runs[e] \in Awaiting /\ goesOn(e, "services") /\ UNCHANGED metricsOf

\* The first stage that throws ends the run.
stageThrows(e) ==
  /\ runs[e] \in Awaiting /\ reported(e, {runs[e]}, {}) /\ UNCHANGED metricsOf
  /\ runOver(e)

stageEnds(e) ==
  /\ \/ servicesEnd(e) \/ topologiesEnd(e) \/ metricsBegin(e) \/ metricsSkipped(e)
     \/ metricsLand(e) \/ stageThrows(e)
  /\ UNCHANGED <<epoch, authVars, configVars, alarmVars, view>>

\* A configuration request of epoch e is answered; everyone who awaits it goes
\* on, a run even when it failed.
configAnswered(e, ok) ==
  /\ e \in fetches /\ fetches' = fetches \ {e}
  /\ IF isCurrentEpoch(e)
     THEN cfg' = (IF ok THEN {e} ELSE cfg) /\ loading' = FALSE
     ELSE UNCHANGED <<cfg, loading>>
  /\ view' = [v \in Views |->
       IF ~(view[v].at = "config" /\ view[v].on = e) THEN view[v]
       ELSE IF ok \/ view[v].mounted
            THEN [view[v] EXCEPT !.at = IF ok THEN "menu" ELSE "failed"]
            ELSE noView]
  /\ IF runs[e] = "config"
     THEN goesOn(e, "services") /\ UNCHANGED metricsOf
     ELSE UNCHANGED runVars
  /\ UNCHANGED <<epoch, authVars, alarmVars>>

-----------------------------------------------------------------------------
(***************************************************************************)
(* The alarms                                                              *)
(***************************************************************************)
\* The scene is mounted, or its minute is over.
pollAlarms ==
  /\ \E v \in Views : view[v].mounted /\ view[v].at = "ready"
  /\ ~polling /\ polling' = TRUE /\ polls' = polls \cup {epoch}
  /\ UNCHANGED <<epoch, authVars, configVars, runVars, alarmsOf, view>>

alarmsAnswered(e, ok) ==
  /\ e \in polls /\ polls' = polls \ {e}
  /\ IF isCurrentEpoch(e)
     THEN alarmsOf' = (IF ok THEN {e} ELSE alarmsOf) /\ polling' = FALSE
     ELSE UNCHANGED <<alarmsOf, polling>>
  /\ UNCHANGED <<epoch, authVars, configVars, runVars, view>>

-----------------------------------------------------------------------------
(***************************************************************************)
(* The view and its loader                                                 *)
(***************************************************************************)
\* onMounted, up to the wait for the configuration, or for the layer menu.
mountView(v) ==
  /\ user /\ view[v].at = "gone" /\ \A w \in Views : ~view[w].mounted
  /\ ensureLoaded(cfg)
  /\ view' = [view EXCEPT ![v] = [at |-> IF cfg = {} THEN "config" ELSE "menu",
                                  on |-> epoch, mounted |-> TRUE, timer |-> FALSE]]
  /\ UNCHANGED <<epoch, authVars, runVars, alarmVars>>

\* The rest of onMounted, which does not ask whether the view is still there.
menuReady(v) ==
  /\ view[v].at = "menu"
  /\ view' = [view EXCEPT ![v].at = "ready", ![v].timer = TRUE]
  /\ run(TRUE)
  /\ UNCHANGED <<epoch, authVars, alarmVars>>

\* The refresh button.
refreshMapNow(v) ==
  /\ view[v].mounted /\ view[v].at = "ready"
  /\ run(TRUE)
  /\ UNCHANGED <<epoch, authVars, alarmVars, view>>

\* The minute is over: a light run, and the next timeout.
refreshTimer(v) ==
  /\ view[v].timer /\ run(FALSE)
  /\ UNCHANGED <<epoch, authVars, alarmVars, view>>

unmountView(v) ==
  /\ view[v].mounted
  /\ view' = [view EXCEPT ![v] = IF @.at \in {"config", "menu"}
                                 THEN [@ EXCEPT !.mounted = FALSE] ELSE noView]
  /\ UNCHANGED <<epoch, authVars, configVars, runVars, alarmVars>>

-----------------------------------------------------------------------------
Identity == login \/ loginAnswered \/ endSession
Reads == \E e \in Epochs :
  \/ stageEnds(e)
  \/ \E ok \in BOOLEAN : configAnswered(e, ok) \/ alarmsAnswered(e, ok)
MapOperator == \E v \in Views :
  \/ mountView(v) \/ menuReady(v) \/ refreshMapNow(v) \/ refreshTimer(v)
  \/ unmountView(v)

MapNext == Identity \/ Reads \/ MapOperator \/ refreshConfig \/ pollAlarms

MapSpec == MapInit /\ [][MapNext]_mapVars

(***************************************************************************)
(* Every request is answered: the browser ends one that the server leaves. *)
(***************************************************************************)
MapLiveSpec ==
  /\ MapSpec
  /\ \A e \in Epochs :
       /\ WF_mapVars(stageEnds(e))
       /\ WF_mapVars(\E ok \in BOOLEAN : configAnswered(e, ok))
       /\ WF_mapVars(\E ok \in BOOLEAN : alarmsAnswered(e, ok))

-----------------------------------------------------------------------------
(***************************************************************************)
(* Properties                                                              *)
(***************************************************************************)
\* The values the module-level refs range over.
MapTypeOK ==
  /\ epoch \in Epochs /\ user \in BOOLEAN /\ loginOut \in BOOLEAN
  /\ cfg \subseteq Epochs /\ loading \in BOOLEAN /\ fetches \subseteq Epochs
  /\ running \in BOOLEAN /\ strip \subseteq Awaiting /\ stripOf \subseteq Epochs
  /\ runs \in [Epochs -> Awaiting \cup {"none", "config"}]
  /\ metricsOf \subseteq Epochs
  /\ alarmsOf \subseteq Epochs /\ polling \in BOOLEAN /\ polls \subseteq Epochs
  /\ view \in [Views -> [at : {"gone", "config", "menu", "ready", "failed"}, on : Epochs,
                         mounted : BOOLEAN, timer : BOOLEAN]]

\* What the map's stores hold was read under the generation that is live now:
\* a read in flight at an identity change cannot repopulate them afterwards
\* (the guarantee of sessionReset.ts, l. 24-28).
ThisSessionOnly == cfg \cup stripOf \cup metricsOf \cup alarmsOf \subseteq {epoch}

\* A latch is held exactly by a live call of this session: never by one that
\* was superseded, never cleared by one, so a new session is neither blocked by
\* the last one's run nor joined by a second run of its own, and the strip
\* shows as running exactly the stage that is.
LatchExact ==
  /\ running <=> runs[epoch] # "none"
  /\ loading <=> epoch \in fetches
  /\ polling <=> epoch \in polls
  /\ loading => cfg = {}
  /\ strip = {runs[epoch]} \cap Awaiting
  /\ \A e \in Epochs : runs[e] = "config" => e \in fetches
  /\ \A v \in Views : view[v].at = "config" => view[v].on \in fetches

\* No run, superseded or failed at any stage, leaves the latch set behind it
\* and the map without another run.
LatchReleased == running ~> ~running
=============================================================================
