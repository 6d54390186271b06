-------------------------- MODULE WebClient_proofs --------------------------
(***************************************************************************)
(* What the parts of the web client that keep state across requests        *)
(* guarantee: the refresh scheduler, the 3D map across sign-ins, and the   *)
(* live debugger's capture, each for any value of its constants.  They     *)
(* share a tab and no variable, so each has a specification and an         *)
(* invariant of its own.                                                   *)
(***************************************************************************)
EXTENDS AutoRefresh, InfraMap, DebugSession, TLAPS

-----------------------------------------------------------------------------
(***************************************************************************)
(* The refresh scheduler                                                   *)
(*                                                                         *)
(* For any set of suspension reasons and any number of waiters.            *)
(***************************************************************************)
RefreshIInv == RefreshTypeOK /\ TimerExact /\ NothingForgotten

\* A fresh store has its timer armed if the tab is visible, and no round.
LEMMA RefreshInitIInv == RefreshInit => RefreshIInv
<1> SUFFICES ASSUME RefreshInit PROVE RefreshIInv
  OBVIOUS
<1>1. 0 \in 0..MaxWaiters
  BY BoundsAssumption
<1>2. RefreshTypeOK
  BY <1>1 DEF RefreshInit, RefreshTypeOK
<1>3. TimerExact
  <2>1. timer = tabVisible /\ effectiveEnabled = tabVisible /\ busy = FALSE
    BY DEF RefreshInit, effectiveEnabled, suspended
  <2> QED
    BY <2>1 DEF TimerExact
<1>4. NothingForgotten
  BY DEF RefreshInit, NothingForgotten
<1> QED
  BY <1>2, <1>3, <1>4 DEF RefreshIInv

\* A trigger begins a round or is remembered behind one.
LEMMA RunRound ==
  ASSUME RefreshIInv, NEW t \in RefreshTriggers, runRound(t), UNCHANGED waiters,
         timer => effectiveEnabled' /\ ~busy',
         enabled' \in BOOLEAN, suspendedBy' \subseteq Reasons,
         tabVisible' \in BOOLEAN, busy' \in BOOLEAN
  PROVE  RefreshIInv'
<1>1. CASE roundRunning
  BY <1>1 DEF runRound, coalesced, RefreshIInv, RefreshTypeOK, TimerExact, NothingForgotten, roundRunning,
     effectiveEnabled, suspended, RefreshTriggers, OperatorTriggers
<1>2. CASE ~roundRunning
  <2>1. tickCount' \in {0, 1}
    BY <1>2 DEF runRound, runRoundInner, RefreshIInv, RefreshTypeOK
  <2>2. /\ round' = t /\ aborted' = FALSE /\ timer' = FALSE /\ trailing' = trailing
    BY <1>2 DEF runRound, runRoundInner, clearMainTimer
  <2>3. roundRunning'
    BY <2>2 DEF roundRunning, RefreshTriggers, OperatorTriggers
  <2> QED
    BY <2>1, <2>2, <2>3 DEF RefreshIInv, RefreshTypeOK, TimerExact, NothingForgotten
<1> QED
  BY <1>1, <1>2

\* The end of a round begins the remembered one, or leaves the page idle with
\* its timer armed as the gates allow and nobody waiting.
LEMMA FinishRound ==
  ASSUME RefreshIInv, roundRunning, finishRound
  PROVE  RefreshIInv'
<1>1. UNCHANGED gateVars /\ trailing' = "none"
  BY DEF finishRound
<1>2. CASE stillWanted(trailing)
  <2>1. /\ round' = trailing /\ aborted' = FALSE /\ timer' = FALSE /\ waiters' = waiters
        /\ tickCount' = (tickCount + 1) % 2 /\ trailing # "none"
    BY <1>2 DEF finishRound, runRoundInner, clearMainTimer, stillWanted
  <2>2. tickCount' \in {0, 1}
    BY <2>1 DEF RefreshIInv, RefreshTypeOK
  <2>3. roundRunning'
    BY <2>1 DEF roundRunning
  <2> QED
    BY <1>1, <2>1, <2>2, <2>3 DEF RefreshIInv, RefreshTypeOK, TimerExact, NothingForgotten, gateVars
<1>3. CASE ~stillWanted(trailing)
  <2>1. /\ round' = "none" /\ aborted' = FALSE /\ tickCount' = tickCount
        /\ timer' = (effectiveEnabled' /\ ~busy') /\ waiters' = 0
    BY <1>3 DEF finishRound, startMainTimer, notifyIdle
  <2>2. timer' \in BOOLEAN
    BY <2>1 DEF effectiveEnabled
  <2>3. RefreshTypeOK'
    <3>1. waiters' \in 0..MaxWaiters
      BY <2>1, BoundsAssumption
    <3> QED
      BY <1>1, <2>1, <2>2, <3>1 DEF RefreshIInv, RefreshTypeOK, gateVars
  <2>4. TimerExact' /\ NothingForgotten'
    BY <1>1, <2>1 DEF TimerExact, NothingForgotten, roundRunning
  <2> QED
    BY <2>3, <2>4 DEF RefreshIInv
<1> QED
  BY <1>2, <1>3

\* A gate that moves without a round: the timer follows it.
LEMMA GateMoves ==
  ASSUME RefreshIInv, UNCHANGED <<roundVars, waiters>>, timer' \in BOOLEAN,
         enabled' \in BOOLEAN, suspendedBy' \subseteq Reasons,
         tabVisible' \in BOOLEAN, busy' \in BOOLEAN,
         timer' <=> effectiveEnabled' /\ ~busy'
  PROVE  RefreshIInv'
BY DEF RefreshIInv, RefreshTypeOK, TimerExact, NothingForgotten, roundRunning, roundVars

\* Every step keeps the invariant, one handler at a time.
LEMMA RefreshStepIInv ==
  ASSUME RefreshIInv, [RefreshNext]_refreshVars
  PROVE  RefreshIInv'
<1> USE DEF RefreshIInv
<1>1. RefreshTypeOK
  OBVIOUS
<1>2. CASE timeout
  <2>1. runRound("auto") /\ UNCHANGED <<gateVars, waiters>>
    BY <1>2 DEF timeout
  <2>2. timer => effectiveEnabled' /\ ~busy'
    BY <2>1 DEF TimerExact, effectiveEnabled, suspended, gateVars
  <2> QED
    BY <1>1, <2>1, <2>2, RunRound DEF RefreshTriggers, gateVars, RefreshTypeOK
<1>3. CASE roundSettled \/ graceOver
  BY <1>3, FinishRound DEF roundSettled, graceOver
<1>4. CASE roundCapped
  BY <1>1, <1>4 DEF roundCapped, capFires, gateVars, RefreshTypeOK, TimerExact, NothingForgotten,
     roundRunning, effectiveEnabled, suspended
<1>5. CASE refreshNow
  <2>1. PICK t \in OperatorTriggers : runRound(t)
    BY <1>5 DEF refreshNow
  <2>2. UNCHANGED <<gateVars, waiters>> /\ t \in RefreshTriggers
    BY <1>5 DEF refreshNow, RefreshTriggers
  <2>3. timer => effectiveEnabled' /\ ~busy'
    BY <2>2 DEF TimerExact, effectiveEnabled, suspended, gateVars
  <2> QED
    BY <1>1, <2>1, <2>2, <2>3, RunRound DEF gateVars, RefreshTypeOK
<1>6. CASE setInterval
  BY <1>1, <1>6, GateMoves DEF setInterval, startMainTimer, RefreshTypeOK, effectiveEnabled
<1>7. CASE setEnabled
  <2>1. /\ enabled' = ~enabled /\ enabled' \in BOOLEAN
        /\ UNCHANGED <<suspendedBy, tabVisible, busy, waiters>>
    BY <1>7 DEF setEnabled
  <2>2. CASE ~enabled'
    <3>1. timer' = FALSE /\ UNCHANGED roundVars
      BY <1>7, <2>2 DEF setEnabled, clearMainTimer
    <3> QED
      BY <1>1, <2>1, <2>2, <3>1, GateMoves DEF effectiveEnabled, RefreshTypeOK
  <2>3. CASE enabled' /\ (suspended \/ ~tabVisible)
    <3>1. timer' = (effectiveEnabled' /\ ~busy') /\ UNCHANGED roundVars
      BY <1>7, <2>3 DEF setEnabled, enableRefresh, startMainTimer
    <3> QED
      BY <1>1, <2>1, <3>1, GateMoves DEF effectiveEnabled, RefreshTypeOK
  <2>4. CASE enabled' /\ ~(suspended \/ ~tabVisible)
    <3>1. runRound("resume")
      BY <1>7, <2>4 DEF setEnabled, enableRefresh
    <3>2. timer => effectiveEnabled' /\ ~busy'
      <4>1. enabled = FALSE
        BY <1>1, <2>1, <2>4 DEF RefreshTypeOK
      <4> QED
        BY <4>1 DEF TimerExact, effectiveEnabled
    <3> QED
      BY <1>1, <2>1, <3>1, <3>2, RunRound DEF RefreshTriggers, RefreshTypeOK
  <2> QED
    BY <2>2, <2>3, <2>4
<1>8. CASE whenIdle
  <2>1. waiters' \in 0..MaxWaiters /\ UNCHANGED <<gateVars, timer, roundVars>> /\ roundRunning
    BY <1>1, <1>8, BoundsAssumption DEF whenIdle, RefreshTypeOK, NothingForgotten
  <2> QED
    BY <1>1, <2>1 DEF gateVars, roundVars, RefreshTypeOK, TimerExact, NothingForgotten, roundRunning,
       effectiveEnabled, suspended
<1>9. CASE trafficChanged
  <2>1. /\ busy' = ~busy /\ busy' \in BOOLEAN
        /\ UNCHANGED <<enabled, suspendedBy, tabVisible, roundVars, waiters>>
    BY <1>9 DEF trafficChanged
  <2>2. timer' = (effectiveEnabled' /\ ~busy')
    BY <1>9 DEF trafficChanged, clearMainTimer, startMainTimer
  <2> QED
    BY <1>1, <2>1, <2>2, GateMoves DEF effectiveEnabled, RefreshTypeOK
<1>10. CASE onVisibilityChange
  <2>1. /\ tabVisible' = ~tabVisible /\ tabVisible' \in BOOLEAN
        /\ UNCHANGED <<enabled, suspendedBy, busy, waiters>>
    BY <1>10 DEF onVisibilityChange
  <2>2. CASE ~tabVisible'
    <3>1. timer' = FALSE /\ UNCHANGED roundVars
      BY <1>10, <2>2 DEF onVisibilityChange, clearMainTimer
    <3> QED
      BY <1>1, <2>1, <2>2, <3>1, GateMoves DEF effectiveEnabled, RefreshTypeOK
  <2>3. CASE tabVisible'
    <3>1. timer = FALSE
      BY <1>1, <2>1, <2>3 DEF TimerExact, effectiveEnabled, RefreshTypeOK
    <3>2. CASE ~suspended /\ enabled
      <4>1. runRound("visibility")
        BY <1>10, <2>3, <3>2 DEF onVisibilityChange
      <4> QED
        BY <1>1, <2>1, <3>1, <4>1, RunRound DEF RefreshTriggers, RefreshTypeOK
    <3>3. CASE ~(~suspended /\ enabled)
      <4>1. UNCHANGED <<timer, roundVars>>
        BY <1>10, <2>3, <3>3 DEF onVisibilityChange
      <4> QED
        BY <1>1, <2>1, <3>1, <3>3, <4>1, GateMoves DEF effectiveEnabled, suspended, RefreshTypeOK
    <3> QED
      BY <3>2, <3>3
  <2> QED
    BY <2>2, <2>3
<1>11. ASSUME NEW r \in Reasons, suspend(r)
       PROVE  RefreshIInv'
  <2>1. /\ suspendedBy' \subseteq Reasons /\ suspendedBy' # {} /\ timer' = FALSE
        /\ UNCHANGED <<enabled, tabVisible, busy, roundVars, waiters>>
    BY <1>1, <1>11 DEF suspend, clearMainTimer, RefreshTypeOK
  <2> QED
    BY <1>1, <2>1, GateMoves DEF effectiveEnabled, suspended, RefreshTypeOK
<1>12. ASSUME NEW r \in Reasons, resume(r)
       PROVE  RefreshIInv'
  <2>1. /\ r \in suspendedBy /\ suspendedBy' = suspendedBy \ {r}
        /\ UNCHANGED <<enabled, tabVisible, busy, waiters>>
    BY <1>12 DEF resume
  <2>2. timer = FALSE
    BY <1>1, <2>1 DEF TimerExact, effectiveEnabled, suspended, RefreshTypeOK
  <2>3. CASE lastHolder(r) /\ enabled
    <3>1. runRound("resume")
      BY <1>12, <2>3 DEF resume
    <3> QED
      BY <1>1, <2>1, <2>2, <3>1, RunRound DEF RefreshTriggers, RefreshTypeOK
  <2>4. CASE ~(lastHolder(r) /\ enabled)
    <3>1. UNCHANGED <<timer, roundVars>> /\ (suspendedBy' # {} \/ ~enabled)
      BY <1>12, <2>1, <2>4 DEF resume, lastHolder
    <3> QED
      BY <1>1, <2>1, <2>2, <3>1, GateMoves DEF effectiveEnabled, suspended, RefreshTypeOK
  <2> QED
    BY <2>3, <2>4
<1>13. CASE UNCHANGED refreshVars
  BY <1>1, <1>13 DEF refreshVars, gateVars, roundVars, RefreshTypeOK, TimerExact, NothingForgotten,
     roundRunning, effectiveEnabled, suspended
<1> QED
  BY <1>2, <1>3, <1>4, <1>5, <1>6, <1>7, <1>8, <1>9, <1>10, <1>11, <1>12, <1>13
     DEF RefreshNext, Rounds, RefreshOperator, Surroundings

-----------------------------------------------------------------------------
\* The invariant holds in every reachable state.
LEMMA RefreshInvariance == RefreshSpec => []RefreshIInv
BY RefreshInitIInv, RefreshStepIInv, PTL DEF RefreshSpec

\* Every ref of the store keeps its type.
THEOREM RefreshTypeCorrect == RefreshSpec => []RefreshTypeOK
BY RefreshInvariance, PTL DEF RefreshIInv

\* Between rounds the timer is armed exactly when the page is watched, switched
\* on, unsuspended and quiet, and it is never armed against one of these.
THEOREM TimerIsExact == RefreshSpec => []TimerExact
BY RefreshInvariance, PTL DEF RefreshIInv

\* An idle page has no trigger left behind and nobody waiting for it.
THEOREM NothingIsForgotten == RefreshSpec => []NothingForgotten
BY RefreshInvariance, PTL DEF RefreshIInv

-----------------------------------------------------------------------------
(***************************************************************************)
(* The 3D map across sign-ins                                              *)
(*                                                                         *)
(* For any number of mounts and of superseded generations with calls out.  *)
(***************************************************************************)
MapIInv == MapTypeOK /\ ThisSessionOnly /\ LatchExact

Stops == Awaiting \cup {"none", "config"}

\* A freshly loaded page holds nothing and has nothing out.
LEMMA MapInitIInv == MapInit => MapIInv
<1> SUFFICES ASSUME MapInit PROVE MapIInv
  OBVIOUS
<1>1. 0 \in Epochs
  BY GenerationsAssumption DEF Epochs
<1>2. MapTypeOK
  BY <1>1 DEF MapInit, MapTypeOK, noView, Awaiting
<1>3. ThisSessionOnly
  BY DEF MapInit, ThisSessionOnly
<1>4. LatchExact
  BY <1>1 DEF MapInit, LatchExact, noView, Awaiting
<1> QED
  BY <1>2, <1>3, <1>4 DEF MapIInv

\* The next generation is one, and nothing of it is out yet.
LEMMA Reset ==
  ASSUME MapIInv, resetSessionState, user' \in BOOLEAN, loginOut' \in BOOLEAN
  PROVE  MapIInv'
<1>1. epoch' \in Epochs
  BY GenerationsAssumption DEF MapIInv, MapTypeOK, resetSessionState, successor, Epochs
<1>2. /\ epoch' \notin fetches' \cup polls' /\ runs'[epoch'] = "none"
      /\ cfg' = {} /\ loading' = FALSE /\ running' = FALSE /\ strip' = {} /\ stripOf' = {}
      /\ metricsOf' = {} /\ alarmsOf' = {} /\ polling' = FALSE
      /\ UNCHANGED <<fetches, runs, polls, view>>
  BY DEF resetSessionState, resetConfig
<1>3. MapTypeOK'
  BY <1>1, <1>2 DEF MapIInv, MapTypeOK
<1>4. ThisSessionOnly'
  BY <1>2 DEF ThisSessionOnly
<1>5. LatchExact'
  BY <1>2 DEF MapIInv, LatchExact, Awaiting
<1> QED
  BY <1>3, <1>4, <1>5 DEF MapIInv

\* Where the stores of the configuration and of the runs are left alone, the
\* invariant rests on the rest.
LEMMA StoresUntouched ==
  ASSUME MapIInv, UNCHANGED <<epoch, configVars, runVars, alarmVars, view>>,
         user' \in BOOLEAN, loginOut' \in BOOLEAN
  PROVE  MapIInv'
  BY DEF MapIInv, MapTypeOK, ThisSessionOnly, LatchExact, configVars, runVars, stripVars, alarmVars

\* A run of epoch e goes on to its next await: only the current one writes.
LEMMA GoesOn ==
  ASSUME MapIInv, NEW e \in Epochs, NEW next \in Awaiting, runs[e] # "none", goesOn(e, next),
         UNCHANGED epoch
  PROVE  /\ runs' \in [Epochs -> Stops] /\ strip' \subseteq Awaiting /\ stripOf' \subseteq Epochs
         /\ stripOf' \subseteq {epoch}
         /\ UNCHANGED running /\ (running' <=> runs'[epoch] # "none")
         /\ strip' = {runs'[epoch]} \cap Awaiting
         /\ \A d \in Epochs : runs'[d] = "config" => d # e /\ runs[d] = "config"
<1>1. runs' = [runs EXCEPT ![e] = next] /\ running' = running
  BY DEF goesOn
<1>2. runs' \in [Epochs -> Stops] /\ \A d \in Epochs : runs'[d] = IF d = e THEN next ELSE runs[d]
  BY <1>1 DEF MapIInv, MapTypeOK, Stops
<1>3. epoch \in Epochs /\ strip = {runs[epoch]} \cap Awaiting /\ (running <=> runs[epoch] # "none")
      /\ stripOf \subseteq {epoch}
  BY DEF MapIInv, MapTypeOK, ThisSessionOnly, LatchExact
<1>4. next # "none" /\ next # "config"
  BY DEF Awaiting
<1>5. CASE e = epoch
  <2>1. strip' = (strip \ {runs[e]}) \cup {next} /\ stripOf' = stripOf \cup {e}
    BY <1>5 DEF goesOn, reported, isCurrentEpoch
  <2>2. strip' = {next}
    BY <2>1, <1>3, <1>5
  <2> QED
    BY <2>1, <2>2, <1>1, <1>2, <1>3, <1>4, <1>5
<1>6. CASE e # epoch
  <2>1. strip' = strip /\ stripOf' = stripOf
    BY <1>6 DEF goesOn, reported, isCurrentEpoch, stripVars
  <2> QED
    BY <2>1, <1>1, <1>2, <1>3, <1>4, <1>6
<1> QED
  BY <1>5, <1>6

\* A run of epoch e is over: the latch goes with it only if it is the current one's.
LEMMA RunOver ==
  ASSUME MapIInv, NEW e \in Epochs, runs[e] \in Awaiting, reported(e, {runs[e]}, {}), runOver(e),
         UNCHANGED epoch
  PROVE  /\ runs' \in [Epochs -> Stops] /\ strip' \subseteq Awaiting /\ stripOf' \subseteq Epochs
         /\ stripOf' \subseteq {epoch}
         /\ running' \in BOOLEAN /\ (running' <=> runs'[epoch] # "none")
         /\ strip' = {runs'[epoch]} \cap Awaiting
         /\ \A d \in Epochs : runs'[d] = "config" => runs[d] = "config"
<1>1. runs' = [runs EXCEPT ![e] = "none"] /\ running' = (running /\ e # epoch)
  BY DEF runOver, latchAfter, isCurrentEpoch
<1>2. runs' \in [Epochs -> Stops] /\ \A d \in Epochs : runs'[d] = IF d = e THEN "none" ELSE runs[d]
  BY <1>1 DEF MapIInv, MapTypeOK, Stops
<1>3. epoch \in Epochs /\ strip = {runs[epoch]} \cap Awaiting /\ (running <=> runs[epoch] # "none")
      /\ stripOf \subseteq {epoch} /\ running \in BOOLEAN
  BY DEF MapIInv, MapTypeOK, ThisSessionOnly, LatchExact
<1>4. "none" \notin Awaiting
  BY DEF Awaiting
<1>5. CASE e = epoch
  <2>1. strip' = (strip \ {runs[e]}) \cup {} /\ stripOf' = stripOf \cup {e}
    BY <1>5 DEF reported, isCurrentEpoch
  <2>2. strip' = {}
    BY <2>1, <1>3, <1>5
  <2>3. runs'[epoch] = "none" /\ running' = FALSE
    BY <1>1, <1>2, <1>3, <1>5
  <2>4. strip' = {runs'[epoch]} \cap Awaiting
    BY <2>2, <2>3, <1>4
  <2>5. stripOf' \subseteq {epoch} /\ stripOf' \subseteq Epochs
    BY <2>1, <1>3, <1>5
  <2>6. \A d \in Epochs : runs'[d] = "config" => runs[d] = "config"
    BY <1>2
  <2> QED
    BY <2>2, <2>3, <2>4, <2>5, <2>6, <1>2
<1>6. CASE e # epoch
  <2>1. strip' = strip /\ stripOf' = stripOf
    BY <1>6 DEF reported, isCurrentEpoch, stripVars
  <2> QED
    BY <2>1, <1>1, <1>2, <1>3, <1>4, <1>6
<1> QED
  BY <1>5, <1>6

\* An await of a run ends: what it publishes is its own session's.
LEMMA StageEnds ==
  ASSUME MapIInv, NEW e \in Epochs, stageEnds(e)
  PROVE  MapIInv'
<1>1. UNCHANGED <<epoch, authVars, configVars, alarmVars, view>>
  BY DEF stageEnds
<1>2. /\ runs' \in [Epochs -> Stops] /\ strip' \subseteq Awaiting /\ stripOf' \subseteq Epochs
      /\ stripOf' \subseteq {epoch}
      /\ running' \in BOOLEAN /\ (running' <=> runs'[epoch] # "none")
      /\ strip' = {runs'[epoch]} \cap Awaiting
      /\ \A d \in Epochs : runs'[d] = "config" => runs[d] = "config"
  <2>0. running \in BOOLEAN
    BY DEF MapIInv, MapTypeOK
  <2>1. CASE servicesEnd(e)
    BY <2>0, <2>1, <1>1, GoesOn DEF servicesEnd, Awaiting
  <2>2. CASE topologiesEnd(e)
    BY <2>0, <2>2, <1>1, GoesOn DEF topologiesEnd, Awaiting
  <2>3. CASE metricsBegin(e)
    BY <2>0, <2>3, <1>1, GoesOn DEF metricsBegin, Awaiting
  <2>4. CASE metricsSkipped(e)
    BY <2>4, <1>1, RunOver DEF metricsSkipped, Awaiting
  <2>5. CASE metricsLand(e)
    BY <2>5, <1>1, RunOver DEF metricsLand, Awaiting
  <2>6. CASE stageThrows(e)
    BY <2>6, <1>1, RunOver DEF stageThrows
  <2> QED
    BY <2>1, <2>2, <2>3, <2>4, <2>5, <2>6 DEF stageEnds
<1>3. metricsOf' \subseteq Epochs /\ metricsOf' \subseteq {epoch}
  BY DEF stageEnds, servicesEnd, topologiesEnd, metricsBegin, metricsSkipped, metricsLand,
     stageThrows, isCurrentEpoch, MapIInv, MapTypeOK, ThisSessionOnly
<1> QED
  BY <1>1, <1>2, <1>3 DEF MapIInv, MapTypeOK, ThisSessionOnly, LatchExact, Stops, authVars, configVars,
     alarmVars

\* Reading the configuration: the slot is taken exactly while a request of this
\* session is out, and nothing is kept of it meanwhile.
LEMMA EnsureLoaded ==
  ASSUME MapIInv, NEW held \in {cfg, {}}, ensureLoaded(held), UNCHANGED epoch
  PROVE  /\ cfg' \subseteq Epochs /\ cfg' \subseteq {epoch} /\ loading' \in BOOLEAN
         /\ fetches' \subseteq Epochs /\ fetches \subseteq fetches'
         /\ (loading' <=> epoch \in fetches') /\ (loading' => cfg' = {})
         /\ (held = {} => epoch \in fetches')
<1>1. /\ cfg \subseteq Epochs /\ cfg \subseteq {epoch} /\ loading \in BOOLEAN /\ epoch \in Epochs
      /\ fetches \subseteq Epochs /\ (loading <=> epoch \in fetches) /\ (loading => cfg = {})
  BY DEF MapIInv, MapTypeOK, ThisSessionOnly, LatchExact
<1>2. CASE held # {} \/ loading
  <2>1. cfg' = held /\ loading' = loading /\ fetches' = fetches
    BY <1>2 DEF ensureLoaded
  <2> QED
    BY <2>1, <1>1, <1>2
<1>3. CASE ~(held # {} \/ loading)
  <2>1. cfg' = held /\ loading' = TRUE /\ fetches' = fetches \cup {epoch}
    BY <1>3 DEF ensureLoaded
  <2> QED
    BY <2>1, <1>1, <1>3
<1> QED
  BY <1>2, <1>3

\* A run that may start finds no other of its session; one that may not does nothing.
LEMMA Run ==
  ASSUME MapIInv, NEW full \in BOOLEAN, run(full), UNCHANGED <<epoch, authVars, alarmVars>>,
         view' \in [Views -> [at : {"gone", "config", "menu", "ready", "failed"}, on : Epochs,
                              mounted : BOOLEAN, timer : BOOLEAN]],
         \A v \in Views : view'[v].at = "config" => view[v].at = "config" /\ view'[v].on = view[v].on
  PROVE  MapIInv'
<1>1. CASE running
  BY <1>1 DEF run, MapIInv, MapTypeOK, ThisSessionOnly, LatchExact, authVars, configVars, runVars,
     stripVars, alarmVars
<1>2. CASE ~running
  <2>1. /\ running' = TRUE /\ ensureLoaded(cfg) /\ metricsOf' = metricsOf
        /\ runs' = [runs EXCEPT ![epoch] = IF cfg = {} THEN "config" ELSE "services"]
        /\ strip' = (IF full THEN {} ELSE strip) \cup firstShown
        /\ stripOf' = IF cfg = {} THEN stripOf ELSE stripOf \cup {epoch}
    BY <1>2 DEF run
  <2>2. /\ epoch \in Epochs /\ strip = {runs[epoch]} \cap Awaiting /\ runs[epoch] = "none"
        /\ stripOf \subseteq {epoch} /\ runs \in [Epochs -> Stops]
    BY <1>2 DEF MapIInv, MapTypeOK, ThisSessionOnly, LatchExact, Stops
  <2>3. strip = {}
    BY <2>2 DEF Awaiting
  <2>4. /\ cfg' \subseteq Epochs /\ cfg' \subseteq {epoch} /\ loading' \in BOOLEAN
        /\ fetches' \subseteq Epochs /\ fetches \subseteq fetches'
        /\ (loading' <=> epoch \in fetches') /\ (loading' => cfg' = {})
        /\ (cfg = {} => epoch \in fetches')
    BY <2>1, EnsureLoaded
  <2>5. /\ \A d \in Epochs : runs'[d] = IF d # epoch THEN runs[d]
                                        ELSE IF cfg = {} THEN "config" ELSE "services"
        /\ runs' \in [Epochs -> Stops]
    BY <2>1, <2>2 DEF Stops, Awaiting
  <2>6. strip' = {runs'[epoch]} \cap Awaiting /\ runs'[epoch] # "none" /\ strip' \subseteq Awaiting
    <3>1. CASE cfg = {}
      BY <3>1, <2>1, <2>2, <2>3, <2>5 DEF firstShown, Awaiting
    <3>2. CASE cfg # {}
      BY <3>2, <2>1, <2>2, <2>3, <2>5 DEF firstShown, Awaiting
    <3> QED
      BY <3>1, <3>2
  <2>7. \A d \in Epochs : runs'[d] = "config" => d \in fetches'
    BY <2>4, <2>5 DEF MapIInv, LatchExact
  <2>8. stripOf' \subseteq Epochs /\ stripOf' \subseteq {epoch}
    BY <2>1, <2>2
  <2>9. \A v \in Views : view'[v].at = "config" => view'[v].on \in fetches'
    BY <2>4 DEF MapIInv, LatchExact
  <2>10. MapTypeOK'
    BY <2>1, <2>4, <2>5, <2>6, <2>8 DEF MapIInv, MapTypeOK, Stops, authVars, alarmVars
  <2>11. ThisSessionOnly'
    BY <2>1, <2>4, <2>8 DEF MapIInv, ThisSessionOnly, alarmVars
  <2>12. LatchExact'
    BY <2>1, <2>4, <2>6, <2>7, <2>9 DEF MapIInv, LatchExact, alarmVars
  <2> QED
    BY <2>10, <2>11, <2>12 DEF MapIInv
<1> QED
  BY <1>1, <1>2

\* An answer to a superseded request moves on only those who asked for it then.
LEMMA ConfigAnswered ==
  ASSUME MapIInv, NEW e \in Epochs, NEW ok \in BOOLEAN, configAnswered(e, ok)
  PROVE  MapIInv'
<1>1. /\ e \in fetches /\ fetches' = fetches \ {e} /\ UNCHANGED <<epoch, authVars, alarmVars>>
  BY DEF configAnswered
<1>2. /\ cfg' \subseteq Epochs /\ cfg' \subseteq {epoch} /\ loading' \in BOOLEAN
      /\ (loading' <=> epoch \in fetches') /\ (loading' => cfg' = {})
  <2>1. /\ cfg \subseteq Epochs /\ cfg \subseteq {epoch} /\ loading \in BOOLEAN /\ epoch \in Epochs
        /\ (loading <=> epoch \in fetches) /\ (loading => cfg = {})
    BY DEF MapIInv, MapTypeOK, ThisSessionOnly, LatchExact
  <2>2. CASE e = epoch
    <3>1. cfg' = (IF ok THEN {e} ELSE cfg) /\ loading' = FALSE
      BY <2>2 DEF configAnswered, isCurrentEpoch
    <3> QED
      BY <3>1, <2>1, <2>2, <1>1
  <2>3. CASE e # epoch
    <3>1. cfg' = cfg /\ loading' = loading
      BY <2>3 DEF configAnswered, isCurrentEpoch
    <3> QED
      BY <3>1, <2>1, <2>3, <1>1
  <2> QED
    BY <2>2, <2>3
<1>3. /\ runs' \in [Epochs -> Stops] /\ strip' \subseteq Awaiting /\ stripOf' \subseteq Epochs
      /\ stripOf' \subseteq {epoch}
      /\ running' \in BOOLEAN /\ (running' <=> runs'[epoch] # "none")
      /\ strip' = {runs'[epoch]} \cap Awaiting
      /\ \A d \in Epochs : runs'[d] = "config" => d # e /\ runs[d] = "config"
      /\ metricsOf' = metricsOf
  <2>0. running \in BOOLEAN
    BY DEF MapIInv, MapTypeOK
  <2>1. CASE runs[e] = "config"
    <3>1. goesOn(e, "services") /\ metricsOf' = metricsOf
      BY <2>1 DEF configAnswered
    <3> QED
      BY <3>1, <2>0, <2>1, <1>1, GoesOn DEF Awaiting
  <2>2. CASE runs[e] # "config"
    BY <2>2, <1>1 DEF configAnswered, runVars, stripVars, MapIInv, MapTypeOK, ThisSessionOnly,
       LatchExact, Stops
  <2> QED
    BY <2>1, <2>2
<1>4. /\ view' \in [Views -> [at : {"gone", "config", "menu", "ready", "failed"}, on : Epochs,
                              mounted : BOOLEAN, timer : BOOLEAN]]
      /\ \A v \in Views : view'[v].at = "config" => view[v].at = "config" /\ view[v].on # e
                                                    /\ view'[v].on = view[v].on
  <2>1. 0 \in Epochs
    BY GenerationsAssumption DEF Epochs
  <2>2. view' = [v \in Views |->
       IF ~(view[v].at = "config" /\ view[v].on = e) THEN view[v]
       ELSE IF ok \/ view[v].mounted
            THEN [view[v] EXCEPT !.at = IF ok THEN "menu" ELSE "failed"]
            ELSE noView]
    BY DEF configAnswered
  <2> QED
    BY <2>1, <2>2 DEF MapIInv, MapTypeOK, noView
<1>5. MapTypeOK'
  BY <1>1, <1>2, <1>3, <1>4 DEF MapIInv, MapTypeOK, Stops, authVars, alarmVars
<1>6. ThisSessionOnly'
  BY <1>1, <1>2, <1>3 DEF MapIInv, ThisSessionOnly, alarmVars
<1>7. LatchExact'
  BY <1>1, <1>2, <1>3, <1>4 DEF MapIInv, LatchExact, alarmVars
<1> QED
  BY <1>5, <1>6, <1>7 DEF MapIInv

\* The alarms keep to one request of this session at a time.
LEMMA Alarms ==
  ASSUME MapIInv
  PROVE  /\ pollAlarms => MapIInv'
         /\ \A e \in Epochs, ok \in BOOLEAN : alarmsAnswered(e, ok) => MapIInv'
<1>1. ASSUME pollAlarms PROVE MapIInv'
  <2>1. /\ polling' = TRUE /\ polls' = polls \cup {epoch} /\ epoch \in Epochs
        /\ UNCHANGED <<epoch, authVars, configVars, runVars, alarmsOf, view>>
    BY <1>1 DEF pollAlarms, MapIInv, MapTypeOK
  <2> QED
    BY <2>1 DEF MapIInv, MapTypeOK, ThisSessionOnly, LatchExact, authVars, configVars, runVars, stripVars
<1>2. ASSUME NEW e \in Epochs, NEW ok \in BOOLEAN, alarmsAnswered(e, ok) PROVE MapIInv'
  <2>1. /\ e \in polls /\ polls' = polls \ {e}
        /\ UNCHANGED <<epoch, authVars, configVars, runVars, view>>
    BY <1>2 DEF alarmsAnswered
  <2>2. CASE e = epoch
    <3>1. alarmsOf' = (IF ok THEN {e} ELSE alarmsOf) /\ polling' = FALSE
      BY <1>2, <2>2 DEF alarmsAnswered, isCurrentEpoch
    <3>2. MapTypeOK' /\ ThisSessionOnly'
      BY <2>1, <2>2, <3>1 DEF MapIInv, MapTypeOK, ThisSessionOnly, authVars, configVars, runVars, stripVars
    <3>3. LatchExact'
      BY <2>1, <2>2, <3>1 DEF MapIInv, LatchExact, authVars, configVars, runVars, stripVars
    <3> QED
      BY <3>2, <3>3 DEF MapIInv
  <2>3. CASE e # epoch
    <3>1. alarmsOf' = alarmsOf /\ polling' = polling
      BY <1>2, <2>3 DEF alarmsAnswered, isCurrentEpoch
    <3> QED
      BY <2>1, <2>3, <3>1 DEF MapIInv, MapTypeOK, ThisSessionOnly, LatchExact, authVars, configVars,
         runVars, stripVars
  <2> QED
    BY <2>2, <2>3
<1> QED
  BY <1>1, <1>2

\* A mount, the rest of it, the button, the timer and the unmount.
LEMMA ViewSteps ==
  ASSUME MapIInv, NEW v \in Views,
         mountView(v) \/ menuReady(v) \/ refreshMapNow(v) \/ refreshTimer(v) \/ unmountView(v)
  PROVE  MapIInv'
<1> DEFINE ViewType == [at : {"gone", "config", "menu", "ready", "failed"}, on : Epochs,
                        mounted : BOOLEAN, timer : BOOLEAN]
<1>1. view \in [Views -> ViewType] /\ epoch \in Epochs /\ 0 \in Epochs
  BY GenerationsAssumption DEF MapIInv, MapTypeOK, Epochs
<1>2. CASE mountView(v)
  <2>1. /\ ensureLoaded(cfg) /\ UNCHANGED <<epoch, authVars, runVars, alarmVars>>
        /\ view' = [view EXCEPT ![v] = [at |-> IF cfg = {} THEN "config" ELSE "menu",
                                        on |-> epoch, mounted |-> TRUE, timer |-> FALSE]]
    BY <1>2 DEF mountView
  <2>2. /\ cfg' \subseteq Epochs /\ cfg' \subseteq {epoch} /\ loading' \in BOOLEAN
        /\ fetches' \subseteq Epochs /\ fetches \subseteq fetches'
        /\ (loading' <=> epoch \in fetches') /\ (loading' => cfg' = {})
        /\ (cfg = {} => epoch \in fetches')
    BY <2>1, EnsureLoaded
  <2>3. view' \in [Views -> ViewType]
    BY <2>1, <1>1
  <2>4. \A w \in Views : view'[w].at = "config" => view'[w].on \in fetches'
    <3> SUFFICES ASSUME NEW w \in Views, view'[w].at = "config" PROVE view'[w].on \in fetches'
      OBVIOUS
    <3>1. CASE w = v
      BY <3>1, <2>1, <2>2, <1>1
    <3>2. CASE w # v
      BY <3>2, <2>1, <2>2, <1>1 DEF MapIInv, LatchExact
    <3> QED
      BY <3>1, <3>2
  <2>5. MapTypeOK' /\ ThisSessionOnly'
    BY <2>1, <2>2, <2>3 DEF MapIInv, MapTypeOK, ThisSessionOnly, authVars, runVars, stripVars, alarmVars
  <2>6. LatchExact'
    BY <2>1, <2>2, <2>4 DEF MapIInv, LatchExact, runVars, stripVars, alarmVars
  <2> QED
    BY <2>5, <2>6 DEF MapIInv
<1>3. CASE menuReady(v)
  <2>1. /\ run(TRUE) /\ UNCHANGED <<epoch, authVars, alarmVars>>
        /\ view' = [view EXCEPT ![v].at = "ready", ![v].timer = TRUE]
    BY <1>3 DEF menuReady
  <2>2. /\ view' \in [Views -> ViewType]
        /\ \A w \in Views : view'[w].at = "config" => view[w].at = "config" /\ view'[w].on = view[w].on
    BY <2>1, <1>1
  <2> QED
    BY <2>1, <2>2, Run
<1>4. CASE refreshMapNow(v)
  BY <1>1, <1>4, Run DEF refreshMapNow
<1>5. CASE refreshTimer(v)
  BY <1>1, <1>5, Run DEF refreshTimer
<1>6. CASE unmountView(v)
  <2>1. /\ UNCHANGED <<epoch, authVars, configVars, runVars, alarmVars>>
        /\ view' = [view EXCEPT ![v] = IF @.at \in {"config", "menu"}
                                       THEN [@ EXCEPT !.mounted = FALSE] ELSE noView]
    BY <1>6 DEF unmountView
  <2>2. /\ view' \in [Views -> ViewType]
        /\ \A w \in Views : view'[w].at = "config" => view[w].at = "config" /\ view'[w].on = view[w].on
    BY <2>1, <1>1 DEF noView
  <2> QED
    BY <2>1, <2>2 DEF MapIInv, MapTypeOK, ThisSessionOnly, LatchExact, authVars, configVars, runVars,
       stripVars, alarmVars
<1> QED
  BY <1>2, <1>3, <1>4, <1>5, <1>6

\* The admin page drops the snapshot and reads it again.
LEMMA RefreshConfig ==
  ASSUME MapIInv, refreshConfig
  PROVE  MapIInv'
<1>1. ensureLoaded({}) /\ UNCHANGED <<epoch, authVars, runVars, alarmVars, view>>
  BY DEF refreshConfig
<1>2. /\ cfg' \subseteq Epochs /\ cfg' \subseteq {epoch} /\ loading' \in BOOLEAN
      /\ fetches' \subseteq Epochs /\ fetches \subseteq fetches'
      /\ (loading' <=> epoch \in fetches') /\ (loading' => cfg' = {})
  BY <1>1, EnsureLoaded
<1>3. MapTypeOK' /\ ThisSessionOnly'
  BY <1>1, <1>2 DEF MapIInv, MapTypeOK, ThisSessionOnly, authVars, runVars, stripVars, alarmVars
<1>4. LatchExact'
  BY <1>1, <1>2 DEF MapIInv, LatchExact, runVars, stripVars, alarmVars
<1> QED
  BY <1>3, <1>4 DEF MapIInv

\* One step per action.
LEMMA MapStepIInv == MapIInv /\ [MapNext]_mapVars => MapIInv'
<1> SUFFICES ASSUME MapIInv, [MapNext]_mapVars PROVE MapIInv'
  OBVIOUS
<1>0. user \in BOOLEAN /\ loginOut \in BOOLEAN
  BY DEF MapIInv, MapTypeOK
<1>1. CASE login
  <2>1. resetSessionState /\ loginOut' = TRUE /\ user' = user
    BY <1>1 DEF login
  <2> QED
    BY <2>1, <1>0, Reset
<1>2. CASE loginAnswered
  BY <1>0, <1>2, StoresUntouched DEF loginAnswered
<1>3. CASE endSession
  <2>1. resetSessionState /\ loginOut' = loginOut /\ user' = FALSE
    BY <1>3 DEF endSession
  <2> QED
    BY <2>1, <1>0, Reset
<1>4. CASE Reads
  BY <1>4, StageEnds, ConfigAnswered, Alarms DEF Reads
<1>5. CASE MapOperator
  BY <1>5, ViewSteps DEF MapOperator
<1>6. CASE refreshConfig
  BY <1>6, RefreshConfig
<1>7. CASE pollAlarms
  BY <1>7, Alarms
<1>8. CASE UNCHANGED mapVars
  BY <1>0, <1>8, StoresUntouched DEF mapVars, authVars
<1> QED
  BY <1>1, <1>2, <1>3, <1>4, <1>5, <1>6, <1>7, <1>8 DEF MapNext, Identity

\* The invariant holds in every reachable state.
THEOREM MapInvariance == MapSpec => []MapIInv
  BY MapInitIInv, MapStepIInv, PTL DEF MapSpec

\* The module-level refs keep their types, however many mounts are left over.
THEOREM MapTypeCorrect == MapSpec => []MapTypeOK
<1>1. MapIInv => MapTypeOK
  BY DEF MapIInv
<1> QED
  BY <1>1, MapInvariance, PTL

\* No store of the map ever holds what an earlier session read, however many
\* of its requests are still out (sessionReset.ts, l. 24-28).
THEOREM NoEarlierSession == MapSpec => []ThisSessionOnly
<1>1. MapIInv => ThisSessionOnly
  BY DEF MapIInv
<1> QED
  BY <1>1, MapInvariance, PTL

\* The latches of the pipeline, the configuration and the alarms belong to the
\* session's own live calls, and the strip shows the stage that runs.
THEOREM LatchesAreExact == MapSpec => []LatchExact
<1>1. MapIInv => LatchExact
  BY DEF MapIInv
<1> QED
  BY <1>1, MapInvariance, PTL

-----------------------------------------------------------------------------
(***************************************************************************)
(* The live debugger's capture                                             *)
(*                                                                         *)
(* For any number of sessions, of requests out and of superseded           *)
(* generations with polls out.                                             *)
(***************************************************************************)
\* A capture that runs has a session, and what is polled is one.
Followed ==
  /\ state = "capturing" => sessionId # None
  /\ sessionId = None => pollsOut = {} /\ ~pollTimer
  /\ \A c \in Calls : call[c].op = "started" => call[c].id \in Ids

(***************************************************************************)
(* While nothing is asked before a start or a stop is over: at most one of *)
(* them is out, nothing is polled meanwhile, and otherwise one poll at     *)
(* most is out or due, of the session followed.                            *)
(***************************************************************************)
Starting == {"start", "started", "startFailed"}
Stopping == {"stop", "refresh"}
quiet == pollsOut = {} /\ ~pollTimer /\ (parked => ~alive)

Orderly ==
  /\ session \in {None, sessionId}
  /\ \A c \in pollsOut : call[c].id = sessionId
  /\ \A c, d \in pollsOut : c = d
  /\ pollTimer => pollsOut = {} /\ visible
  /\ pollTimer \/ pollsOut # {} => state = "capturing" /\ alive
  /\ parked /\ alive => pollsOut = {} /\ ~visible /\ state = "capturing"
  /\ \A c \in Calls : call[c].op \in Starting =>
       quiet /\ state = "starting" /\ alive /\ sessionId = None /\ session = None
  /\ \A c \in Calls : call[c].op \in Stopping => quiet /\ call[c].id = sessionId
  /\ \A c, d \in Calls : call[c].op \in Starting \cup Stopping /\ call[d].op \in Starting \cup Stopping
                           => c = d

CaptureIInv == CaptureTypeOK /\ Followed /\ (orderly => Orderly)

CallOps == {"none", "start", "started", "startFailed", "poll", "stop", "refresh"}
CallType == [op : CallOps, id : Ids \cup {None}, gen : PollEpochs]

\* A request of the page changes, the others stay.
CallIs(c, op, id) ==
  /\ call' \in [Calls -> CallType]
  /\ call'[c].op = op /\ call'[c].id = id
  /\ \A d \in Calls : d # c => call'[d] = call[d]

LEMMA EpochFacts == 0 \in PollEpochs /\ 0 # 1
BY SizesAssumption DEF PollEpochs

LEMMA CallBecomes ==
  ASSUME CaptureTypeOK, NEW c \in Calls, NEW op \in CallOps, NEW id \in Ids \cup {None}, becomes(c, op, id)
  PROVE  CallIs(c, op, id)
<1>1. [op |-> op, id |-> id, gen |-> 0] \in CallType
  BY EpochFacts DEF CallType
<1>2. call \in [Calls -> CallType] /\ call' = [call EXCEPT ![c] = [op |-> op, id |-> id, gen |-> 0]]
  BY DEF CaptureTypeOK, CallType, CallOps, becomes
<1> QED
  BY <1>1, <1>2 DEF CallIs

LEMMA CallEnds ==
  ASSUME CaptureTypeOK, NEW c \in Calls, ends(c)
  PROVE  CallIs(c, "none", None)
<1>1. noCall = [op |-> "none", id |-> None, gen |-> 0] /\ noCall \in CallType
  BY EpochFacts DEF noCall, CallType, CallOps
<1>2. call \in [Calls -> CallType] /\ call' = [call EXCEPT ![c] = noCall]
  BY DEF CaptureTypeOK, CallType, CallOps, ends
<1> QED
  BY <1>1, <1>2 DEF CallIs

LEMMA CallPolls ==
  ASSUME CaptureTypeOK, gen' \in PollEpochs, NEW c \in Calls, NEW id \in Ids \cup {None}, pollNow(c, id)
  PROVE  CallIs(c, "poll", id) /\ call'[c].gen = gen'
<1>1. [op |-> "poll", id |-> id, gen |-> gen'] \in CallType
  BY DEF CallType, CallOps
<1>2. /\ call \in [Calls -> CallType]
      /\ call' = [call EXCEPT ![c] = [op |-> "poll", id |-> id, gen |-> gen']]
  BY DEF CaptureTypeOK, CallType, CallOps, pollNow
<1> QED
  BY <1>1, <1>2 DEF CallIs

LEMMA Superseded ==
  ASSUME CaptureTypeOK, supersede
  PROVE  /\ gen' \in PollEpochs /\ gen' # gen /\ pollTimer' = FALSE
         /\ \A c \in Calls : call[c].op = "poll" => call[c].gen # gen'
<1>1. gen \in 0..(PollGenerations - 1) /\ PollGenerations \in Nat /\ PollGenerations > 1
  BY SizesAssumption DEF CaptureTypeOK, PollEpochs
<1>2. nextGen \in PollEpochs /\ nextGen # gen
  BY <1>1 DEF nextGen, PollEpochs
<1> QED
  BY <1>2 DEF supersede

\* What the polls of the generation become.
LEMMA NotPolling ==
  ASSUME NEW c \in Calls, NEW op, NEW id, op # "poll", CallIs(c, op, id), gen' = gen
  PROVE  pollsOut' = pollsOut \ {c}
BY DEF pollsOut, CallIs

LEMMA OnePollMore ==
  ASSUME NEW c \in Calls, NEW id, CallIs(c, "poll", id), call'[c].gen = gen', gen' = gen
  PROVE  pollsOut' = pollsOut \cup {c}
BY DEF pollsOut, CallIs

LEMMA OnlyNewPolls ==
  ASSUME CaptureTypeOK, supersede
  PROVE  /\ call' = call => pollsOut' = {}
         /\ \A c \in Calls : \A op, id : CallIs(c, op, id) /\ op # "poll" => pollsOut' = {}
         /\ \A c \in Calls : \A id : CallIs(c, "poll", id) /\ call'[c].gen = gen' => pollsOut' = {c}
<1>1. \A d \in Calls : call[d].op = "poll" => call[d].gen # gen'
  BY Superseded
<1>2. call' = call => pollsOut' = {}
  BY <1>1 DEF pollsOut
<1>3. \A c \in Calls : \A op, id : CallIs(c, op, id) /\ op # "poll" => pollsOut' = {}
  BY <1>1 DEF pollsOut, CallIs
<1>4. \A c \in Calls : \A id : CallIs(c, "poll", id) /\ call'[c].gen = gen' => pollsOut' = {c}
  BY <1>1 DEF pollsOut, CallIs
<1> QED
  BY <1>2, <1>3, <1>4

(***************************************************************************)
(* What each answer does to the requests, and to the polling.              *)
(***************************************************************************)

\* A poll that is read, missed or failed leaves the next one due, parked while
\* the tab is hidden, or the capture is over.
LEMMA PollOutcome ==
  ASSUME CaptureTypeOK, NEW i \in Ids \cup {None}, pollReads(i) \/ pollMisses(i) \/ pollFails
  PROVE  /\ state' \in {"capturing", "captured", "error", state}
         /\ session' \in {i, session}
         /\ failures' \in 0..(RetryBudget + 1) /\ pollTimer' \in BOOLEAN /\ parked' \in BOOLEAN
         /\ parked' => parked \/ ~visible
         /\ pollTimer' => visible
         /\ \/ pollTimer' = visible /\ parked' = (parked \/ ~visible) /\ state' \in {"capturing", state}
            \/ state' \in {"captured", "error"} /\ pollTimer' = FALSE /\ parked' = parked
<1>1. RetryBudget \in Nat /\ failures \in 0..(RetryBudget + 1) /\ visible \in BOOLEAN /\ parked \in BOOLEAN
  BY SizesAssumption DEF CaptureTypeOK
<1>2. 0 \in 0..(RetryBudget + 1) /\ RetryBudget + 1 \in 0..(RetryBudget + 1)
      /\ (withinBudget => failures + 1 \in 0..(RetryBudget + 1))
  BY <1>1 DEF withinBudget
<1>3. CASE pollReads(i)
  BY <1>1, <1>2, <1>3 DEF pollReads, derived, schedulePoll
<1>4. CASE pollMisses(i)
  BY <1>1, <1>2, <1>4 DEF pollMisses
<1>5. CASE pollFails
  BY <1>1, <1>2, <1>5 DEF pollFails, retried, schedulePoll
<1> QED
  BY <1>3, <1>4, <1>5

(***************************************************************************)
(* Part 1: the types, and the requests an action changes.                  *)
(***************************************************************************)
OapType == [Ids -> {"none", "live", "full", "gone"}]

LEMMA StartServed ==
  ASSUME CaptureTypeOK, NEW c \in Calls, startServed(c)
  PROVE  /\ oap' \in OapType /\ call[c].op = "start"
         /\ \E op \in {"started", "startFailed"} : \E id \in Ids \cup {None} :
              CallIs(c, op, id) /\ (op = "started" => id \in Ids)
<1>1. oap \in OapType
  BY DEF CaptureTypeOK, OapType
<1>2. CASE becomes(c, "startFailed", None) /\ UNCHANGED oap
  BY <1>1, <1>2, CallBecomes DEF startServed, CallOps
<1>3. CASE \E i \in Ids : /\ oap[i] = "none" /\ oap' = installed(i)
                          /\ \E op \in {"started", "startFailed"} : becomes(c, op, i)
  <2>1. PICK i \in Ids : oap' = installed(i) /\ \E op \in {"started", "startFailed"} : becomes(c, op, i)
    BY <1>3
  <2>2. oap' \in OapType
    BY <1>1, <2>1 DEF installed, OapType
  <2>3. PICK op \in {"started", "startFailed"} : becomes(c, op, i)
    BY <2>1
  <2>4. CallIs(c, op, i)
    BY <2>3, CallBecomes DEF CallOps
  <2> QED
    BY <2>2, <2>4 DEF startServed
<1> QED
  BY <1>2, <1>3 DEF startServed

LEMMA StepTypes ==
  ASSUME CaptureTypeOK, Followed, [CaptureNext]_captureVars
  PROVE  CaptureTypeOK'
<1> USE DEF CallIs, CallType, CallOps, OapType
<1>1. /\ oap \in OapType /\ call \in [Calls -> CallType] /\ sessionId \in Ids \cup {None}
      /\ session \in Ids \cup {None} /\ \A c \in Calls : call[c].id \in Ids \cup {None}
      /\ gen \in PollEpochs /\ visible \in BOOLEAN /\ alive \in BOOLEAN /\ orderly \in BOOLEAN
      /\ parked \in BOOLEAN /\ pollTimer \in BOOLEAN
  BY DEF CaptureTypeOK
<1>2. 0 \in 0..(RetryBudget + 1)
  BY SizesAssumption
<1>3. asks => orderly' \in BOOLEAN
  BY <1>1 DEF asks
<1>4. ASSUME NEW c \in Calls, startServed(c)
      PROVE  CaptureTypeOK'
  BY <1>4, StartServed DEF startServed, shown, pollVars, CaptureTypeOK
<1>5. ASSUME NEW c \in Calls, startAnswered(c)
      PROVE  CaptureTypeOK'
  <2>1. call[c].id \in Ids /\ gen' \in PollEpochs
    BY <1>1, <1>5 DEF startAnswered, Followed
  <2>2. CallIs(c, "poll", call[c].id)
    BY <1>5, <2>1, CallPolls DEF startAnswered
  <2> QED
    BY <1>5, <2>1, <2>2 DEF startAnswered, CaptureTypeOK
<1>6. ASSUME NEW c \in Calls, startFailed(c)
      PROVE  CaptureTypeOK'
  BY <1>6, CallEnds DEF startFailed, pollVars, CaptureTypeOK
<1>7. ASSUME NEW c \in Calls, pollAnswered(c)
      PROVE  CaptureTypeOK'
  <2>1. call' \in [Calls -> CallType] /\ UNCHANGED <<oap, sessionId, gen, visible, alive, history, orderly>>
    BY <1>7, CallEnds DEF pollAnswered
  <2>2. CASE UNCHANGED <<state, session, pollTimer, failures, parked>>
    BY <2>1, <2>2 DEF CaptureTypeOK
  <2>3. CASE pollReads(call[c].id) \/ pollMisses(call[c].id) \/ pollFails
    <3>1. /\ state' \in {"capturing", "captured", "error", state}
          /\ session' \in {call[c].id, session}
          /\ failures' \in 0..(RetryBudget + 1) /\ pollTimer' \in BOOLEAN /\ parked' \in BOOLEAN
      BY <1>1, <2>3, PollOutcome
    <3> QED
      BY <1>1, <2>1, <3>1 DEF CaptureTypeOK
  <2> QED
    BY <1>7, <2>2, <2>3 DEF pollAnswered
<1>8. ASSUME NEW c \in Calls, stopAnswered(c)
      PROVE  CaptureTypeOK'
  <2>1. oap' \in OapType
    BY <1>1, <1>8 DEF stopAnswered, detached
  <2>2. call' \in [Calls -> CallType]
    BY <1>1, <1>8, CallBecomes, CallEnds DEF stopAnswered
  <2> QED
    BY <1>8, <2>1, <2>2 DEF stopAnswered, pollVars, CaptureTypeOK
<1>9. ASSUME NEW c \in Calls, refreshAnswered(c)
      PROVE  CaptureTypeOK'
  BY <1>1, <1>9, CallEnds DEF refreshAnswered, pollVars, CaptureTypeOK
<1>10. ASSUME NEW c \in Calls, timerFires(c)
       PROVE  CaptureTypeOK'
  <2>1. CallIs(c, "poll", sessionId) /\ gen' = gen
    BY <1>1, <1>10, CallPolls DEF timerFires
  <2> QED
    BY <1>10, <2>1 DEF timerFires, shown, CaptureTypeOK
<1>11. ASSUME NEW c \in Calls, start(c)
       PROVE  CaptureTypeOK'
  <2>1. call' \in [Calls -> CallType] /\ gen' \in PollEpochs /\ pollTimer' = FALSE /\ orderly' \in BOOLEAN
    BY <1>3, <1>11, CallBecomes, Superseded DEF start
  <2> QED
    BY <1>2, <1>11, <2>1 DEF start, CaptureTypeOK
<1>12. ASSUME NEW c \in Calls, stop(c)
       PROVE  CaptureTypeOK'
  <2>1. gen' \in PollEpochs /\ pollTimer' = FALSE /\ orderly' \in BOOLEAN
    BY <1>3, <1>12, Superseded DEF stop
  <2>2. call' \in [Calls -> CallType] /\ state' \in {"idle", state}
    BY <1>1, <1>12, CallBecomes DEF stop
  <2> QED
    BY <1>12, <2>1, <2>2 DEF stop, CaptureTypeOK
<1>13. ASSUME NEW c \in Calls, NEW i \in Ids, resumeCapture(c, i)
       PROVE  CaptureTypeOK'
  <2>1. gen' \in PollEpochs /\ pollTimer' = FALSE /\ orderly' \in BOOLEAN
    BY <1>3, <1>13, Superseded DEF resumeCapture
  <2>2. call' \in [Calls -> CallType]
    BY <1>13, <2>1, CallPolls DEF resumeCapture
  <2> QED
    BY <1>2, <1>13, <2>1, <2>2 DEF resumeCapture, CaptureTypeOK
<1>14. ASSUME NEW c \in Calls, onVisibilityShown(c)
       PROVE  CaptureTypeOK'
  <2>1. gen' = gen /\ parked' \in BOOLEAN /\ call' \in [Calls -> CallType]
    BY <1>1, <1>14, CallPolls DEF onVisibilityShown
  <2> QED
    BY <1>14, <2>1 DEF onVisibilityShown, shown, CaptureTypeOK
<1>15. CASE onVisibilityHidden
  BY <1>1, <1>15 DEF onVisibilityHidden, shown, CaptureTypeOK
<1>16. CASE dispose
  BY <1>3, <1>16, Superseded DEF dispose, shown, CaptureTypeOK
<1>17. ASSUME NEW i \in Ids, sessionEnds(i)
       PROVE  CaptureTypeOK'
  <2>1. oap' \in OapType
    BY <1>1, <1>17 DEF sessionEnds, capturesAll, reaped
  <2> QED
    BY <1>17, <2>1 DEF sessionEnds, shown, pollVars, CaptureTypeOK
<1>18. CASE UNCHANGED captureVars
  BY <1>18 DEF captureVars, shown, pollVars, CaptureTypeOK
<1> QED
  BY <1>4, <1>5, <1>6, <1>7, <1>8, <1>9, <1>10, <1>11, <1>12, <1>13, <1>14, <1>15, <1>16, <1>17,
     <1>18 DEF CaptureNext, Answers, CaptureOperator

(***************************************************************************)
(* Part 2: what is polled has a session.                                   *)
(***************************************************************************)

\* An answer that starts no poll is one poll less at most.
LEMMA FewerPolls ==
  ASSUME CaptureTypeOK, NEW c \in Calls,
         startServed(c) \/ startFailed(c) \/ pollAnswered(c) \/ stopAnswered(c) \/ refreshAnswered(c)
  PROVE  /\ gen' = gen /\ pollsOut' = pollsOut \ {c} /\ sessionId' = sessionId
         /\ \A d \in Calls : d # c => call'[d] = call[d]
         /\ call'[c].op \in {"none", "started", "startFailed", "refresh"}
         /\ call'[c].op \in {"started", "startFailed"} => call[c].op = "start"
         /\ call'[c].op = "started" => call'[c].id \in Ids
         /\ call'[c].op = "refresh" => call[c].op = "stop" /\ call'[c].id = call[c].id
<1>1. CASE startServed(c)
  <2>1. gen' = gen /\ sessionId' = sessionId /\ call[c].op = "start"
    BY <1>1, StartServed DEF startServed, pollVars, shown
  <2>2. PICK op \in {"started", "startFailed"} : \E id \in Ids \cup {None} :
           CallIs(c, op, id) /\ (op = "started" => id \in Ids)
    BY <1>1, StartServed
  <2>3. PICK id \in Ids \cup {None} : CallIs(c, op, id) /\ (op = "started" => id \in Ids)
    BY <2>2
  <2>4. pollsOut' = pollsOut \ {c}
    BY <2>1, <2>3, NotPolling
  <2> QED
    BY <2>1, <2>3, <2>4 DEF CallIs
<1>2. CASE stopAnswered(c)
  <2>1. gen' = gen /\ call[c].id \in Ids \cup {None} /\ call[c].op = "stop" /\ sessionId' = sessionId
    BY <1>2 DEF stopAnswered, pollVars, CaptureTypeOK
  <2>2. CallIs(c, "refresh", call[c].id) \/ CallIs(c, "none", None)
    BY <1>2, <2>1, CallBecomes, CallEnds DEF stopAnswered, CallOps
  <2>3. pollsOut' = pollsOut \ {c}
    BY <2>1, <2>2, NotPolling
  <2> QED
    BY <2>1, <2>2, <2>3 DEF CallIs
<1>3. CASE startFailed(c) \/ pollAnswered(c) \/ refreshAnswered(c)
  <2>1. gen' = gen /\ CallIs(c, "none", None) /\ sessionId' = sessionId
    BY <1>3, CallEnds DEF startFailed, pollAnswered, refreshAnswered, pollVars
  <2>2. pollsOut' = pollsOut \ {c}
    BY <2>1, NotPolling
  <2> QED
    BY <2>1, <2>2 DEF CallIs
<1> QED
  BY <1>1, <1>2, <1>3

\* A poll that is answered: the one of the generation decides, others do nothing.
LEMMA PollAnswered ==
  ASSUME CaptureTypeOK, NEW c \in Calls, pollAnswered(c)
  PROVE  \/ c \notin pollsOut /\ UNCHANGED <<state, session, pollTimer, failures, parked>>
         \/ /\ c \in pollsOut
            /\ session' \in {call[c].id, session}
            /\ \/ pollTimer' = visible /\ parked' = (parked \/ ~visible) /\ state' \in {"capturing", state}
               \/ state' \in {"captured", "error"} /\ pollTimer' = FALSE /\ parked' = parked
<1>1. call[c].id \in Ids \cup {None}
  BY DEF CaptureTypeOK
<1>2. current(c) <=> c \in pollsOut
  BY DEF current, ofThisGeneration, pollsOut
<1>3. CASE current(c)
  <2>1. pollReads(call[c].id) \/ pollMisses(call[c].id) \/ pollFails
    BY <1>3 DEF pollAnswered
  <2>2. /\ session' \in {call[c].id, session}
        /\ \/ pollTimer' = visible /\ parked' = (parked \/ ~visible) /\ state' \in {"capturing", state}
           \/ state' \in {"captured", "error"} /\ pollTimer' = FALSE /\ parked' = parked
    BY <1>1, <2>1, PollOutcome
  <2> QED
    BY <1>2, <1>3, <2>2
<1>4. CASE ~current(c)
  BY <1>2, <1>4 DEF pollAnswered
<1> QED
  BY <1>3, <1>4

\* One poll more of the generation.
LEMMA PollsNow ==
  ASSUME CaptureTypeOK, NEW c \in Calls, NEW id \in Ids \cup {None}, pollNow(c, id), gen' = gen
  PROVE  CallIs(c, "poll", id) /\ pollsOut' = pollsOut \cup {c}
<1>1. CallIs(c, "poll", id) /\ call'[c].gen = gen'
  BY CallPolls DEF CaptureTypeOK
<1> QED
  BY <1>1, OnePollMore

LEMMA StepFollowed ==
  ASSUME CaptureTypeOK, Followed, [CaptureNext]_captureVars
  PROVE  Followed'
<1> USE OthersAssumption
<1>1. ASSUME NEW c \in Calls, startServed(c) \/ startFailed(c) \/ stopAnswered(c) \/ refreshAnswered(c)
      PROVE  Followed'
  <2>1. pollTimer' = pollTimer /\ (state' = state \/ state' \in {"error", "stopped"})
    BY <1>1 DEF startServed, startFailed, stopAnswered, refreshAnswered, pollVars, shown
  <2> QED
    BY <1>1, <2>1, FewerPolls DEF Followed
<1>2. ASSUME NEW c \in Calls, pollAnswered(c)
      PROVE  Followed'
  <2>1. pollsOut # {} => sessionId # None
    BY DEF Followed
  <2>2. /\ pollsOut' = pollsOut \ {c} /\ sessionId' = sessionId
        /\ \A d \in Calls : call'[d].op = "started" => call'[d].id \in Ids
    BY <1>2, FewerPolls DEF Followed
  <2>3. CASE c \notin pollsOut /\ UNCHANGED <<state, session, pollTimer, failures, parked>>
    BY <2>2, <2>3 DEF Followed
  <2>4. CASE c \in pollsOut
    BY <2>1, <2>2, <2>4 DEF Followed
  <2> QED
    BY <1>2, <2>3, <2>4, PollAnswered
<1>3. ASSUME NEW c \in Calls, startAnswered(c)
      PROVE  Followed'
  <2>1. call[c].id \in Ids /\ sessionId' = call[c].id /\ call[c].id # None
    BY <1>3 DEF Followed, startAnswered
  <2>2. CallIs(c, "poll", call[c].id)
    BY <1>3, <2>1, PollsNow DEF startAnswered
  <2> QED
    BY <2>1, <2>2 DEF Followed, CallIs
<1>4. ASSUME NEW c \in Calls, timerFires(c)
      PROVE  Followed'
  <2>1. sessionId # None /\ sessionId \in Ids \cup {None} /\ UNCHANGED <<state, sessionId>>
    BY <1>4 DEF Followed, timerFires, CaptureTypeOK, shown
  <2>2. CallIs(c, "poll", sessionId)
    BY <1>4, <2>1, PollsNow DEF timerFires
  <2> QED
    BY <2>1, <2>2 DEF Followed, CallIs
<1>5. ASSUME NEW c \in Calls, start(c)
      PROVE  Followed'
  <2>1. CallIs(c, "start", None) /\ pollTimer' = FALSE
    BY <1>5, CallBecomes, Superseded DEF start, CallOps
  <2>2. pollsOut' = {}
    BY <1>5, <2>1, OnlyNewPolls DEF start
  <2> QED
    BY <1>5, <2>1, <2>2 DEF start, Followed, CallIs
<1>6. ASSUME NEW c \in Calls, stop(c)
      PROVE  Followed'
  <2>1. pollTimer' = FALSE /\ sessionId' = sessionId /\ sessionId \in Ids \cup {None}
    BY <1>6, Superseded DEF stop, CaptureTypeOK
  <2>2. CASE sessionId = None
    <3>1. state' = "idle" /\ call' = call /\ pollsOut' = {}
      BY <1>6, <2>2, OnlyNewPolls DEF stop
    <3> QED
      BY <2>1, <3>1 DEF Followed
  <2>3. CASE sessionId # None
    <3>1. CallIs(c, "stop", sessionId)
      BY <1>6, <2>1, <2>3, CallBecomes DEF stop, CallOps
    <3>2. pollsOut' = {}
      BY <1>6, <3>1, OnlyNewPolls DEF stop
    <3> QED
      BY <2>1, <2>3, <3>1, <3>2 DEF Followed, CallIs
  <2> QED
    BY <2>2, <2>3
<1>7. ASSUME NEW c \in Calls, NEW i \in Ids, resumeCapture(c, i)
      PROVE  Followed'
  <2>1. CallIs(c, "poll", i) /\ sessionId' = i /\ i # None
    BY <1>7, CallPolls, Superseded DEF resumeCapture
  <2> QED
    BY <2>1 DEF Followed, CallIs
<1>8. ASSUME NEW c \in Calls, onVisibilityShown(c)
      PROVE  Followed'
  <2>1. UNCHANGED <<state, sessionId, pollTimer, gen>> /\ sessionId \in Ids \cup {None}
    BY <1>8 DEF onVisibilityShown, shown, CaptureTypeOK
  <2>2. CASE unparks
    <3>1. CallIs(c, "poll", sessionId) /\ sessionId # None
      BY <1>8, <2>1, <2>2, PollsNow DEF onVisibilityShown, unparks
    <3> QED
      BY <2>1, <3>1 DEF Followed, CallIs
  <2>3. CASE ~unparks
    BY <1>8, <2>1, <2>3 DEF onVisibilityShown, Followed, pollsOut
  <2> QED
    BY <2>2, <2>3
<1>9. CASE onVisibilityHidden
  BY <1>9 DEF onVisibilityHidden, shown, Followed, pollsOut
<1>10. CASE dispose
  <2>1. pollTimer' = FALSE /\ pollsOut' = {}
    BY <1>10, Superseded, OnlyNewPolls DEF dispose
  <2> QED
    BY <1>10, <2>1 DEF dispose, shown, Followed
<1>11. ASSUME NEW i \in Ids, sessionEnds(i)
       PROVE  Followed'
  BY <1>11 DEF sessionEnds, shown, pollVars, Followed, pollsOut
<1>12. CASE UNCHANGED captureVars
  BY <1>12 DEF captureVars, shown, pollVars, Followed, pollsOut
<1> QED
  BY <1>1, <1>2, <1>3, <1>4, <1>5, <1>6, <1>7, <1>8, <1>9, <1>10, <1>11, <1>12
  DEF CaptureNext, Answers, CaptureOperator

(***************************************************************************)
(* Part 3: an orderly page sees one session.                               *)
(***************************************************************************)
Pending(c) == call[c].op \in Starting \cup Stopping

LEMMA OutstandingIsPending ==
  ASSUME CaptureTypeOK
  PROVE  outstanding <=> \E c \in Calls : Pending(c)
BY DEF outstanding, Pending, Starting, Stopping, CaptureTypeOK

\* What the page asks for while nothing is out: everything polled is over.
LEMMA Asked ==
  ASSUME CaptureTypeOK, Followed, NEW c \in Calls, NEW op \in {"none", "start", "poll", "stop"},
         NEW id \in Ids \cup {None}, supersede, ~outstanding,
         \/ op = "none" /\ call' = call
         \/ op # "none" /\ CallIs(c, op, id),
         op = "poll" => call'[c].gen = gen' /\ state' = "capturing" /\ alive' /\ sessionId' = id,
         op = "start" => state' = "starting" /\ alive' /\ sessionId' = None /\ session' = None,
         op = "stop" => sessionId' = id,
         ~(parked' /\ alive'),
         session' \in {None, sessionId'}
  PROVE  Orderly'
<1>1. pollTimer' = FALSE
  BY Superseded
<1>2. pollsOut' = IF op = "poll" THEN {c} ELSE {}
  BY OnlyNewPolls
<1>3. \A d \in Calls : /\ call[d].op \notin Starting \cup Stopping
                       /\ call'[d].op \in Starting \cup Stopping => op \in {"start", "stop"} /\ d = c
  BY DEF outstanding, Starting, Stopping, CallIs
<1>4. \A d \in Calls : call'[d].op \in Starting => op = "start"
  BY <1>3 DEF CallIs, Starting, Stopping
<1>5. \A d \in Calls : call'[d].op \in Stopping => op = "stop" /\ call'[d].id = id
  BY <1>3 DEF CallIs, Starting, Stopping
<1>6. op = "poll" => call'[c].id = id
  BY DEF CallIs
<1>7. (op = "start" \/ op = "stop") => quiet'
  BY <1>1, <1>2 DEF quiet
<1> QED
  BY <1>1, <1>2, <1>3, <1>4, <1>5, <1>6, <1>7 DEF Orderly

\* An answer that starts no poll and leaves the polling as it is.
LEMMA Answered ==
  ASSUME CaptureTypeOK, Orderly, NEW c \in Calls,
         startServed(c) \/ startFailed(c) \/ stopAnswered(c) \/ refreshAnswered(c)
  PROVE  Orderly'
<1>1. /\ pollsOut' = pollsOut \ {c} /\ sessionId' = sessionId
      /\ \A d \in Calls : d # c => call'[d] = call[d]
      /\ call'[c].op \in {"none", "started", "startFailed", "refresh"}
      /\ call'[c].op \in {"started", "startFailed"} => call[c].op = "start"
      /\ call'[c].op = "refresh" => call[c].op = "stop" /\ call'[c].id = call[c].id
  BY FewerPolls
<1>2. UNCHANGED <<pollTimer, parked, visible, alive>>
  BY DEF startServed, startFailed, stopAnswered, refreshAnswered, pollVars
<1>3. call[c].op \in {"start", "startFailed", "stop", "refresh"} /\ Pending(c)
  BY StartServed DEF startFailed, stopAnswered, refreshAnswered, Pending, Starting, Stopping
<1>4. quiet /\ \A d \in Calls : Pending(d) => d = c
  BY <1>3 DEF Orderly, Pending
<1>5. quiet' /\ pollsOut' = {} /\ ~pollTimer'
  BY <1>1, <1>2, <1>4 DEF quiet
<1>6. session' \in {None, sessionId'}
  <2>1. CASE refreshAnswered(c)
    <3>1. call[c].id = sessionId /\ session' \in {call[c].id, session}
      BY <2>1 DEF refreshAnswered, Orderly, Stopping
    <3> QED
      BY <1>1, <3>1 DEF Orderly
  <2>2. CASE startServed(c) \/ startFailed(c) \/ stopAnswered(c)
    <3>1. session' = session
      BY <2>2 DEF startServed, startFailed, stopAnswered, shown
    <3> QED
      BY <1>1, <3>1 DEF Orderly
  <2> QED
    BY <2>1, <2>2
<1>7. \A d \in Calls : call'[d].op \in Starting \cup Stopping => d = c
  <2>1. \A d \in Calls : d # c => call[d].op \notin Starting \cup Stopping
    BY <1>4 DEF Pending
  <2> QED
    BY <1>1, <2>1
<1>8. call'[c].op \in Starting => quiet' /\ state' = "starting" /\ alive' /\ sessionId' = None /\ session' = None
  <2>1. SUFFICES ASSUME call'[c].op \in Starting
                 PROVE  state' = "starting" /\ alive' /\ sessionId' = None /\ session' = None
    BY <1>5
  <2>2. call[c].op = "start"
    BY <1>1, <2>1 DEF Starting
  <2>3. UNCHANGED <<state, session>>
    BY <2>2 DEF startServed, startFailed, stopAnswered, refreshAnswered, shown
  <2>4. state = "starting" /\ alive /\ sessionId = None /\ session = None
    BY <2>2 DEF Orderly, Starting
  <2> QED
    BY <1>1, <1>2, <2>3, <2>4
<1>9. call'[c].op \in Stopping => quiet' /\ call'[c].id = sessionId'
  <2>1. SUFFICES ASSUME call'[c].op \in Stopping PROVE call'[c].id = sessionId'
    BY <1>5
  <2>2. call[c].op = "stop" /\ call'[c].id = call[c].id
    BY <1>1, <2>1 DEF Stopping
  <2> QED
    BY <1>1, <2>2 DEF Orderly, Stopping
<1>10. ~(parked' /\ alive')
  BY <1>2, <1>5 DEF quiet
<1> QED
  BY <1>5, <1>6, <1>7, <1>8, <1>9, <1>10 DEF Orderly

LEMMA PolledOrderly ==
  ASSUME CaptureTypeOK, Orderly, NEW c \in Calls, pollAnswered(c)
  PROVE  Orderly'
<1>1. /\ pollsOut' = pollsOut \ {c} /\ sessionId' = sessionId
      /\ \A d \in Calls : d # c => call'[d] = call[d]
      /\ call'[c].op = "none" /\ call[c].op = "poll"
  BY FewerPolls, CallEnds DEF pollAnswered, CallIs
<1>2. UNCHANGED <<visible, alive>>
  BY DEF pollAnswered
<1>3. \A d \in Calls : call'[d].op \in Starting \cup Stopping => call'[d] = call[d]
  BY <1>1 DEF Starting, Stopping
<1>4. CASE c \notin pollsOut /\ UNCHANGED <<state, session, pollTimer, failures, parked>>
  <2>1. pollsOut' = pollsOut /\ \A d \in pollsOut : call'[d] = call[d]
    BY <1>1, <1>4 DEF pollsOut
  <2> QED
    BY <1>1, <1>2, <1>3, <1>4, <2>1 DEF Orderly, quiet
<1>5. CASE /\ c \in pollsOut
           /\ session' \in {call[c].id, session}
           /\ \/ pollTimer' = visible /\ parked' = (parked \/ ~visible) /\ state' \in {"capturing", state}
              \/ state' \in {"captured", "error"} /\ pollTimer' = FALSE /\ parked' = parked
  <2>1. state = "capturing" /\ alive /\ call[c].id = sessionId /\ ~pollTimer /\ ~(parked /\ alive)
    BY <1>5 DEF Orderly
  <2>2. pollsOut' = {}
    BY <1>1, <1>5 DEF Orderly
  <2>3. \A d \in Calls : call'[d].op \notin Starting \cup Stopping
    <3>1. \A d \in Calls : call[d].op \notin Starting \cup Stopping
      BY <1>5 DEF Orderly, quiet
    <3> QED
      BY <1>1, <3>1 DEF Starting, Stopping
  <2>4. session' \in {None, sessionId'}
    BY <1>1, <1>5, <2>1 DEF Orderly
  <2>5. pollTimer' => visible' /\ state' = "capturing" /\ alive'
    BY <1>2, <1>5, <2>1
  <2>6. parked' /\ alive' => ~visible' /\ state' = "capturing"
    BY <1>2, <1>5, <2>1
  <2> QED
    BY <2>2, <2>3, <2>4, <2>5, <2>6 DEF Orderly
<1> QED
  BY <1>4, <1>5, PollAnswered

LEMMA StartedOrderly ==
  ASSUME CaptureTypeOK, Followed, Orderly, NEW c \in Calls, startAnswered(c)
  PROVE  Orderly'
<1>1. call[c].op = "started" /\ call[c].id \in Ids /\ sessionId' = call[c].id /\ state' = "capturing"
  BY DEF startAnswered, Followed
<1>2. UNCHANGED <<session, gen, pollTimer, parked, visible, alive>>
  BY DEF startAnswered
<1>3. CallIs(c, "poll", call[c].id) /\ pollsOut' = pollsOut \cup {c}
  BY <1>1, <1>2, PollsNow DEF startAnswered
<1>4. quiet /\ alive /\ session = None /\ \A d \in Calls : call[d].op \in Starting \cup Stopping => d = c
  BY <1>1 DEF Orderly, Starting
<1>5. \A d \in Calls : call'[d].op \notin Starting \cup Stopping
  BY <1>3, <1>4 DEF CallIs, Starting, Stopping
<1> QED
  BY <1>1, <1>2, <1>3, <1>4, <1>5 DEF Orderly, quiet, CallIs

LEMMA FiredOrderly ==
  ASSUME CaptureTypeOK, Orderly, NEW c \in Calls, timerFires(c)
  PROVE  Orderly'
<1>1. pollTimer /\ pollTimer' = FALSE /\ UNCHANGED <<state, sessionId, session, gen, parked, visible, alive>>
  BY DEF timerFires, shown
<1>2. CallIs(c, "poll", sessionId) /\ pollsOut' = pollsOut \cup {c}
  BY <1>1, PollsNow DEF timerFires, CaptureTypeOK
<1>3. pollsOut = {} /\ state = "capturing" /\ alive /\ visible
  BY <1>1 DEF Orderly
<1>4. \A d \in Calls : call'[d].op \notin Starting \cup Stopping
  <2>1. \A d \in Calls : call[d].op \notin Starting \cup Stopping
    BY <1>1 DEF Orderly, quiet
  <2> QED
    BY <1>2, <2>1 DEF CallIs, Starting, Stopping
<1> QED
  BY <1>1, <1>2, <1>3, <1>4 DEF Orderly, CallIs

LEMMA ShownOrderly ==
  ASSUME CaptureTypeOK, Followed, Orderly, NEW c \in Calls, onVisibilityShown(c)
  PROVE  Orderly'
<1>1. /\ ~visible /\ visible' = TRUE /\ gen' = gen
      /\ UNCHANGED <<state, sessionId, session, pollTimer, alive>>
  BY DEF onVisibilityShown, shown
<1>2. ~pollTimer
  BY <1>1 DEF Orderly
<1>3. CASE unparks
  <2>1. CallIs(c, "poll", sessionId) /\ pollsOut' = pollsOut \cup {c} /\ parked' = FALSE
    BY <1>1, <1>3, PollsNow DEF onVisibilityShown, CaptureTypeOK
  <2>2. parked /\ alive /\ state = "capturing" /\ pollsOut = {}
    BY <1>3 DEF unparks, Orderly
  <2>3. \A d \in Calls : call'[d].op \notin Starting \cup Stopping
    <3>1. \A d \in Calls : call[d].op \notin Starting \cup Stopping
      BY <2>2 DEF Orderly, quiet
    <3> QED
      BY <2>1, <3>1 DEF CallIs, Starting, Stopping
  <2> QED
    BY <1>1, <1>2, <2>1, <2>2, <2>3 DEF Orderly, CallIs
<1>4. CASE ~unparks
  <2>1. UNCHANGED <<parked, call>> /\ pollsOut' = pollsOut
    BY <1>1, <1>4 DEF onVisibilityShown, pollsOut
  <2>2. ~(parked /\ alive)
    BY <1>4 DEF Orderly, Followed, unparks
  <2> QED
    BY <1>1, <1>2, <2>1, <2>2 DEF Orderly, quiet
<1> QED
  BY <1>3, <1>4

LEMMA StepOrderly ==
  ASSUME CaptureTypeOK, Followed, Orderly, [CaptureNext]_captureVars, orderly'
  PROVE  Orderly'
<1>1. asks => ~outstanding
  BY DEF asks
<1>2. ASSUME NEW c \in Calls, start(c)
      PROVE  Orderly'
  <2>1. CallIs(c, "start", None)
    BY <1>2, CallBecomes DEF start, CallOps
  <2>2. supersede /\ ~outstanding /\ state' = "starting" /\ sessionId' = None /\ session' = None
        /\ parked' = FALSE /\ alive'
    BY <1>1, <1>2 DEF start, startEnabled
  <2> QED
    BY <2>1, <2>2, Asked
<1>3. ASSUME NEW c \in Calls, stop(c)
      PROVE  Orderly'
  <2>1. supersede /\ ~outstanding /\ UNCHANGED <<sessionId, session, parked, alive, visible>>
    BY <1>1, <1>3 DEF stop
  <2>2. ~(parked /\ alive) /\ session \in {None, sessionId} /\ sessionId \in Ids \cup {None}
    BY <1>3 DEF stop, stopEnabled, Orderly, CaptureTypeOK
  <2>3. CASE sessionId = None
    BY <1>3, <2>1, <2>2, <2>3, Asked DEF stop
  <2>4. CASE sessionId # None
    <3>1. CallIs(c, "stop", sessionId)
      BY <1>3, <2>2, <2>4, CallBecomes DEF stop, CallOps
    <3> QED
      BY <2>1, <2>2, <3>1, Asked
  <2> QED
    BY <2>3, <2>4
<1>4. ASSUME NEW c \in Calls, NEW i \in Ids, resumeCapture(c, i)
      PROVE  Orderly'
  <2>1. CallIs(c, "poll", i) /\ call'[c].gen = gen'
    BY <1>4, CallPolls, Superseded DEF resumeCapture
  <2>2. supersede /\ ~outstanding /\ state' = "capturing" /\ sessionId' = i /\ session' = None
        /\ parked' = FALSE /\ alive'
    BY <1>1, <1>4 DEF resumeCapture
  <2> QED
    BY <2>1, <2>2, Asked
<1>5. CASE dispose
  <2>1. supersede /\ ~outstanding /\ call' = call /\ UNCHANGED <<sessionId, session>> /\ alive' = FALSE
    BY <1>1, <1>5 DEF dispose, shown
  <2>2. session' \in {None, sessionId'}
    BY <2>1 DEF Orderly
  <2>3. pollTimer' = FALSE /\ pollsOut' = {}
    BY <2>1, Superseded, OnlyNewPolls
  <2>4. \A d \in Calls : call'[d].op \notin Starting \cup Stopping
    BY <2>1 DEF outstanding, Starting, Stopping
  <2> QED
    BY <2>1, <2>2, <2>3, <2>4 DEF Orderly
<1>6. CASE onVisibilityHidden
  <2>1. /\ UNCHANGED <<state, sessionId, session, parked, alive, call>> /\ pollsOut' = pollsOut
        /\ pollTimer' = (pollTimer /\ ~alive) /\ visible' = FALSE
    BY <1>6 DEF onVisibilityHidden, shown, pollsOut
  <2>2. pollTimer' = FALSE
    BY <2>1 DEF Orderly
  <2> QED
    BY <2>1, <2>2 DEF Orderly, quiet
<1>7. CASE (\E i \in Ids : sessionEnds(i)) \/ UNCHANGED captureVars
  <2>1. UNCHANGED <<state, sessionId, session, pollTimer, gen, parked, visible, alive, call>>
    BY <1>7 DEF sessionEnds, captureVars, shown, pollVars
  <2> QED
    BY <2>1 DEF Orderly, quiet, pollsOut
<1>8. CASE \E c \in Calls : Answers(c) \/ timerFires(c) \/ onVisibilityShown(c)
  BY <1>8, Answered, PolledOrderly, StartedOrderly, FiredOrderly, ShownOrderly DEF Answers
<1> QED
  BY <1>2, <1>3, <1>4, <1>5, <1>6, <1>7, <1>8 DEF CaptureNext, CaptureOperator

(***************************************************************************)
(* The invariant, and what follows from it.                                *)
(***************************************************************************)
LEMMA CaptureInitIInv == CaptureInit => CaptureIInv
<1> SUFFICES ASSUME CaptureInit PROVE CaptureIInv
  OBVIOUS
<1>1. noCall \in CallType /\ noCall.op = "none"
  BY EpochFacts DEF noCall, CallType, CallOps
<1>2. CaptureTypeOK
  <2>1. call \in [Calls -> CallType]
    BY <1>1 DEF CaptureInit
  <2>2. gen \in PollEpochs /\ failures \in 0..(RetryBudget + 1)
    BY EpochFacts, SizesAssumption DEF CaptureInit
  <2>3. oap \in [Ids -> {"none", "live", "full", "gone"}]
    BY DEF CaptureInit
  <2>4. history \subseteq Ids
    BY OthersAssumption DEF CaptureInit
  <2>5. /\ state = "idle" /\ sessionId = None /\ session = None
        /\ pollTimer \in BOOLEAN /\ parked \in BOOLEAN /\ visible \in BOOLEAN /\ alive \in BOOLEAN
        /\ orderly \in BOOLEAN
    BY DEF CaptureInit
  <2> QED
    BY <2>1, <2>2, <2>3, <2>4, <2>5 DEF CaptureTypeOK, CallType, CallOps
<1>3. pollsOut = {} /\ ~pollTimer
  BY <1>1 DEF CaptureInit, pollsOut
<1>4. Followed /\ Orderly
  BY <1>1, <1>3 DEF CaptureInit, Followed, Orderly, Starting, Stopping
<1> QED
  BY <1>2, <1>4 DEF CaptureIInv

LEMMA CaptureStepIInv ==
  ASSUME CaptureIInv, [CaptureNext]_captureVars
  PROVE  CaptureIInv'
<1>1. CaptureTypeOK' /\ Followed'
  BY StepTypes, StepFollowed DEF CaptureIInv
<1>2. orderly' => orderly
  BY DEF CaptureNext, Answers, CaptureOperator, startServed, startAnswered, startFailed, pollAnswered, stopAnswered,
     refreshAnswered, timerFires, start, stop, onVisibilityShown, resumeCapture, onVisibilityHidden, dispose,
     sessionEnds, asks, captureVars
<1> QED
  BY <1>1, <1>2, StepOrderly DEF CaptureIInv

\* The values of the capture keep their types, for any number of requests out.
THEOREM CaptureTypeCorrect == CaptureSpec => []CaptureTypeOK
<1>1. CaptureIInv => CaptureTypeOK
  BY DEF CaptureIInv
<1> QED
  BY <1>1, CaptureInitIInv, CaptureStepIInv, PTL DEF CaptureSpec

\* A page that asks for nothing while a start or a stop is out shows and polls
\* one session, with one poll at a time, for any number of sessions and
\* requests and whatever superseded polls are still out.
THEOREM OrderlyPageSeesOneSession == CaptureSpec => []OrderlyPage
<1>1. CaptureIInv => OrderlyPage
  BY DEF CaptureIInv, Orderly, OrderlyPage
<1> QED
  BY <1>1, CaptureInitIInv, CaptureStepIInv, PTL DEF CaptureSpec

\* The polling of a capture goes on through failed polls and hidden tabs.
THEOREM PollingGoesOn == CaptureSpec => PollingKept
<1>1. ASSUME CaptureIInv, [CaptureNext]_captureVars
      PROVE  [driven /\ alive /\ state' = "capturing" /\ ~driven' => (pollTimer /\ ~visible') \/ gen' # gen]_captureVars
  <2> SUFFICES ASSUME driven, alive, state' = "capturing", ~driven', gen' = gen, CaptureNext
               PROVE  pollTimer /\ ~visible'
    BY <1>1
  <2>1. CaptureTypeOK /\ Followed /\ ~pollTimer' /\ pollsOut' = {} /\ ~(parked' /\ ~visible')
    BY <1>1 DEF CaptureIInv, driven
  <2>2. ASSUME NEW c \in Calls, startServed(c) \/ startFailed(c) \/ stopAnswered(c) \/ refreshAnswered(c)
        PROVE  FALSE
    <3>1. UNCHANGED <<pollTimer, parked, visible>> /\ pollsOut' = pollsOut \ {c}
      BY <2>1, <2>2, FewerPolls DEF startServed, startFailed, stopAnswered, refreshAnswered, pollVars
    <3>2. c \notin pollsOut
      BY <2>2 DEF pollsOut, startServed, startFailed, stopAnswered, refreshAnswered
    <3> QED
      BY <2>1, <3>1, <3>2 DEF driven
  <2>3. ASSUME NEW c \in Calls, pollAnswered(c)
        PROVE  FALSE
    <3>1. pollsOut' = pollsOut \ {c} /\ UNCHANGED visible
      BY <2>1, <2>3, FewerPolls DEF pollAnswered
    <3>2. CASE c \notin pollsOut /\ UNCHANGED <<state, session, pollTimer, failures, parked>>
      BY <2>1, <3>1, <3>2 DEF driven
    <3>3. CASE pollTimer' = visible /\ parked' = (parked \/ ~visible)
      BY <2>1, <3>1, <3>3
    <3> QED
      BY <2>1, <2>3, <3>2, <3>3, PollAnswered
  <2>4. ASSUME NEW c \in Calls, NEW id \in Ids \cup {None}, pollNow(c, id)
        PROVE  FALSE
    BY <2>1, <2>4, PollsNow
  <2>5. CASE \E c \in Calls : startAnswered(c) \/ timerFires(c)
    BY <2>1, <2>4, <2>5 DEF startAnswered, timerFires, CaptureTypeOK
  <2>6. ASSUME NEW c \in Calls, onVisibilityShown(c)
        PROVE  FALSE
    <3>1. ~unparks /\ UNCHANGED <<parked, call, pollTimer, state, sessionId>> /\ ~visible
      BY <2>1, <2>4, <2>6 DEF onVisibilityShown, shown, CaptureTypeOK
    <3>2. pollsOut' = pollsOut
      BY <3>1 DEF pollsOut
    <3> QED
      BY <2>1, <3>1, <3>2 DEF driven, unparks, Followed
  <2>7. CASE (\E c \in Calls : start(c) \/ stop(c) \/ \E i \in Ids : resumeCapture(c, i)) \/ dispose
    BY <2>1, <2>7, Superseded DEF start, stop, resumeCapture, dispose
  <2>8. CASE onVisibilityHidden
    <3>1. pollsOut' = pollsOut /\ visible /\ visible' = FALSE
      BY <2>8 DEF onVisibilityHidden, pollsOut
    <3> QED
      BY <2>1, <3>1 DEF driven
  <2>9. CASE \E i \in Ids : sessionEnds(i)
    <3>1. UNCHANGED <<pollTimer, parked, visible>> /\ pollsOut' = pollsOut
      BY <2>9 DEF sessionEnds, pollVars, pollsOut
    <3> QED
      BY <2>1, <3>1 DEF driven
  <2> QED
    BY <2>2, <2>3, <2>5, <2>6, <2>7, <2>8, <2>9 DEF CaptureNext, Answers, CaptureOperator
<1> QED
  BY <1>1, CaptureInitIInv, CaptureStepIInv, PTL DEF CaptureSpec, PollingKept
=============================================================================
