---------------------------- MODULE AutoRefresh ----------------------------
(***************************************************************************)
(* The refresh scheduler of apps/ui/src/controls/autoRefresh.ts: one timer,*)
(* one round at a time, one trigger remembered behind it, and five         *)
(* independent reasons not to run one: a round is out, the operator's      *)
(* switch, named suspensions, a hidden tab, and traffic on the page.       *)
(*                                                                         *)
(* Every handler runs to its end in one turn of the browser's event loop,  *)
(* so a handler is an action.  A round ends when its subscribers settle,   *)
(* or when its cap and then its grace run out.                             *)
(***************************************************************************)
EXTENDS Naturals

CONSTANTS
  Reasons,     \* who may hold a suspension: a route, the hierarchy overlay
  MaxWaiters   \* bound: callers of whenIdle waiting at once

ASSUME BoundsAssumption == MaxWaiters \in Nat

OperatorTriggers == {"manual", "time-change", "cold-stage"}
RefreshTriggers == OperatorTriggers \cup {"auto", "visibility", "resume"}

VARIABLES
  enabled,      \* the operator's switch
  suspendedBy,  \* the reasons now holding
  tabVisible,
  busy,         \* page traffic is in flight
  timer,        \* a timeout is armed
  round,        \* the trigger of the round now out, or "none"
  aborted,      \* the round hit its cap and its signal was aborted
  trailing,     \* the trigger coalesced behind the round, or "none"
  waiters,      \* promises of whenIdle not yet resolved
  tickCount     \* rounds begun, modulo 2

gateVars  == <<enabled, suspendedBy, tabVisible, busy>>
roundVars == <<round, aborted, trailing, tickCount>>
refreshVars == <<gateVars, timer, roundVars, waiters>>

roundRunning == round # "none"
suspended == suspendedBy # {}
effectiveEnabled == enabled /\ ~suspended /\ tabVisible

RefreshInit ==
  /\ enabled = TRUE /\ suspendedBy = {} /\ tabVisible \in BOOLEAN /\ busy = FALSE
  /\ timer = tabVisible
  /\ round = "none" /\ aborted = FALSE /\ trailing = "none"
  /\ waiters = 0 /\ tickCount = 0

-----------------------------------------------------------------------------
clearMainTimer == timer' = FALSE

startMainTimer_IgnoresTraffic == timer' = effectiveEnabled'  \* mutant

\* Arms a full interval, unless something says no now.
startMainTimer == timer' = (effectiveEnabled' /\ ~busy')

\* A new round: the timer stops for as long as it is out.
runRoundInner(trigger) ==
  /\ round' = trigger /\ aborted' = FALSE
  /\ tickCount' = (tickCount + 1) % 2
  /\ clearMainTimer

\* Only the latest trigger is remembered, and a timeout never is.
coalesced(trigger) == IF trigger = "auto" THEN trailing ELSE trigger

\* A timeout that fires while a round is out is spent.
runRound(trigger) ==
  IF roundRunning
  THEN /\ trailing' = coalesced(trigger)
       /\ timer' = (timer /\ trigger # "auto")
       /\ UNCHANGED <<round, aborted, tickCount>>
  ELSE runRoundInner(trigger) /\ UNCHANGED trailing

timeout ==
  /\ timer /\ runRound("auto")
  /\ UNCHANGED <<gateVars, waiters>>

stillWanted(pending) ==
  /\ pending # "none" /\ tabVisible
  /\ pending \in OperatorTriggers \/ (enabled /\ ~suspended)

notifyIdle_OnlyWhenNothingAsked ==  \* mutant: a dropped trigger resolves nobody
  waiters' = IF trailing = "none" THEN 0 ELSE waiters

notifyIdle == waiters' = 0

\* The `finally' of a round: the remembered trigger runs if it is still
\* wanted, and else the next interval is armed and the waiters are told.
finishRound ==
  /\ trailing' = "none" /\ UNCHANGED gateVars
  /\ IF stillWanted(trailing)
     THEN runRoundInner(trailing) /\ UNCHANGED waiters
     ELSE /\ round' = "none" /\ aborted' = FALSE /\ UNCHANGED tickCount
          /\ startMainTimer /\ notifyIdle

roundSettled == roundRunning /\ finishRound

capFires_Never == FALSE  \* mutant: a round is awaited as long as it takes

capFires == roundRunning /\ ~aborted

roundCapped ==
  /\ capFires /\ aborted' = TRUE
  /\ UNCHANGED <<gateVars, timer, round, trailing, tickCount, waiters>>

\* The grace after the abort: the round is released, settled or not.
graceOver == roundRunning /\ aborted /\ finishRound

whenIdle ==
  /\ roundRunning \/ trailing # "none"
  /\ waiters < MaxWaiters /\ waiters' = waiters + 1
  /\ UNCHANGED <<gateVars, timer, roundVars>>

-----------------------------------------------------------------------------
(***************************************************************************)
(* The gates                                                               *)
(***************************************************************************)
\* The query cache goes busy or quiet.
trafficChanged ==
  /\ busy' = ~busy
  /\ UNCHANGED <<enabled, suspendedBy, tabVisible>>
  /\ IF busy' THEN clearMainTimer ELSE startMainTimer
  /\ UNCHANGED <<roundVars, waiters>>

onVisibilityChange ==
  /\ tabVisible' = ~tabVisible
  /\ IF ~tabVisible'
     THEN clearMainTimer /\ UNCHANGED roundVars
     ELSE IF ~suspended /\ enabled
          THEN runRound("visibility")
          ELSE UNCHANGED <<timer, roundVars>>
  /\ UNCHANGED <<enabled, suspendedBy, busy, waiters>>

\* Picking a cadence also switches refreshing on.
setInterval ==
  /\ enabled' = TRUE /\ UNCHANGED <<suspendedBy, tabVisible, busy>>
  /\ startMainTimer
  /\ UNCHANGED <<roundVars, waiters>>

enableRefresh ==
  IF suspended \/ ~tabVisible THEN startMainTimer /\ UNCHANGED roundVars ELSE runRound("resume")

setEnabled ==
  /\ enabled' = ~enabled /\ UNCHANGED <<suspendedBy, tabVisible, busy, waiters>>
  /\ IF enabled' THEN enableRefresh ELSE clearMainTimer /\ UNCHANGED roundVars

refreshNow ==
  /\ \E trigger \in OperatorTriggers : runRound(trigger)
  /\ UNCHANGED <<gateVars, waiters>>

suspend(reason) ==
  /\ reason \notin suspendedBy /\ suspendedBy' = suspendedBy \cup {reason}
  /\ clearMainTimer
  /\ UNCHANGED <<enabled, tabVisible, busy, roundVars, waiters>>

lastHolder(reason) == suspendedBy = {reason}

\* Only the last release runs a round, in a hidden tab too.
resume(reason) ==
  /\ reason \in suspendedBy /\ suspendedBy' = suspendedBy \ {reason}
  /\ IF lastHolder(reason) /\ enabled
     THEN runRound("resume")
     ELSE UNCHANGED <<timer, roundVars>>
  /\ UNCHANGED <<enabled, tabVisible, busy, waiters>>

-----------------------------------------------------------------------------
Rounds == timeout \/ roundSettled \/ roundCapped \/ graceOver
RefreshOperator == refreshNow \/ setInterval \/ setEnabled \/ whenIdle
Surroundings ==
  \/ trafficChanged \/ onVisibilityChange
  \/ \E reason \in Reasons : suspend(reason) \/ resume(reason)

RefreshNext == Rounds \/ RefreshOperator \/ Surroundings

RefreshSpec == RefreshInit /\ [][RefreshNext]_refreshVars

(***************************************************************************)
(* The browser fires the timeouts that are armed.  A subscriber may never  *)
(* settle.                                                                 *)
(***************************************************************************)
RefreshLiveSpec ==
  /\ RefreshSpec
  /\ WF_refreshVars(timeout) /\ WF_refreshVars(roundCapped) /\ WF_refreshVars(graceOver)

-----------------------------------------------------------------------------
(***************************************************************************)
(* Properties                                                              *)
(***************************************************************************)
\* The values the store's refs range over.
RefreshTypeOK ==
  /\ enabled \in BOOLEAN /\ suspendedBy \subseteq Reasons
  /\ tabVisible \in BOOLEAN /\ busy \in BOOLEAN /\ timer \in BOOLEAN
  /\ round \in RefreshTriggers \cup {"none"} /\ aborted \in BOOLEAN
  /\ trailing \in (RefreshTriggers \ {"auto"}) \cup {"none"}
  /\ waiters \in 0..MaxWaiters /\ tickCount \in {0, 1}

\* Between rounds the timer is armed exactly when nothing forbids it, whatever
\* order the gates opened and closed in (eight handlers arm or disarm it, each
\* for its own gate); and it is never armed against a gate, so the countdown
\* secondsUntilNext shows is a deadline the page will keep.
TimerExact ==
  /\ ~roundRunning => (timer <=> effectiveEnabled /\ ~busy)
  /\ timer => effectiveEnabled /\ ~busy

\* Who waits for the page to be idle is not left waiting on an idle page, and
\* no remembered trigger is left behind (a dropped one still notifies).
NothingForgotten == ~roundRunning => trailing = "none" /\ waiters = 0

\* On a page that stays watched, unsuspended and switched on, and whose only
\* traffic is the round's own, rounds go on for ever: no wedged subscriber and
\* no missed arming stops them (ROUND_CAP_MS, ABORT_GRACE_MS).
Undisturbed == effectiveEnabled /\ (busy => roundRunning)
RefreshingGoesOn == <>[]Undisturbed => []<>(tickCount = 0) /\ []<>(tickCount = 1)
=============================================================================
