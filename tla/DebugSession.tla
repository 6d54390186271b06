---------------------------- MODULE DebugSession ----------------------------
(***************************************************************************)
(* One capture of the live debugger in one browser tab:                    *)
(* useDebugSession() of apps/ui/src/features/operate/live-debug/, the      *)
(* buttons and the route watch of the view that owns it, and the sessions  *)
(* of OAP behind the proxy of apps/bff/src/http/admin/live-debug.ts.       *)
(*                                                                         *)
(* A call is answered at any time after it was made and may fail; what the *)
(* page does up to its next await is an action.  Of a capture's records    *)
(* only the session they were read from is kept.                           *)
(***************************************************************************)
EXTENDS Naturals

CONSTANTS
  Ids,              \* bound: sessions of a behaviour
  Others,           \* those of them another tab started
  Calls,            \* bound: requests out at once
  PollGenerations,  \* bound: generations with polls out at once
  RetryBudget,      \* POLL_RETRY_BUDGET
  None              \* null

ASSUME OthersAssumption == Others \subseteq Ids /\ None \notin Ids
ASSUME SizesAssumption == PollGenerations \in Nat \ {0, 1} /\ RetryBudget \in Nat

PollEpochs == 0..(PollGenerations - 1)

VARIABLES
  oap,         \* each session on OAP
  state,       \* what the page calls the capture
  sessionId,   \* the session the page follows
  session,     \* the session whose records are shown
  gen,         \* pollGeneration, modulo PollGenerations
  pollTimer,   \* a poll is due in a second
  failures,    \* polls that failed in a row
  parked,      \* pausedForHidden
  visible,     \* the tab is shown
  alive,       \* the view is mounted
  call,        \* the requests out
  history,     \* the sessions the capture history lists
  orderly      \* ghost: nothing was asked while a start or a stop was out

shown == <<state, sessionId, session>>
pollVars == <<gen, pollTimer, failures, parked>>
captureVars == <<oap, shown, pollVars, visible, alive, call, history, orderly>>

noCall == [op |-> "none", id |-> None, gen |-> 0]
free(c) == call[c].op = "none"
becomes(c, op, id) == call' = [call EXCEPT ![c] = [op |-> op, id |-> id, gen |-> 0]]
ends(c) == call' = [call EXCEPT ![c] = noCall]

CaptureInit ==
  /\ oap = [i \in Ids |-> IF i \in Others THEN "live" ELSE "none"]
  /\ state = "idle" /\ sessionId = None /\ session = None
  /\ gen = 0 /\ pollTimer = FALSE /\ failures = 0 /\ parked = FALSE
  /\ visible = TRUE /\ alive = TRUE
  /\ call = [c \in Calls |-> noCall]
  /\ history = Others
  /\ orderly = TRUE

-----------------------------------------------------------------------------
(***************************************************************************)
(* OAP                                                                     *)
(***************************************************************************)
exists(i) == oap[i] \in {"live", "full"}

\* The session with the client's sessions of before it stopped.
installed(i) ==
  [j \in Ids |-> IF j = i THEN "live"
                 ELSE IF j \notin Others /\ exists(j) THEN "gone" ELSE oap[j]]

\* A start reaches OAP, which allocates a session or refuses; its answer may
\* be lost on the way back.
startServed(c) ==
  /\ call[c].op = "start"
  /\ \/ \E i \in Ids : /\ oap[i] = "none" /\ oap' = installed(i)
                       /\ \E op \in {"started", "startFailed"} : becomes(c, op, i)
     \/ becomes(c, "startFailed", None) /\ UNCHANGED oap
  /\ UNCHANGED <<shown, pollVars, visible, alive, history, orderly>>

\* Every node has its records, or the retention is over.
capturesAll(i) == oap[i] = "live" /\ oap' = [oap EXCEPT ![i] = "full"]

reaped(i) == exists(i) /\ oap' = [oap EXCEPT ![i] = "gone"]

sessionEnds(i) ==
  /\ capturesAll(i) \/ reaped(i)
  /\ UNCHANGED <<shown, pollVars, visible, alive, call, history, orderly>>

-----------------------------------------------------------------------------
(***************************************************************************)
(* Polling                                                                 *)
(***************************************************************************)
nextGen == IF gen + 1 = PollGenerations THEN 0 ELSE gen + 1

\* Whatever is polling now is superseded.
supersede ==
  /\ \A c \in Calls : call[c].op = "poll" => call[c].gen # nextGen
  /\ gen' = nextGen /\ pollTimer' = FALSE

pollNow(c, id) == call' = [call EXCEPT ![c] = [op |-> "poll", id |-> id, gen |-> gen']]

\* A hidden tab parks instead.
schedulePoll == pollTimer' = visible /\ parked' = (parked \/ ~visible)

timerFires(c) ==
  /\ pollTimer /\ pollTimer' = FALSE
  /\ UNCHANGED gen /\ free(c) /\ pollNow(c, sessionId)
  /\ UNCHANGED <<oap, shown, failures, parked, visible, alive, history, orderly>>

ofThisGeneration_Always(g) == TRUE  \* mutant: superseded polls are applied

ofThisGeneration(g) == g = gen

current(c) == call[c].op = "poll" /\ ofThisGeneration(call[c].gen)

\* No node left that could send more, or all have sent theirs.
derived(i) == IF oap[i] = "full" THEN {"captured"} ELSE {"capturing", "captured"}

pollReads(i) ==
  /\ exists(i) /\ session' = i /\ state' \in derived(i) /\ failures' = 0
  /\ IF state' = "capturing" THEN schedulePoll ELSE pollTimer' = FALSE /\ UNCHANGED parked

\* mutant: a session past its retention is asked for again
pollMisses_Retried(i) == ~exists(i) /\ failures' = 0 /\ schedulePoll /\ UNCHANGED <<state, session>>

\* Past its retention: what was read last is kept.
pollMisses(i) ==
  /\ ~exists(i) /\ state' = "captured" /\ failures' = 0
  /\ pollTimer' = FALSE /\ UNCHANGED <<session, parked>>

withinBudget_Always == TRUE  \* mutant: retries for ever

withinBudget == failures + 1 <= RetryBudget

retried_Forgotten == UNCHANGED <<pollTimer, parked>>  \* mutant: a blip ends the polling

retried == schedulePoll

\* Failures beyond the budget are not counted.
pollFails ==
  /\ UNCHANGED session
  /\ IF withinBudget
     THEN failures' = failures + 1 /\ retried /\ UNCHANGED state
     ELSE /\ failures' = RetryBudget + 1 /\ state' = "error"
          /\ pollTimer' = FALSE /\ UNCHANGED parked

pollAnswered(c) ==
  /\ call[c].op = "poll" /\ ends(c)
  /\ IF current(c)
     THEN pollReads(call[c].id) \/ pollMisses(call[c].id) \/ pollFails
     ELSE UNCHANGED <<state, session, pollTimer, failures, parked>>
  /\ UNCHANGED <<oap, sessionId, gen, visible, alive, history, orderly>>

-----------------------------------------------------------------------------
(***************************************************************************)
(* The operator                                                            *)
(***************************************************************************)
outstanding == \E c \in Calls : call[c].op \notin {"none", "poll"}

\* The operator asks for something, or leaves.
asks == orderly' = (orderly /\ ~outstanding)

startEnabled == alive /\ visible /\ state \in {"idle", "captured", "stopped", "error"}

start(c) ==
  /\ startEnabled /\ free(c)
  /\ supersede /\ failures' = 0 /\ parked' = FALSE
  /\ state' = "starting" /\ session' = None /\ sessionId' = None
  /\ becomes(c, "start", None)
  /\ asks
  /\ UNCHANGED <<oap, visible, alive, history>>

\* The session is followed from now on, whatever was asked meanwhile.
startAnswered(c) ==
  /\ call[c].op = "started"
  /\ sessionId' = call[c].id /\ state' = "capturing"
  /\ UNCHANGED gen /\ pollNow(c, call[c].id)
  /\ history' = IF alive THEN history \cup {call[c].id} ELSE history
  /\ UNCHANGED <<oap, session, pollTimer, failures, parked, visible, alive, orderly>>

startFailed(c) ==
  /\ call[c].op = "startFailed" /\ ends(c)
  /\ state' = "error"
  /\ UNCHANGED <<oap, sessionId, session, pollVars, visible, alive, history, orderly>>

\* The route names a session of the capture history.
resumeCapture(c, i) ==
  /\ alive /\ visible /\ i \in history /\ sessionId # i /\ free(c)
  /\ supersede /\ failures' = 0 /\ parked' = FALSE
  /\ state' = "capturing" /\ session' = None /\ sessionId' = i
  /\ pollNow(c, i)
  /\ asks
  /\ UNCHANGED <<oap, visible, alive, history>>

stopEnabled == alive /\ visible /\ state \in {"capturing", "starting"}

\* A page that has no session yet has nothing to stop.
stop(c) ==
  /\ stopEnabled /\ supersede
  /\ IF sessionId = None
     THEN state' = "idle" /\ UNCHANGED call
     ELSE free(c) /\ becomes(c, "stop", sessionId) /\ UNCHANGED state
  /\ asks
  /\ UNCHANGED <<oap, sessionId, session, failures, parked, visible, alive, history>>

detached(i) == oap' = [oap EXCEPT ![i] = "gone"]

\* One more read follows, for the status the nodes have now.
stopAnswered(c) ==
  /\ call[c].op = "stop"
  /\ \/ /\ detached(call[c].id)
        /\ state' = "stopped" /\ becomes(c, "refresh", call[c].id)
     \/ /\ detached(call[c].id) \/ UNCHANGED oap
        /\ state' = "error" /\ ends(c)
  /\ UNCHANGED <<sessionId, session, pollVars, visible, alive, history, orderly>>

refreshAnswered(c) ==
  /\ call[c].op = "refresh" /\ ends(c)
  /\ session' \in {call[c].id, session}
  /\ UNCHANGED <<oap, state, sessionId, pollVars, visible, alive, history, orderly>>

onVisibilityHidden ==
  /\ visible /\ visible' = FALSE
  /\ pollTimer' = (pollTimer /\ ~alive)
  /\ UNCHANGED <<oap, shown, gen, failures, parked, alive, call, history, orderly>>

unparks == alive /\ parked /\ state = "capturing" /\ sessionId # None

onVisibilityShown(c) ==
  /\ ~visible /\ visible' = TRUE
  /\ IF unparks
     THEN parked' = FALSE /\ UNCHANGED gen /\ free(c) /\ pollNow(c, sessionId)
     ELSE UNCHANGED <<parked, gen, call>>
  /\ UNCHANGED <<oap, shown, pollTimer, failures, alive, history, orderly>>

\* The scope of the view is disposed of.
dispose ==
  /\ alive /\ alive' = FALSE
  /\ supersede
  /\ asks
  /\ UNCHANGED <<oap, shown, failures, parked, visible, call, history>>

-----------------------------------------------------------------------------
Answers(c) ==
  \/ startServed(c) \/ startAnswered(c) \/ startFailed(c)
  \/ pollAnswered(c) \/ stopAnswered(c) \/ refreshAnswered(c)
CaptureOperator(c) ==
  start(c) \/ stop(c) \/ onVisibilityShown(c) \/ \E i \in Ids : resumeCapture(c, i)

CaptureNext ==
  \/ \E c \in Calls : Answers(c) \/ timerFires(c) \/ CaptureOperator(c)
  \/ onVisibilityHidden \/ dispose
  \/ \E i \in Ids : sessionEnds(i)

CaptureSpec == CaptureInit /\ [][CaptureNext]_captureVars

(***************************************************************************)
(* Requests are answered, the browser fires a timeout of a shown tab, and  *)
(* OAP reaps every session when its retention is over.                     *)
(***************************************************************************)
CaptureLiveSpec ==
  /\ CaptureSpec
  /\ \A c \in Calls : WF_captureVars(Answers(c))
  /\ WF_captureVars(\E c \in Calls : timerFires(c))
  /\ \A i \in Ids : WF_captureVars(reaped(i) /\ sessionEnds(i))

-----------------------------------------------------------------------------
(***************************************************************************)
(* Properties                                                              *)
(***************************************************************************)
\* The values the refs and locals of useDebugSession() range over.
CaptureTypeOK ==
  /\ oap \in [Ids -> {"none", "live", "full", "gone"}]
  /\ state \in {"idle", "starting", "capturing", "captured", "stopped", "error"}
  /\ sessionId \in Ids \cup {None} /\ session \in Ids \cup {None}
  /\ gen \in PollEpochs /\ pollTimer \in BOOLEAN /\ failures \in 0..(RetryBudget + 1)
  /\ parked \in BOOLEAN /\ visible \in BOOLEAN /\ alive \in BOOLEAN
  /\ call \in [Calls -> [op : {"none", "start", "started", "startFailed", "poll", "stop", "refresh"},
                         id : Ids \cup {None}, gen : PollEpochs]]
  /\ history \subseteq Ids
  /\ orderly \in BOOLEAN

pollsOut == {c \in Calls : call[c].op = "poll" /\ call[c].gen = gen}
driven == pollTimer \/ pollsOut # {} \/ (parked /\ ~visible)

\* An operator who lets a start or a stop finish before asking for the next
\* thing, sees one session: the records are of the session followed, a capture
\* that is over is not polled, a view that is gone asks nothing, and no second
\* poll runs beside the first, whatever polls of before are still out.
OrderlyPage ==
  orderly =>
    /\ session \in {None, sessionId}
    /\ state \in {"idle", "starting", "captured", "stopped", "error"} \/ ~alive =>
         ~pollTimer /\ pollsOut = {}
    /\ pollTimer => pollsOut = {} /\ visible
    /\ \A c, d \in pollsOut : c = d

\* Failures, hidden tabs and superseded polls do not end the polling of a
\* capture; what does is a tab hidden with a poll due, or the operator
\* (POLL_RETRY_BUDGET, PAUSE_ON_HIDDEN).
PollingKept ==
  [][driven /\ alive /\ state' = "capturing" /\ ~driven' => (pollTimer /\ ~visible') \/ gen' # gen]_captureVars

\* In a tab that stays shown, a capture the operator leaves alone is not shown
\* as running for ever: it ends on OAP, and the page finds out or says that it
\* cannot, whichever of its polls fail (poll, l. 162-195).
WatchedCapturesEnd ==
  []visible /\ <>[][gen' = gen]_captureVars
    => <>[](state \notin {"starting", "capturing"} \/ ~alive)
=============================================================================
