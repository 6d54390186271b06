----------------------- MODULE StoreLifecycle_proofs -----------------------
(***************************************************************************)
(* What open() and close() of an audit store guarantee under the service's *)
(* callers.                                                                *)
(***************************************************************************)
EXTENDS StoreLifecycle, TLAPS

\* The values the store's fields range over.
StoreTypes ==
  /\ kind \in {"postgres", "banyandb"}
  /\ held \subseteq Conns /\ building \subseteq Conns /\ live \subseteq Conns /\ ready \subseteq Conns
  /\ phase \in {"idle", "reading", "connecting", "migrating"}
  /\ closed \in BOOLEAN

\* The values the service's variables range over.
ServiceTypes ==
  /\ timer \in BOOLEAN /\ stopping \in BOOLEAN /\ reachable \in BOOLEAN /\ deadline \in BOOLEAN
  /\ call \in [Callers -> {"none", "waiting", "opened", "failed"}]
  /\ step \in [Callers -> {"idle", "opening", "writing", "vouching", "joining", "draining", "over"}]

TypeOK == StoreTypes /\ ServiceTypes

\* What a runOpen() has made and published, phase by phase, and what it leaves.
Phases ==
  /\ phase \in {"idle", "reading"} => building = {}
  /\ phase \in {"reading", "connecting"} => held = {}
  /\ phase = "connecting" => kind = "banyandb"
  /\ phase = "migrating" => held \subseteq building
  /\ phase = "migrating" /\ kind = "postgres" => held = {}
  /\ phase = "connecting" \/ ~closed => building \subseteq live
  /\ phase = "idle" => held \subseteq ready

StoreInv == StoreTypes /\ Phases /\ NoConnectionLost

\* The callers take turns: the tick follows the start, the drain follows both.
Turns ==
  /\ step["start"] \in {"idle", "opening", "over"}
  /\ step["tick"] \in {"idle", "opening", "writing", "vouching"}
  /\ step["stop"] \in {"idle", "joining", "opening", "draining", "over"}
  /\ stopping <=> step["stop"] # "idle"
  /\ timer => step["start"] = "over" /\ ~stopping
  /\ step["tick"] # "idle" => step["start"] = "over"
  /\ step["stop"] \in {"opening", "draining", "over"} =>
       step["tick"] = "idle" /\ step["start"] # "opening"
  /\ \A c \in Callers : call[c] # "none" => step[c] \in {"opening", "vouching"}

\* A store that is being opened is used by nobody but the one who waits for it.
Used ==
  /\ \A c \in Callers : call[c] = "opened" => phase = "idle"
  /\ step["tick"] = "writing" => phase = "idle"
  /\ phase # "idle" => \E c \in Callers : call[c] = "waiting"

IInv == StoreInv /\ ServiceTypes /\ Turns /\ Used

\* A fresh service has opened nothing.
LEMMA InitIInv == Init => IInv
<1> SUFFICES ASSUME Init PROVE IInv
  OBVIOUS
<1>1. StoreInv
  BY DEF Init, StoreInv, StoreTypes, Phases, NoConnectionLost
<1>2. ServiceTypes /\ Turns /\ Used
  BY DEF Init, ServiceTypes, Turns, Used, Callers
<1> QED
  BY <1>1, <1>2 DEF IInv

\* The store after a call of open(): a flight begins only from a store that
\* holds nothing.
LEMMA OpenKeepsStore ==
  ASSUME StoreInv, NEW c \in Callers, open(c), UNCHANGED kind
  PROVE  /\ StoreInv'
         /\ \/ call' = [call EXCEPT ![c] = "opened"] /\ UNCHANGED storeVars /\ phase = "idle"
            \/ call' = [call EXCEPT ![c] = "waiting"] /\ phase' # "idle"
<1>1. CASE alreadyOpen
  <2>1. call' = [call EXCEPT ![c] = "opened"] /\ UNCHANGED storeVars
    BY <1>1 DEF open
  <2>2. phase = "idle"
    BY <1>1 DEF alreadyOpen, flightOut, StoreInv, StoreTypes, Phases
  <2> QED
    BY <2>1, <2>2 DEF StoreInv, StoreTypes, Phases, NoConnectionLost, storeVars
<1>2. CASE ~alreadyOpen /\ flightOut
  <2>1. call' = [call EXCEPT ![c] = "waiting"] /\ UNCHANGED storeVars
    BY <1>2 DEF open
  <2> QED
    BY <1>2, <2>1 DEF StoreInv, StoreTypes, Phases, NoConnectionLost, storeVars, flightOut
<1>3. CASE ~alreadyOpen /\ ~flightOut
  <2>1. call' = [call EXCEPT ![c] = "waiting"] /\ runOpen
    BY <1>3 DEF open
  <2>2. phase = "idle" /\ held = {} /\ building = {} /\ live = {}
    BY <1>3 DEF alreadyOpen, flightOut, StoreInv, StoreTypes, Phases, NoConnectionLost
  <2>3. CASE kind = "postgres"
    BY <2>1, <2>2, <2>3 DEF runOpen, StoreInv, StoreTypes, Phases, NoConnectionLost
  <2>4. CASE kind # "postgres"
    <3>1. PICK d \in Conns : building' = {d} /\ live' = {d}
      BY <2>1, <2>2, <2>4 DEF runOpen
    <3> QED
      BY <2>1, <2>2, <2>4, <3>1 DEF runOpen, StoreInv, StoreTypes, Phases, NoConnectionLost
  <2> QED
    BY <2>3, <2>4
<1> QED
  BY <1>1, <1>2, <1>3

\* What is disposed of is all there is.
LEMMA Disposed ==
  ASSUME StoreInv, phase # "idle", dispose
  PROVE  live' = {} /\ held' = {} /\ ready' \subseteq Conns
<1>1. live \subseteq held \cup building
  BY DEF StoreInv, NoConnectionLost
<1>2. CASE kind = "banyandb"
  <2>1. held \subseteq building
    BY <1>2 DEF StoreInv, StoreTypes, Phases
  <2> QED
    BY <1>1, <1>2, <2>1 DEF dispose, StoreInv, StoreTypes
<1>3. CASE kind = "postgres"
  <2>1. held = {}
    BY <1>3 DEF StoreInv, StoreTypes, Phases
  <2> QED
    BY <1>1, <1>3, <2>1 DEF dispose, StoreInv, StoreTypes
<1> QED
  BY <1>2, <1>3 DEF StoreInv, StoreTypes

\* An open under way goes on, is overtaken, or fails.
LEMMA OpenProceedsKeepsStore ==
  ASSUME StoreInv, openProceeds
  PROVE  /\ StoreInv'
         /\ \/ phase # "idle" /\ phase' # "idle" /\ call' = call
            \/ \E outcome \in {"opened", "failed"} : settled(outcome)
<1>0. kind' = kind
  BY DEF openProceeds
<1>1. CASE poolBuilt
  <2>1. phase = "reading" /\ phase' = "migrating" /\ UNCHANGED <<held, closed, ready, call>>
    BY <1>1 DEF poolBuilt
  <2>2. held = {} /\ live = {}
    BY <2>1 DEF StoreInv, Phases, NoConnectionLost
  <2>3. PICK d \in Conns : building' = {d} /\ live' = {d}
    BY <1>1, <2>2 DEF poolBuilt
  <2> QED
    BY <1>0, <2>1, <2>2, <2>3 DEF StoreInv, StoreTypes, Phases, NoConnectionLost
<1>2. CASE connected
  <2>1. /\ phase = "connecting" /\ held' = building /\ phase' = "migrating"
        /\ UNCHANGED <<building, closed, live, ready, call>>
    BY <1>2 DEF connected
  <2>2. held = {} /\ building \subseteq live /\ live \subseteq building
    BY <2>1 DEF StoreInv, Phases, NoConnectionLost
  <2>3. kind = "banyandb"
    BY <2>1 DEF StoreInv, Phases
  <2> QED
    BY <1>0, <2>1, <2>2, <2>3 DEF StoreInv, StoreTypes, Phases, NoConnectionLost
<1>3. CASE migrated
  <2>1. phase = "migrating" /\ settled("opened") /\ closed' = closed
    BY <1>3 DEF migrated
  <2>2. phase' = "idle" /\ building' = {}
    BY <2>1 DEF settled
  <2>3. CASE closed
    <3>1. live' = {} /\ held' = {} /\ ready' \subseteq Conns
      BY <1>3, <2>1, <2>3, Disposed DEF migrated, overtaken
    <3> QED
      BY <1>0, <2>1, <2>2, <2>3, <3>1 DEF StoreInv, StoreTypes, Phases, NoConnectionLost
  <2>4. CASE ~closed
    <3>1. held' = building /\ ready' = ready \cup building /\ live' = live
      BY <1>3, <2>4 DEF migrated, overtaken
    <3>2. building \subseteq live /\ live \subseteq building
      BY <2>1, <2>4 DEF StoreInv, Phases, NoConnectionLost
    <3> QED
      BY <1>0, <2>1, <2>2, <2>4, <3>1, <3>2 DEF StoreInv, StoreTypes, Phases, NoConnectionLost
  <2> QED
    BY <2>3, <2>4
<1>4. CASE openFails
  <2>1. phase # "idle" /\ dispose /\ settled("failed") /\ closed' = closed
    BY <1>4 DEF openFails
  <2>2. live' = {} /\ held' = {} /\ ready' \subseteq Conns /\ phase' = "idle" /\ building' = {}
    BY <2>1, Disposed DEF settled
  <2> QED
    BY <1>0, <2>1, <2>2 DEF StoreInv, StoreTypes, Phases, NoConnectionLost
<1> QED
  BY <1>1, <1>2, <1>3, <1>4 DEF openProceeds

\* A close takes what is published; what is being built is disposed of later.
LEMMA CloseKeepsStore ==
  ASSUME StoreInv, close, UNCHANGED kind
  PROVE  StoreInv' /\ phase' = phase
<1>1. /\ closed' = TRUE /\ live' = live \ held /\ ready' = ready \ held /\ held' = {}
      /\ building' = building /\ phase' = phase
  BY DEF close
<1>2. phase = "connecting" => building \subseteq live'
  BY <1>1 DEF StoreInv, Phases
<1> QED
  BY <1>1, <1>2 DEF StoreInv, StoreTypes, Phases, NoConnectionLost

\* Who has a call of open() out is the only one, and nobody writes meanwhile.
LEMMA OneCaller ==
  ASSUME IInv, NEW c \in Callers, step[c] \in {"opening", "vouching"}
  PROVE  /\ \A d \in Callers : d # c => call[d] = "none"
         /\ step["tick"] # "writing"
<1>1. c = "start" \/ c = "tick" \/ c = "stop"
  BY DEF Callers
<1> QED
  BY <1>1 DEF IInv, Turns, Callers

\* A caller who had none out calls open() and goes on to wait for it.
LEMMA CallsOpen ==
  ASSUME IInv, NEW c \in Callers, open(c), UNCHANGED <<kind, serviceVars>>,
         NEW where \in {"opening", "vouching"}, goesTo(c, where),
         \A d \in Callers : call[d] = "none", c = "tick" \/ step["tick"] # "writing"
  PROVE  StoreInv' /\ ServiceTypes' /\ Used'
<1>1. /\ StoreInv'
      /\ \/ call' = [call EXCEPT ![c] = "opened"] /\ UNCHANGED storeVars /\ phase = "idle"
         \/ call' = [call EXCEPT ![c] = "waiting"] /\ phase' # "idle"
  BY OpenKeepsStore DEF IInv
<1>2. call \in [Callers -> {"none", "waiting", "opened", "failed"}]
      /\ step \in [Callers -> {"idle", "opening", "writing", "vouching", "joining", "draining", "over"}]
      /\ step' = [step EXCEPT ![c] = where] /\ "tick" \in Callers
  BY DEF IInv, ServiceTypes, goesTo, Callers
<1>3. ServiceTypes'
  BY <1>1, <1>2 DEF IInv, ServiceTypes, serviceVars
<1>4. step'["tick"] # "writing"
  BY <1>2
<1>5. CASE call' = [call EXCEPT ![c] = "opened"] /\ UNCHANGED storeVars /\ phase = "idle"
  BY <1>1, <1>2, <1>3, <1>4, <1>5 DEF Used, storeVars
<1>6. CASE call' = [call EXCEPT ![c] = "waiting"] /\ phase' # "idle"
  <2>1. call'[c] = "waiting" /\ \A d \in Callers : call'[d] # "opened"
    BY <1>2, <1>6
  <2> QED
    BY <1>1, <1>3, <1>4, <2>1 DEF Used
<1> QED
  BY <1>1, <1>5, <1>6

\* A caller whose open() is over probes the store and goes on.
LEMMA Probes ==
  ASSUME IInv, NEW c \in Callers, probed(c), UNCHANGED <<kind, storeVars>>,
         step[c] \in {"opening", "vouching"},
         NEW where \in {"idle", "writing", "draining", "over"}, goesTo(c, where),
         where = "writing" => c = "tick" /\ reachable',
         timer' \in BOOLEAN, stopping' \in BOOLEAN, deadline' \in BOOLEAN
  PROVE  StoreInv' /\ ServiceTypes' /\ Used' /\ call' = [d \in Callers |-> "none"]
<1>1. /\ call \in [Callers -> {"none", "waiting", "opened", "failed"}]
      /\ step \in [Callers -> {"idle", "opening", "writing", "vouching", "joining", "draining", "over"}]
      /\ step' = [step EXCEPT ![c] = where] /\ call' = [call EXCEPT ![c] = "none"]
      /\ call[c] \in {"opened", "failed"} /\ reachable' \in BOOLEAN
  BY DEF IInv, ServiceTypes, goesTo, probed
<1>2. StoreInv' /\ phase' = phase
  BY DEF IInv, StoreInv, StoreTypes, Phases, NoConnectionLost, storeVars
<1>3. ServiceTypes'
  BY <1>1 DEF ServiceTypes
<1>4. (\A d \in Callers : d # c => call[d] = "none") /\ step["tick"] # "writing"
  BY OneCaller
<1>5. call' = [d \in Callers |-> "none"]
  BY <1>1, <1>4
<1>6. phase = "idle"
  <2>1. \A d \in Callers : call[d] # "waiting"
    BY <1>1, <1>4
  <2> QED
    BY <2>1 DEF IInv, Used
<1>7. Used'
  BY <1>2, <1>5, <1>6 DEF Used
<1> QED
  BY <1>2, <1>3, <1>5, <1>7

\* An open under way settles for the one who waits.
LEMMA Proceeds ==
  ASSUME IInv, openProceeds
  PROVE  IInv'
<1>0. UNCHANGED <<kind, step, serviceVars>>
  BY DEF openProceeds
<1>1. /\ StoreInv'
      /\ \/ phase # "idle" /\ phase' # "idle" /\ call' = call
         \/ \E outcome \in {"opened", "failed"} : settled(outcome)
  BY OpenProceedsKeepsStore DEF IInv
<1>2. phase # "idle"
  BY DEF openProceeds, poolBuilt, connected, migrated, openFails
<1>3. PICK c \in Callers : call[c] = "waiting"
  BY <1>2 DEF IInv, Used
<1>4. step[c] \in {"opening", "vouching"}
  BY <1>3 DEF IInv, Turns
<1>5. (\A d \in Callers : d # c => call[d] = "none") /\ step["tick"] # "writing"
  BY <1>4, OneCaller
<1>6. CASE phase' # "idle" /\ call' = call
  BY <1>0, <1>1, <1>3, <1>5, <1>6 DEF IInv, ServiceTypes, Turns, Used, serviceVars
<1>7. ASSUME NEW outcome \in {"opened", "failed"}, settled(outcome) PROVE IInv'
  <2>1. phase' = "idle" /\ call' = [d \in Callers |-> IF call[d] = "waiting" THEN outcome ELSE call[d]]
    BY <1>7 DEF settled
  <2>2. ServiceTypes'
    BY <1>0, <2>1 DEF IInv, ServiceTypes, serviceVars
  <2>3. Turns'
    BY <1>0, <2>1 DEF IInv, Turns, serviceVars
  <2>4. Used'
    BY <2>1 DEF Used
  <2> QED
    BY <1>1, <2>2, <2>3, <2>4 DEF IInv
<1> QED
  BY <1>1, <1>6, <1>7

\* Nobody has a call out, and nobody writes, while the drain is about to begin
\* or under way; nor is a store opened then.
LEMMA Quiet ==
  ASSUME IInv, \A c \in Callers : step[c] \notin {"opening", "vouching"}
  PROVE  (\A c \in Callers : call[c] = "none") /\ phase = "idle"
<1>1. \A c \in Callers : call[c] = "none"
  BY DEF IInv, Turns
<1> QED
  BY <1>1 DEF IInv, Used

\* One step per action.
LEMMA NextIInv == IInv /\ [Next]_vars => IInv'
<1> SUFFICES ASSUME IInv, [Next]_vars PROVE IInv'
  OBVIOUS
<1>0. /\ call \in [Callers -> {"none", "waiting", "opened", "failed"}]
      /\ step \in [Callers -> {"idle", "opening", "writing", "vouching", "joining", "draining", "over"}]
      /\ timer \in BOOLEAN /\ stopping \in BOOLEAN /\ reachable \in BOOLEAN /\ deadline \in BOOLEAN
      /\ "start" \in Callers /\ "tick" \in Callers /\ "stop" \in Callers
  BY DEF IInv, ServiceTypes, Callers
<1>1. CASE openProceeds
  BY <1>1, Proceeds
<1>2. CASE runStart
  <2>1. /\ step["start"] = "idle" /\ ~stopping /\ goesTo("start", "opening") /\ open("start")
        /\ UNCHANGED <<kind, serviceVars>>
    BY <1>2 DEF runStart
  <2>2. step["tick"] = "idle" /\ step["stop"] = "idle"
    BY <2>1 DEF IInv, Turns
  <2>3. \A c \in Callers : call[c] = "none"
    BY <2>1, <2>2, Quiet DEF Callers
  <2>4. StoreInv' /\ ServiceTypes' /\ Used'
    BY <1>0, <2>1, <2>2, <2>3, CallsOpen
  <2>5. Turns'
    <3>1. step' = [step EXCEPT !["start"] = "opening"] /\ \A c \in Callers : c # "start" => call'[c] = "none"
      BY <1>0, <2>1, <2>3 DEF goesTo, open
    <3> QED
      BY <1>0, <2>1, <2>2, <3>1 DEF IInv, Turns, Callers, serviceVars
  <2> QED
    BY <2>4, <2>5 DEF IInv
<1>3. CASE startOver
  <2>1. /\ step["start"] = "opening" /\ probed("start") /\ goesTo("start", "over")
        /\ timer' = ~stopping /\ UNCHANGED <<kind, storeVars, stopping, deadline>>
    BY <1>3 DEF startOver
  <2>2. StoreInv' /\ ServiceTypes' /\ Used' /\ call' = [d \in Callers |-> "none"]
    BY <1>0, <2>1, Probes
  <2>3. Turns'
    BY <1>0, <2>1, <2>2 DEF IInv, Turns, Callers, goesTo
  <2> QED
    BY <2>2, <2>3 DEF IInv
<1>4. CASE runTick
  <2>1. timer /\ ~stopping /\ step["tick"] = "idle" /\ UNCHANGED <<kind, serviceVars>>
    BY <1>4 DEF runTick
  <2>2. step["start"] = "over" /\ step["stop"] = "idle"
    BY <2>1 DEF IInv, Turns
  <2>3. (\A c \in Callers : call[c] = "none") /\ phase = "idle"
    BY <2>1, <2>2, Quiet DEF Callers
  <2>4. CASE reachable
    <3>1. step' = [step EXCEPT !["tick"] = "writing"] /\ UNCHANGED <<storeVars, call>>
      BY <1>4, <2>4 DEF runTick, goesTo
    <3>2. StoreInv' /\ phase' = phase
      BY <2>1, <3>1 DEF IInv, StoreInv, StoreTypes, Phases, NoConnectionLost, storeVars
    <3>3. ServiceTypes' /\ Turns' /\ Used'
      BY <1>0, <2>1, <2>2, <2>3, <3>1, <3>2 DEF IInv, ServiceTypes, Turns, Used, Callers, serviceVars
    <3> QED
      BY <3>2, <3>3 DEF IInv
  <2>5. CASE ~reachable
    <3>1. goesTo("tick", "opening") /\ open("tick")
      BY <1>4, <2>5 DEF runTick
    <3>2. StoreInv' /\ ServiceTypes' /\ Used'
      BY <1>0, <2>1, <2>3, <3>1, CallsOpen
    <3>3. step' = [step EXCEPT !["tick"] = "opening"] /\ \A c \in Callers : c # "tick" => call'[c] = "none"
      BY <1>0, <2>3, <3>1 DEF goesTo, open
    <3>4. Turns'
      BY <1>0, <2>1, <2>2, <3>3 DEF IInv, Turns, Callers, serviceVars
    <3> QED
      BY <3>2, <3>4 DEF IInv
  <2> QED
    BY <2>4, <2>5
<1>5. CASE tickProbed
  <2>1. /\ step["tick"] = "opening" /\ probed("tick")
        /\ goesTo("tick", IF reachable' THEN "writing" ELSE "idle")
        /\ UNCHANGED <<kind, storeVars, timer, stopping, deadline>>
    BY <1>5 DEF tickProbed
  <2>2. PICK where \in {"idle", "writing"} : goesTo("tick", where) /\ (where = "writing" => reachable')
    BY <2>1
  <2>3. StoreInv' /\ ServiceTypes' /\ Used' /\ call' = [d \in Callers |-> "none"]
    BY <1>0, <2>1, <2>2, Probes
  <2>4. Turns'
    BY <1>0, <2>1, <2>2, <2>3 DEF IInv, Turns, Callers, goesTo
  <2> QED
    BY <2>3, <2>4 DEF IInv
<1>6. CASE tickWritten
  <2>1. step["tick"] = "writing" /\ UNCHANGED <<kind, timer, stopping, deadline>>
    BY <1>6 DEF tickWritten
  <2>2. step["start"] = "over" /\ step["stop"] \in {"idle", "joining"}
    BY <2>1 DEF IInv, Turns
  <2>3. (\A c \in Callers : call[c] = "none") /\ phase = "idle"
    BY <2>1, <2>2, Quiet DEF Callers
  <2>4. CASE goesTo("tick", "idle") /\ reachable' \in {reachable, FALSE} /\ UNCHANGED <<storeVars, call>>
    <3>1. StoreInv' /\ phase' = phase
      BY <2>1, <2>4 DEF IInv, StoreInv, StoreTypes, Phases, NoConnectionLost, storeVars
    <3>2. step' = [step EXCEPT !["tick"] = "idle"]
      BY <2>4 DEF goesTo
    <3>3. ServiceTypes' /\ Turns' /\ Used'
      BY <1>0, <2>1, <2>2, <2>3, <2>4, <3>1, <3>2 DEF IInv, ServiceTypes, Turns, Used, Callers
    <3> QED
      BY <3>1, <3>3 DEF IInv
  <2>5. CASE goesTo("tick", "vouching") /\ open("tick") /\ UNCHANGED reachable
    <3>1. StoreInv' /\ ServiceTypes' /\ Used'
      BY <1>0, <2>1, <2>3, <2>5, CallsOpen DEF serviceVars
    <3>2. step' = [step EXCEPT !["tick"] = "vouching"] /\ \A c \in Callers : c # "tick" => call'[c] = "none"
      BY <1>0, <2>3, <2>5 DEF goesTo, open
    <3>3. Turns'
      BY <1>0, <2>1, <2>2, <3>2 DEF IInv, Turns, Callers
    <3> QED
      BY <3>1, <3>3 DEF IInv
  <2> QED
    BY <1>6, <2>4, <2>5 DEF tickWritten
<1>7. CASE tickVouched
  <2>1. /\ step["tick"] = "vouching" /\ probed("tick") /\ goesTo("tick", "idle")
        /\ UNCHANGED <<kind, storeVars, timer, stopping, deadline>>
    BY <1>7 DEF tickVouched
  <2>2. StoreInv' /\ ServiceTypes' /\ Used' /\ call' = [d \in Callers |-> "none"]
    BY <1>0, <2>1, Probes
  <2>3. Turns'
    BY <1>0, <2>1, <2>2 DEF IInv, Turns, Callers, goesTo
  <2> QED
    BY <2>2, <2>3 DEF IInv
<1>8. CASE stop
  <2>1. /\ ~stopping /\ stopping' = TRUE /\ timer' = FALSE /\ step' = [step EXCEPT !["stop"] = "joining"]
        /\ UNCHANGED <<kind, storeVars, call, reachable, deadline>>
    BY <1>8 DEF stop, goesTo
  <2>2. StoreInv' /\ phase' = phase
    BY <2>1 DEF IInv, StoreInv, StoreTypes, Phases, NoConnectionLost, storeVars
  <2>3. step["stop"] = "idle"
    BY <2>1 DEF IInv, Turns
  <2>4. ServiceTypes' /\ Turns' /\ Used'
    BY <1>0, <2>1, <2>2, <2>3 DEF IInv, ServiceTypes, Turns, Used, Callers
  <2> QED
    BY <2>2, <2>4 DEF IInv
<1>9. CASE drainBegins
  <2>1. /\ step["stop"] = "joining" /\ step["start"] # "opening" /\ step["tick"] = "idle"
        /\ UNCHANGED <<kind, serviceVars>>
    BY <1>9 DEF drainBegins, joined
  <2>2. (\A c \in Callers : call[c] = "none") /\ phase = "idle"
    <3>1. step["start"] # "vouching"
      BY DEF IInv, Turns
    <3> QED
      BY <2>1, <3>1, Quiet DEF Callers
  <2>3. CASE reachable /\ goesTo("stop", "draining") /\ UNCHANGED <<storeVars, call>>
    <3>1. StoreInv' /\ phase' = phase
      BY <2>1, <2>3 DEF IInv, StoreInv, StoreTypes, Phases, NoConnectionLost, storeVars
    <3>2. step' = [step EXCEPT !["stop"] = "draining"]
      BY <2>3 DEF goesTo
    <3>3. ServiceTypes' /\ Turns' /\ Used'
      BY <1>0, <2>1, <2>2, <2>3, <3>1, <3>2 DEF IInv, ServiceTypes, Turns, Used, Callers, serviceVars
    <3> QED
      BY <3>1, <3>3 DEF IInv
  <2>4. CASE goesTo("stop", "opening") /\ open("stop")
    <3>1. StoreInv' /\ ServiceTypes' /\ Used'
      BY <1>0, <2>1, <2>2, <2>4, CallsOpen
    <3>2. step' = [step EXCEPT !["stop"] = "opening"] /\ \A c \in Callers : c # "stop" => call'[c] = "none"
      BY <1>0, <2>2, <2>4 DEF goesTo, open
    <3>3. Turns'
      BY <1>0, <2>1, <3>2 DEF IInv, Turns, Callers, serviceVars
    <3> QED
      BY <3>1, <3>3 DEF IInv
  <2> QED
    BY <1>9, <2>3, <2>4 DEF drainBegins
<1>10. CASE drainOpened
  <2>1. /\ step["stop"] = "opening" /\ probed("stop") /\ goesTo("stop", "draining")
        /\ UNCHANGED <<kind, storeVars, timer, stopping, deadline>>
    BY <1>10 DEF drainOpened
  <2>2. StoreInv' /\ ServiceTypes' /\ Used' /\ call' = [d \in Callers |-> "none"]
    BY <1>0, <2>1, Probes
  <2>3. Turns'
    BY <1>0, <2>1, <2>2 DEF IInv, Turns, Callers, goesTo
  <2> QED
    BY <2>2, <2>3 DEF IInv
<1>11. CASE drainEnds
  <2>1. /\ step["stop"] = "draining" /\ close /\ step' = [step EXCEPT !["stop"] = "over"]
        /\ UNCHANGED <<kind, call, serviceVars>>
    BY <1>11 DEF drainEnds, goesTo
  <2>2. StoreInv' /\ phase' = phase
    BY <2>1, CloseKeepsStore DEF IInv
  <2>3. ServiceTypes' /\ Turns' /\ Used'
    BY <1>0, <2>1, <2>2 DEF IInv, ServiceTypes, Turns, Used, Callers, serviceVars
  <2> QED
    BY <2>2, <2>3 DEF IInv
<1>12. CASE deadlineReached
  <2>1. deadline' = TRUE /\ close /\ UNCHANGED <<kind, call, step, timer, stopping, reachable>>
    BY <1>12 DEF deadlineReached
  <2>2. StoreInv' /\ phase' = phase
    BY <2>1, CloseKeepsStore DEF IInv
  <2>3. ServiceTypes' /\ Turns' /\ Used'
    BY <1>0, <2>1, <2>2 DEF IInv, ServiceTypes, Turns, Used
  <2> QED
    BY <2>2, <2>3 DEF IInv
<1>13. CASE UNCHANGED vars
  BY <1>13 DEF vars, storeVars, serviceVars, IInv, StoreInv, StoreTypes, Phases, NoConnectionLost,
     ServiceTypes, Turns, Used
<1> QED
  BY <1>1, <1>2, <1>3, <1>4, <1>5, <1>6, <1>7, <1>8, <1>9, <1>10, <1>11, <1>12, <1>13
     DEF Next, Tick, Stop

\* The invariant holds in every reachable state.
THEOREM InvariantHolds == Spec => []IInv
  BY InitIInv, NextIInv, PTL DEF Spec

\* The fields of the store and of the service keep their types.
THEOREM TypeCorrect == Spec => []TypeOK
<1>1. IInv => TypeOK
  BY DEF IInv, StoreInv, TypeOK
<1> QED
  BY <1>1, InvariantHolds, PTL

\* No connection is alive that neither close() nor the runOpen() under way can
\* end, and an open that a close() overtook publishes nothing.
THEOREM ConnectionsAreKept == Spec => []NoConnectionLost
<1>1. IInv => NoConnectionLost
  BY DEF IInv, StoreInv
<1> QED
  BY <1>1, InvariantHolds, PTL

\* Nobody goes on from an open(), or writes, with a store whose schema is not
\* applied.
THEOREM OpenedIsReady == Spec => []OpenedMeansReady
<1>1. IInv => OpenedMeansReady
  <2> SUFFICES ASSUME IInv PROVE OpenedMeansReady
    OBVIOUS
  <2>1. phase = "idle" => held \subseteq ready
    BY DEF IInv, StoreInv, Phases
  <2> QED
    BY <2>1 DEF IInv, Used, OpenedMeansReady
<1> QED
  BY <1>1, InvariantHolds, PTL

\* Once the drain is over nothing is alive, and no call of open() is out: the
\* state part of StopCloses.
THEOREM ClosedForGood ==
  Spec => [][drainEnds => live' = {} /\ phase' = "idle"]_vars
<1>1. IInv /\ [Next]_vars => [drainEnds => live' = {} /\ phase' = "idle"]_vars
  <2> SUFFICES ASSUME IInv, drainEnds PROVE live' = {} /\ phase' = "idle"
    OBVIOUS
  <2>1. step["stop"] = "draining" /\ close
    BY DEF drainEnds
  <2>2. step["tick"] = "idle" /\ step["start"] \notin {"opening", "vouching"}
    BY <2>1 DEF IInv, Turns
  <2>3. phase = "idle"
    BY <2>1, <2>2, Quiet DEF Callers
  <2>4. live \subseteq held
    BY <2>3 DEF IInv, StoreInv, Phases, NoConnectionLost
  <2> QED
    BY <2>1, <2>3, <2>4 DEF close
<1> QED
  BY <1>1, InvariantHolds, PTL DEF Spec
=============================================================================
