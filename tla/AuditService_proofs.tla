------------------------ MODULE AuditService_proofs ------------------------
(***************************************************************************)
(* What AuditService guarantees for every buffer size, batch size, cadence *)
(* and number of sign-ins.                                                 *)
(***************************************************************************)
EXTENDS AuditService, SequenceTheorems, TLAPS

(***************************************************************************)
(* Facts about the health record: every mark function keeps its type, and  *)
(* keeps the two parts of what the operator may rely on.                   *)
(***************************************************************************)
HealthSound(h) ==
  /\ h.available => h.reachable /\ h.faults = {} /\ h.error = NoError /\ ~h.window
  /\ h.window => h.error # NoError
  /\ h.reachable /\ h.faults # {} => h.error \in h.faults

\* No false red: a store that answers with no failing channel reads green.
HealthPrompt(h) == h.reachable /\ h.faults = {} => h.available

\* The unavailable mark, for a probe, a sweep or a read that failed.
LEMMA MarkUnavailable ==
  ASSUME NEW h \in Healths, NEW u \in Nat
  PROVE  /\ markUnavailable(h, u) \in Healths
         /\ HealthSound(h) => HealthSound(markUnavailable(h, u))
         /\ HealthPrompt(markUnavailable(h, u))
BY DEF markUnavailable, beginUnhealthyWindow, Healths, Errors, Channels, NoError,
       HealthSound, HealthPrompt

\* The failed-write mark of one channel.
LEMMA MarkWriteFailed ==
  ASSUME NEW h \in Healths, NEW c \in Channels, NEW u \in Nat
  PROVE  /\ markWriteFailed(h, c, u) \in Healths
         /\ HealthSound(h) => HealthSound(markWriteFailed(h, c, u))
         /\ HealthPrompt(markWriteFailed(h, c, u))
BY DEF markWriteFailed, beginUnhealthyWindow, Healths, Errors, Channels, NoError,
       HealthSound, HealthPrompt

\* Whatever channels remain failing, the record is settled on one of them.
LEMMA SettleFaults ==
  ASSUME NEW h \in Healths, NEW r \in SUBSET Channels,
         h.available => r = {} /\ ~h.window
  PROVE  /\ settleFaults(h, r) \in Healths
         /\ HealthSound(settleFaults(h, r))
         /\ HealthPrompt(settleFaults(h, r))
<1>1. CASE r = {}
  BY <1>1 DEF settleFaults, markAvailable, Healths, Errors, HealthSound, HealthPrompt
<1>2. CASE r # {}
  <2>1. (CHOOSE c \in r : TRUE) \in r
    BY <1>2
  <2>2. (CHOOSE c \in r : TRUE) # NoError
    BY <2>1 DEF Channels, NoError
  <2> QED
    BY <1>2, <2>1, <2>2 DEF settleFaults, Healths, Errors, HealthSound, HealthPrompt
<1> QED
  BY <1>1, <1>2

\* The successful-write mark of one channel.
LEMMA MarkWriteOk ==
  ASSUME NEW h \in Healths, NEW c \in Channels, HealthSound(h)
  PROVE  /\ markWriteOk(h, c) \in Healths
         /\ HealthSound(markWriteOk(h, c))
         /\ HealthPrompt(markWriteOk(h, c))
<1>1. h.faults \ {c} \in SUBSET Channels /\ (h.available => h.faults \ {c} = {} /\ ~h.window)
  BY DEF Healths, HealthSound
<1> QED
  BY <1>1, SettleFaults DEF markWriteOk

\* A passing probe, whatever it vouches for.
LEMMA MarkProbeOk ==
  ASSUME NEW h \in Healths, HealthSound(h)
  PROVE  /\ markProbeOk(h) \in Healths
         /\ HealthSound(markProbeOk(h))
         /\ HealthPrompt(markProbeOk(h))
<1> DEFINE g == [h EXCEPT !.reachable = TRUE]
<1>1. g \in Healths /\ h.faults \ vouchedFor \in SUBSET Channels
  BY DEF Healths
<1>2. g.available => h.faults \ vouchedFor = {} /\ ~g.window
  BY DEF Healths, HealthSound
<1> QED
  BY <1>1, <1>2, SettleFaults DEF markProbeOk

\* A successful read.
LEMMA MarkReadOk ==
  ASSUME NEW h \in Healths, HealthSound(h)
  PROVE  /\ markReadOk(h) \in Healths
         /\ HealthSound(markReadOk(h))
         /\ HealthPrompt(h) => HealthPrompt(markReadOk(h))
BY DEF markReadOk, markAvailable, Healths, Errors, HealthSound, HealthPrompt

\* Opening the store and probing it ends in one of two marks.
LEMMA TryOpen ==
  ASSUME NEW h \in Healths, HealthSound(h), unconfirmed \in Nat, NEW k \in tryOpen(h)
  PROVE  k \in Healths /\ HealthSound(k) /\ HealthPrompt(k)
BY MarkProbeOk, MarkUnavailable DEF tryOpen

(***************************************************************************)
(* Facts about the rows: detaching a batch splits the rows given to it,    *)
(* and neither loses nor repeats one.                                      *)
(***************************************************************************)
\* Membership in the range of a sequence.
LEMMA RangeMember ==
  ASSUME NEW s \in Seq(Nat), NEW x
  PROVE  x \in Range(s) <=> \E i \in 1..Len(s) : x = s[i]
<1>1. DOMAIN s = 1..Len(s)
  OBVIOUS
<1> QED
  BY <1>1, Zenon DEF Range

\* Cutting a sequence in two keeps its elements.
LEMMA RangeSplit ==
  ASSUME NEW s \in Seq(Nat), NEW n \in 0..Len(s)
  PROVE  Range(s) = Range(SubSeq(s, 1, n)) \cup Range(SubSeq(s, n + 1, Len(s)))
<1> DEFINE a == SubSeq(s, 1, n)
           b == SubSeq(s, n + 1, Len(s))
<1>1. /\ a \in Seq(Nat) /\ Len(a) = n
      /\ b \in Seq(Nat) /\ Len(b) = Len(s) - n
      /\ \A i \in 1..n : a[i] = s[i]
      /\ \A i \in 1..(Len(s) - n) : b[i] = s[n + i]
  OBVIOUS
<1> HIDE DEF a, b
<1>2. ASSUME NEW x \in Range(s) PROVE x \in Range(a) \cup Range(b)
  <2>1. PICK i \in 1..Len(s) : x = s[i]
    BY RangeMember
  <2>2. CASE i <= n
    <3>1. i \in 1..Len(a) /\ x = a[i]
      BY <1>1, <2>1, <2>2
    <3> QED
      BY <1>1, <3>1, RangeMember
  <2>3. CASE i > n
    <3>1. i - n \in 1..(Len(s) - n) /\ n + (i - n) = i
      BY <2>1, <2>3
    <3>2. b[i - n] = s[n + (i - n)]
      BY <1>1, <3>1
    <3>3. i - n \in 1..Len(b) /\ x = b[i - n]
      BY <1>1, <2>1, <3>1, <3>2
    <3> QED
      BY <1>1, <3>3, RangeMember
  <2> QED
    BY <2>1, <2>2, <2>3
<1>3. ASSUME NEW x \in Range(a) PROVE x \in Range(s)
  <2>1. PICK i \in 1..Len(a) : x = a[i]
    BY <1>1, RangeMember
  <2>2. i \in 1..Len(s) /\ x = s[i]
    BY <1>1, <2>1
  <2> QED
    BY <2>2, RangeMember
<1>4. ASSUME NEW x \in Range(b) PROVE x \in Range(s)
  <2>1. PICK i \in 1..Len(b) : x = b[i]
    BY <1>1, RangeMember
  <2>2. n + i \in 1..Len(s) /\ x = s[n + i]
    BY <1>1, <2>1
  <2> QED
    BY <2>2, RangeMember
<1>5. Range(s) = Range(a) \cup Range(b)
  BY <1>2, <1>3, <1>4
<1> QED
  BY <1>5 DEF a, b

\* Appending a row adds it to the range.
LEMMA RangeAppend ==
  ASSUME NEW s \in Seq(Nat), NEW e \in Nat
  PROVE  Range(Append(s, e)) = Range(s) \cup {e}
<1> DEFINE t == Append(s, e)
<1>1. /\ t \in Seq(Nat) /\ Len(t) = Len(s) + 1 /\ t[Len(s) + 1] = e
      /\ \A i \in 1..Len(s) : t[i] = s[i]
  OBVIOUS
<1> HIDE DEF t
<1>2. ASSUME NEW x \in Range(t) PROVE x \in Range(s) \cup {e}
  <2>1. PICK i \in 1..(Len(s) + 1) : x = t[i]
    BY <1>1, RangeMember
  <2>2. CASE i = Len(s) + 1
    BY <1>1, <2>1, <2>2
  <2>3. CASE i # Len(s) + 1
    <3>1. i \in 1..Len(s) /\ x = s[i]
      BY <1>1, <2>1, <2>3
    <3> QED
      BY <3>1, RangeMember
  <2> QED
    BY <2>2, <2>3
<1>3. ASSUME NEW x \in Range(s) PROVE x \in Range(t)
  <2>1. PICK i \in 1..Len(s) : x = s[i]
    BY RangeMember
  <2>2. i \in 1..Len(t) /\ x = t[i]
    BY <1>1, <2>1
  <2> QED
    BY <1>1, <2>2, RangeMember
<1>4. e \in Range(t)
  <2>1. Len(s) + 1 \in 1..Len(t) /\ e = t[Len(s) + 1]
    BY <1>1
  <2> QED
    BY <1>1, <2>1, RangeMember
<1>5. Range(t) = Range(s) \cup {e}
  BY <1>2, <1>3, <1>4
<1> QED
  BY <1>5 DEF t

\* Shifting the oldest row out of a sequence that has one.
LEMMA RangeShift ==
  ASSUME NEW s \in Seq(Nat), s # <<>>
  PROVE  /\ SubSeq(s, 2, Len(s)) \in Seq(Nat) /\ Len(SubSeq(s, 2, Len(s))) = Len(s) - 1
         /\ s[1] \in Nat
         /\ Range(s) = {s[1]} \cup Range(SubSeq(s, 2, Len(s)))
<1> DEFINE rest == SubSeq(s, 2, Len(s))
           head == SubSeq(s, 1, 1)
<1>1. Len(s) \in Nat /\ Len(s) >= 1
  OBVIOUS
<1>2. rest \in Seq(Nat) /\ head \in Seq(Nat) /\ Len(head) = 1 /\ head[1] = s[1] /\ s[1] \in Nat
  BY <1>1
<1>3. Len(rest) = Len(s) - 1
  <2>1. Len(rest) = IF 2 <= Len(s) THEN Len(s) - 2 + 1 ELSE 0
    BY <1>1, SubSeqProperties
  <2> DEFINE n == Len(s)
  <2>2. n \in Nat /\ n >= 1 /\ Len(rest) = IF 2 <= n THEN n - 2 + 1 ELSE 0
    BY <1>1, <2>1
  <2> HIDE DEF rest, n
  <2>3. Len(rest) = n - 1
    BY <2>2
  <2> QED
    BY <2>3 DEF n
<1>4. Range(s) = Range(head) \cup Range(rest)
  <2>1. 1 \in 0..Len(s)
    BY <1>1
  <2>2. Range(s) = Range(SubSeq(s, 1, 1)) \cup Range(SubSeq(s, 1 + 1, Len(s)))
    BY <2>1, RangeSplit
  <2> QED
    BY <2>2
<1> HIDE DEF head, rest
<1>5. ASSUME NEW x PROVE x \in Range(head) <=> x = s[1]
  <2>1. x \in Range(head) <=> \E i \in 1..Len(head) : x = head[i]
    BY <1>2, RangeMember
  <2> QED
    BY <1>2, <2>1
<1>6. Range(s) = {s[1]} \cup Range(rest)
  BY <1>4, <1>5
<1> QED
  BY <1>2, <1>3, <1>6 DEF rest

\* The rows of a sequence of event numbers are event numbers.
LEMMA RangeTyped ==
  ASSUME NEW s \in Seq(Nat) PROVE Range(s) \subseteq Nat
<1>1. ASSUME NEW x \in Range(s) PROVE x \in Nat
  <2>1. PICK i \in 1..Len(s) : x = s[i]
    BY RangeMember
  <2> QED
    BY <2>1
<1> QED
  BY <1>1

\* buffer.splice into the batch of a pass.
LEMMA DetachBatch ==
  ASSUME NEW rows \in Seq(Nat), NEW k \in Nat, detachBatch(rows, k)
  PROVE  /\ buffer' \in Seq(Nat) /\ batch' \in Seq(Nat) /\ flushing' = k
         /\ Len(batch') <= BatchRows
         /\ Len(buffer') + Len(batch') = Len(rows)
         /\ Range(rows) = Range(buffer') \cup Range(batch')
<1> DEFINE n == Smaller(BatchRows, Len(rows))
<1>1. n \in 0..Len(rows) /\ n <= BatchRows
  BY SizesAssumption DEF Smaller
<1>2. batch' = SubSeq(rows, 1, n) /\ buffer' = SubSeq(rows, n + 1, Len(rows)) /\ flushing' = k
  BY DEF detachBatch
<1> HIDE DEF n
<1>3. /\ batch' \in Seq(Nat) /\ buffer' \in Seq(Nat)
      /\ Len(batch') = n /\ Len(buffer') = Len(rows) - n
  BY <1>1, <1>2
<1>4. Range(rows) = Range(batch') \cup Range(buffer')
  BY <1>1, <1>2, RangeSplit
<1>5. Len(batch') <= BatchRows /\ Len(buffer') + Len(batch') = Len(rows)
  BY <1>1, <1>3, SizesAssumption
<1>6. Range(rows) = Range(buffer') \cup Range(batch')
  BY <1>4
<1> QED
  BY <1>2, <1>3, <1>5, <1>6

\* What the rows held in memory keep at every step: a pass has a batch, an
\* idle wire has none, and the ceiling counts both.
WireSound ==
  /\ buffer \in Seq(Nat) /\ batch \in Seq(Nat) /\ flushing \in 0..MaxBatches
  /\ flushing = 0 => batch = <<>>
  /\ Len(batch) <= BatchRows
  /\ Len(buffer) + Len(batch) <= MaxBuffered

\* Joining or starting a pass over the rows to be held.
LEMMA FlushEvents ==
  ASSUME WireSound, NEW rows \in Seq(Nat), Len(rows) + Len(batch) <= MaxBuffered,
         flushEvents(rows)
  PROVE  /\ WireSound'
         /\ Range(buffer') \cup Range(batch') = Range(rows) \cup Range(batch)
<1>1. CASE flushing = 0 /\ rows # <<>>
  <2>1. detachBatch(rows, 1) /\ batch = <<>> /\ Range(batch) = {} /\ Len(batch) = 0
    BY <1>1 DEF flushEvents, WireSound, Range
  <2>2. 1 \in 0..MaxBatches /\ Len(rows) <= MaxBuffered
    BY <2>1, SizesAssumption
  <2>3. /\ buffer' \in Seq(Nat) /\ batch' \in Seq(Nat) /\ flushing' = 1
        /\ Len(batch') <= BatchRows
        /\ Len(buffer') + Len(batch') = Len(rows)
        /\ Range(rows) = Range(buffer') \cup Range(batch')
    BY <2>1, DetachBatch
  <2>4. WireSound'
    BY <2>2, <2>3, SizesAssumption DEF WireSound
  <2>5. Range(buffer') \cup Range(batch') = Range(rows) \cup Range(batch)
    BY <2>1, <2>3
  <2> QED
    BY <2>4, <2>5
<1>2. CASE ~(flushing = 0 /\ rows # <<>>)
  BY <1>2 DEF flushEvents, WireSound
<1> QED
  BY <1>1, <1>2

\* What the buffer holds once a sign-in is pushed: on overflow its oldest row
\* is gone, and there is one, since the wire alone cannot fill the ceiling.
LEMMA Pushed ==
  ASSUME WireSound, recorded \in Nat
  PROVE  /\ pushed \in Seq(Nat)
         /\ Len(pushed) + Len(batch) <= MaxBuffered
         /\ full => /\ buffer[1] \in Nat
                    /\ Range(buffer) \cup {recorded + 1} = Range(pushed) \cup {buffer[1]}
         /\ ~full => Range(pushed) = Range(buffer) \cup {recorded + 1}
<1>1. buffer \in Seq(Nat) /\ Len(buffer) + Len(batch) <= MaxBuffered /\ Len(batch) <= BatchRows
      /\ Len(batch) \in Nat /\ Len(buffer) \in Nat
  BY DEF WireSound
<1>2. CASE full
  <2> DEFINE rest == SubSeq(buffer, 2, Len(buffer))
  <2>1. Len(buffer) >= 1
    BY <1>1, <1>2, SizesAssumption DEF full
  <2>2. /\ rest \in Seq(Nat) /\ Len(rest) = Len(buffer) - 1 /\ buffer[1] \in Nat
        /\ Range(buffer) = {buffer[1]} \cup Range(rest)
    BY <1>1, <2>1, RangeShift
  <2> HIDE DEF rest
  <2>3. pushed = Append(rest, recorded + 1)
    BY <1>2 DEF pushed, rest
  <2>4. Range(pushed) = Range(rest) \cup {recorded + 1}
    BY <2>2, <2>3, RangeAppend
  <2>5. pushed \in Seq(Nat) /\ Len(pushed) = Len(buffer)
    BY <1>1, <2>2, <2>3
  <2>6. Range(buffer) \cup {recorded + 1} = Range(pushed) \cup {buffer[1]}
    BY <2>2, <2>4
  <2> QED
    BY <1>1, <1>2, <2>2, <2>5, <2>6
<1>3. CASE ~full
  <2>1. pushed = Append(buffer, recorded + 1)
    BY <1>3 DEF pushed
  <2>2. Range(pushed) = Range(buffer) \cup {recorded + 1}
    BY <1>1, <2>1, RangeAppend
  <2>3. pushed \in Seq(Nat) /\ Len(pushed) = Len(buffer) + 1
    BY <1>1, <2>1
  <2>4. Len(pushed) + Len(batch) <= MaxBuffered
    BY <1>1, <1>3, <2>3, SizesAssumption DEF full
  <2> QED
    BY <1>3, <2>2, <2>3, <2>4
<1> QED
  BY <1>2, <1>3
(***************************************************************************)
(* The inductive invariant.  The joins of drainAndClose are covered when   *)
(* whatever is in flight is either awaited or driven by an awaited tick;   *)
(* from the second join on only the phase of the drain is in flight.       *)
(***************************************************************************)
JoinCovered ==
  /\ tickPc # "idle" => "tick" \in awaiting
  /\ flushing > 0 => "flush" \in awaiting \/ tickPc = "events"
  /\ statting.left > 0 => "stat" \in awaiting \/ tickPc = "stats"
  /\ tokenFlushing => "token" \in awaiting \/ tickPc = "tokens"

Joined == {"join2", "open", "drain", "stats", "tokens", "close", "closed"}

ShutdownSound ==
  /\ stopping => ~timer /\ ~serving
  /\ stopPc = "join1" => JoinCovered
  /\ stopPc \in Joined => tickPc = "idle"
  /\ stopPc \in Joined \ {"drain"} => flushing = 0
  /\ stopPc \in Joined \ {"stats"} => statting.left = 0
  /\ stopPc \in Joined \ {"tokens"} => ~tokenFlushing

HealthInv ==
  HealthSound(health) /\ (stopped = "no" => HealthPrompt(health))

\* Every admitted sign-in is in one of four places.
NoEventVanishes ==
  1..recorded = Range(buffer) \cup Range(batch) \cup stored \cup dropped

IInv == TypeOK /\ WireSound /\ NoEventVanishes /\ HealthInv /\ ShutdownSound

\* A fresh service satisfies the invariant.
LEMMA InitIInv == Init => IInv
<1> SUFFICES ASSUME Init PROVE IInv
  OBVIOUS
<1> USE DEF Init
<1>1. buffer \in Seq(Nat) /\ batch \in Seq(Nat) /\ Len(buffer) = 0 /\ Len(batch) = 0
  OBVIOUS
<1>2. health \in Healths
  BY DEF Healths, Errors, Channels, NoError
<1>3. TypeOK
  <2>1. 0 \in 0..MaxBatches /\ 0 \in 0..MaxStatRows
    BY SizesAssumption, BoundsAssumption
  <2>2. statting \in [left : 0..MaxStatRows, failed : BOOLEAN]
    BY <2>1
  <2> QED
    BY <1>1, <1>2, <2>1, <2>2 DEF TypeOK
<1>4. WireSound
  BY <1>1, SizesAssumption DEF WireSound
<1>5. NoEventVanishes
  BY DEF NoEventVanishes, Range
<1>6. HealthInv
  BY DEF HealthInv, HealthSound, HealthPrompt, NoError
<1>7. ShutdownSound
  BY DEF ShutdownSound, stopping, Joined
<1> QED
  BY <1>3, <1>4, <1>5, <1>6, <1>7 DEF IInv

-----------------------------------------------------------------------------
\* Every step keeps the health sound: each answer applies one mark function.
LEMMA HealthStep ==
  ASSUME IInv, [Next]_vars
  PROVE  health' \in Healths /\ HealthInv'
<1> USE DEF IInv
<1>1. /\ health \in Healths /\ unconfirmed \in Nat /\ HealthSound(health)
      /\ stopped = "no" => HealthPrompt(health)
      /\ {"events", "stats", "tokens"} \subseteq Channels
  BY DEF TypeOK, HealthInv, Channels
<1> SUFFICES ASSUME Next PROVE health' \in Healths /\ HealthInv'
  BY <1>1 DEF vars, stopVars, HealthInv, HealthSound, HealthPrompt
<1>2. ASSUME health' \in Healths, HealthSound(health'), HealthPrompt(health')
      PROVE  health' \in Healths /\ HealthInv'
  BY <1>2 DEF HealthInv, HealthSound, HealthPrompt
<1>3. ASSUME UNCHANGED <<health, stopped>>
      PROVE  health' \in Healths /\ HealthInv'
  BY <1>1, <1>3 DEF HealthInv, HealthSound, HealthPrompt
<1>4. ASSUME health' = [health EXCEPT !.available = FALSE], stopped' # "no"
      PROVE  health' \in Healths /\ HealthInv'
  BY <1>1, <1>4 DEF HealthInv, HealthSound, HealthPrompt, Healths
<1>5. CASE Requests
  BY <1>3, <1>5 DEF Requests, recordEvent, refuseEvent, countTokenUse, beginRead, stopVars
<1>6. CASE Answers
  <2>1. CASE writeEventsOk
    BY <1>1, <1>2, <2>1, MarkWriteOk DEF writeEventsOk
  <2>2. CASE writeEventsFailed
    BY <1>1, <1>2, <2>2, MarkWriteFailed DEF writeEventsFailed, healthAfterDrop
  <2>3. CASE writeStat
    <3>1. PICK failed \in BOOLEAN :
            LET any == statting.failed \/ failed
                h   == IF failed THEN markWriteFailed(health, "stats", unconfirmed) ELSE health
            IN  health' = IF statting.left = 1 /\ ~any THEN markWriteOk(h, "stats") ELSE h
      BY <2>3 DEF writeStat
    <3>2. CASE failed
      BY <1>1, <1>2, <3>1, <3>2, MarkWriteFailed
    <3>3. CASE ~failed /\ health' = health
      BY <1>3, <2>3, <3>3 DEF writeStat, stopVars
    <3>4. CASE ~failed /\ health' = markWriteOk(health, "stats")
      BY <1>1, <1>2, <3>4, MarkWriteOk
    <3> QED
      BY <3>1, <3>2, <3>3, <3>4
  <2>4. CASE writeTokenUsage
    BY <1>1, <1>2, <2>4, MarkWriteOk, MarkWriteFailed DEF writeTokenUsage
  <2>5. CASE tracked
    <3>1. CASE health' = markReadOk(health)
      <4>1. /\ health' \in Healths /\ HealthSound(health')
            /\ HealthPrompt(health) => HealthPrompt(health')
        BY <1>1, <3>1, MarkReadOk
      <4> QED
        BY <1>1, <2>5, <4>1 DEF tracked, stopVars, HealthInv, HealthSound, HealthPrompt
    <3>2. CASE UNCHANGED health
      BY <1>3, <2>5, <3>2 DEF tracked, stopVars
    <3>3. CASE health' = markUnavailable(health, unconfirmed)
      BY <1>1, <1>2, <3>3, MarkUnavailable
    <3> QED
      BY <2>5, <3>1, <3>2, <3>3 DEF tracked
  <2>6. CASE health' \in tryOpen(health)
    BY <1>1, <1>2, <2>6, TryOpen
  <2>7. CASE runSweep
    <3>1. CASE UNCHANGED health
      BY <1>3, <2>7, <3>1 DEF runSweep, stopVars
    <3>2. CASE health' = markUnavailable(health, unconfirmed)
      BY <1>1, <1>2, <3>2, MarkUnavailable
    <3> QED
      BY <2>7, <3>1, <3>2 DEF runSweep
  <2>8. CASE storeClosed
    BY <1>3, <1>4, <2>8 DEF storeClosed
  <2> QED
    BY <1>6, <2>1, <2>2, <2>3, <2>4, <2>5, <2>6, <2>7, <2>8
       DEF Answers, startOpened, tickOpened, tickReopened, stopOpened
<1>7. CASE Steps
  BY <1>3, <1>7 DEF Steps, start, tick, tickFlushed, tickStatted, tickTokensDone, stopVars
<1>8. CASE Shutdown
  <2>1. CASE withDeadline
    BY <1>4, <2>1 DEF withDeadline
  <2>2. CASE Shutdown /\ ~withDeadline
    BY <1>3, <2>2 DEF Shutdown, closeHttp, stop, joinStart, joinOnce, joinTwice, stopDrained,
                      stopStatted, stopTokensDone, stopVars
  <2> QED
    BY <1>8, <2>1, <2>2
<1>9. CASE heal
  BY <1>3, <1>9 DEF heal, stopVars
<1> QED
  BY <1>5, <1>6, <1>7, <1>8, <1>9 DEF Next
-----------------------------------------------------------------------------
\* Every step keeps the rows held within the ceiling and lets none vanish: a
\* row leaves the buffer for the wire, and the wire for `stored` or `dropped`.
LEMMA WireStep ==
  ASSUME IInv, [Next]_vars
  PROVE  WireSound' /\ NoEventVanishes'
<1> USE DEF IInv
<1>1. /\ recorded \in Nat /\ buffer \in Seq(Nat) /\ batch \in Seq(Nat) /\ WireSound
      /\ 1..recorded = Range(buffer) \cup Range(batch) \cup stored \cup dropped
      /\ Len(buffer) + Len(batch) <= MaxBuffered
  BY DEF TypeOK, WireSound, NoEventVanishes
<1>2. ASSUME UNCHANGED <<recorded, buffer, batch, flushing, stored, dropped>>
      PROVE  WireSound' /\ NoEventVanishes'
  BY <1>1, <1>2 DEF WireSound, NoEventVanishes
<1>3. ASSUME flushEvents(buffer), UNCHANGED fateVars
      PROVE  WireSound' /\ NoEventVanishes'
  <2>1. WireSound' /\ Range(buffer') \cup Range(batch') = Range(buffer) \cup Range(batch)
    BY <1>1, <1>3, FlushEvents
  <2> QED
    BY <1>1, <1>3, <2>1 DEF NoEventVanishes, fateVars
<1> SUFFICES ASSUME Next PROVE WireSound' /\ NoEventVanishes'
  BY <1>2 DEF vars, queueVars
<1>4. CASE recordEvent
  <2>1. /\ pushed \in Seq(Nat) /\ Len(pushed) + Len(batch) <= MaxBuffered
        /\ full => /\ buffer[1] \in Nat
                   /\ Range(buffer) \cup {recorded + 1} = Range(pushed) \cup {buffer[1]}
        /\ ~full => Range(pushed) = Range(buffer) \cup {recorded + 1}
    BY <1>1, Pushed
  <2>2. /\ recorded' = recorded + 1 /\ stored' = stored
        /\ full => dropped' = dropped \cup {buffer[1]}
        /\ ~full => dropped' = dropped
    BY <1>4 DEF recordEvent
  <2>3. WireSound' /\ Range(buffer') \cup Range(batch') = Range(pushed) \cup Range(batch)
    <3>1. CASE flushEvents(pushed)
      BY <1>1, <2>1, <3>1, FlushEvents
    <3>2. CASE buffer' = pushed /\ UNCHANGED <<batch, flushing>>
      BY <1>1, <2>1, <3>2 DEF WireSound
    <3> QED
      BY <1>4, <3>1, <3>2 DEF recordEvent
  <2>4. 1..recorded' = (1..recorded) \cup {recorded + 1}
    BY <1>1, <2>2
  <2>5. 1..recorded' = Range(buffer') \cup Range(batch') \cup stored' \cup dropped'
    <3>1. CASE full
      BY <1>1, <2>1, <2>2, <2>3, <2>4, <3>1
    <3>2. CASE ~full
      BY <1>1, <2>1, <2>2, <2>3, <2>4, <3>2
    <3> QED
      BY <3>1, <3>2
  <2> QED
    BY <2>3, <2>5 DEF NoEventVanishes
<1>5. CASE writeEventsOk
  <2>1. /\ flushing > 0 /\ stored' = stored \cup Range(batch)
        /\ UNCHANGED <<recorded, dropped>>
    BY <1>5 DEF writeEventsOk
  <2>2. CASE moreBatches /\ buffer # <<>>
    <3>1. detachBatch(buffer, flushing + 1) /\ flushing + 1 \in 0..MaxBatches /\ flushing + 1 # 0
      BY <1>1, <1>5, <2>1, <2>2, SizesAssumption DEF writeEventsOk, moreBatches, WireSound
    <3>2. /\ buffer' \in Seq(Nat) /\ batch' \in Seq(Nat) /\ flushing' = flushing + 1
          /\ Len(batch') <= BatchRows
          /\ Len(buffer') + Len(batch') = Len(buffer)
          /\ Range(buffer) = Range(buffer') \cup Range(batch')
      BY <1>1, <3>1, DetachBatch
    <3>3. Len(buffer) <= MaxBuffered
      BY <1>1, SizesAssumption
    <3>4. WireSound'
      BY <3>1, <3>2, <3>3 DEF WireSound
    <3> QED
      BY <1>1, <2>1, <3>2, <3>4 DEF NoEventVanishes
  <2>3. CASE ~(moreBatches /\ buffer # <<>>)
    <3>1. batch' = <<>> /\ flushing' = 0 /\ buffer' = buffer
      BY <1>5, <2>3 DEF writeEventsOk, endPass
    <3>2. Range(batch') = {} /\ batch' \in Seq(Nat) /\ Len(batch') = 0
      BY <3>1 DEF Range
    <3>3. WireSound'
      BY <1>1, <3>1, <3>2, SizesAssumption DEF WireSound
    <3> QED
      BY <1>1, <2>1, <3>1, <3>2, <3>3 DEF NoEventVanishes
  <2> QED
    BY <2>2, <2>3
<1>6. CASE writeEventsFailed
  <2>1. /\ batch' = <<>> /\ flushing' = 0 /\ buffer' = buffer
        /\ dropped' = dropped \cup Range(batch) /\ UNCHANGED <<recorded, stored>>
    BY <1>6 DEF writeEventsFailed, endPass
  <2>2. Range(batch') = {} /\ batch' \in Seq(Nat) /\ Len(batch') = 0
    BY <2>1 DEF Range
  <2>3. WireSound'
    BY <1>1, <2>1, <2>2, SizesAssumption DEF WireSound
  <2> QED
    BY <1>1, <2>1, <2>2, <2>3 DEF NoEventVanishes
<1>7. CASE tick \/ tickOpened
  BY <1>2, <1>3, <1>7 DEF tick, tickOpened, wireVars, fateVars
<1>8. ASSUME NEW n, drainPass(n), UNCHANGED fateVars
      PROVE  WireSound' /\ NoEventVanishes'
  BY <1>2, <1>3, <1>8 DEF drainPass, wireVars, fateVars
<1>9. CASE joinTwice \/ stopOpened \/ stopDrained
  BY <1>2, <1>8, <1>9 DEF joinTwice, stopOpened, stopDrained, wireVars, fateVars
<1>10. CASE withDeadline
  BY <1>2, <1>10 DEF withDeadline
<1>11. ASSUME UNCHANGED queueVars
       PROVE  WireSound' /\ NoEventVanishes'
  BY <1>2, <1>11 DEF queueVars
<1>12. CASE \/ refuseEvent \/ countTokenUse \/ beginRead \/ writeStat \/ writeTokenUsage
            \/ tracked \/ startOpened \/ tickReopened \/ runSweep \/ storeClosed
            \/ start \/ tickFlushed \/ tickStatted \/ tickTokensDone \/ heal
  BY <1>11, <1>12 DEF refuseEvent, countTokenUse, beginRead, writeStat, writeTokenUsage,
     tracked, startOpened, tickReopened, runSweep, storeClosed, start, tickFlushed,
     tickStatted, tickTokensDone, heal
<1>13. CASE closeHttp \/ stop \/ joinStart \/ joinOnce \/ stopStatted \/ stopTokensDone
  BY <1>11, <1>13 DEF closeHttp, stop, joinStart, joinOnce, stopStatted, stopTokensDone
<1> QED
  BY <1>4, <1>5, <1>6, <1>7, <1>9, <1>10, <1>12, <1>13
     DEF Next, Requests, Answers, Steps, Shutdown
-----------------------------------------------------------------------------
\* Every step keeps the types: the rows and the health are typed by the two
\* lemmas above, what is left is counters and program counters.
LEMMA TypeStep ==
  ASSUME IInv, [Next]_vars
  PROVE  TypeOK'
<1>1. TypeOK
  BY DEF IInv
<1>2. /\ buffer' \in Seq(Nat) /\ batch' \in Seq(Nat) /\ flushing' \in 0..MaxBatches
      /\ health' \in Healths
  BY WireStep, HealthStep DEF WireSound
<1>3. recorded' \in Nat /\ stored' \subseteq Nat /\ dropped' \subseteq Nat /\ unconfirmed' \in Nat
  <2>1. /\ recorded \in Nat /\ stored \subseteq Nat /\ dropped \subseteq Nat /\ unconfirmed \in Nat
        /\ Len(buffer) \in Nat /\ Len(batch) \in Nat /\ Range(batch) \subseteq Nat
        /\ full => buffer[1] \in Nat
    BY <1>1, RangeTyped, Pushed DEF TypeOK, IInv
  <2>2. CASE UNCHANGED fateVars
    BY <2>1, <2>2 DEF fateVars
  <2>3. CASE recordEvent
    <3>1. /\ recorded' = recorded + 1 /\ stored' = stored
          /\ IF full
             THEN dropped' = dropped \cup {buffer[1]} /\ unconfirmed' = unconfirmed + 1
             ELSE dropped' = dropped /\ unconfirmed' = unconfirmed
      BY <2>3 DEF recordEvent
    <3>2. recorded' \in Nat /\ stored' \subseteq Nat
      BY <2>1, <3>1
    <3>3. unconfirmed' \in Nat
      BY <2>1, <3>1
    <3>4. dropped' \subseteq Nat
      BY <2>1, <3>1
    <3> QED
      BY <3>2, <3>3, <3>4
  <2>4. CASE writeEventsOk
    BY <2>1, <2>4 DEF writeEventsOk
  <2>5. CASE writeEventsFailed
    <3>1. PICK n \in Nat : n = Len(batch)
      BY <2>1
    <3>2. /\ unconfirmed' = unconfirmed + n /\ dropped' = dropped \cup Range(batch)
          /\ recorded' = recorded /\ stored' = stored
      BY <2>5, <3>1 DEF writeEventsFailed
    <3>3. unconfirmed' \in Nat
      BY <2>1, <3>1, <3>2
    <3>4. dropped' \subseteq Nat /\ stored' \subseteq Nat /\ recorded' \in Nat
      BY <2>1, <3>2
    <3> QED
      BY <3>3, <3>4
  <2>6. CASE withDeadline
    BY <2>1, <2>6 DEF withDeadline
  <2>7. CASE Next /\ ~(recordEvent \/ writeEventsOk \/ writeEventsFailed \/ withDeadline)
    <3>1. UNCHANGED fateVars
      BY <2>7 DEF Next, Requests, Answers, Steps, Shutdown, refuseEvent, countTokenUse,
         beginRead, writeStat, writeTokenUsage, tracked, startOpened, tickOpened,
         tickReopened, runSweep, stopOpened, storeClosed, start, tick, tickFlushed,
         tickStatted, tickTokensDone, closeHttp, stop, joinStart, joinOnce, joinTwice,
         stopDrained, stopStatted, stopTokensDone, heal, queueVars, fateVars
    <3> QED
      BY <2>1, <3>1 DEF fateVars
  <2> QED
    BY <2>2, <2>3, <2>4, <2>5, <2>6, <2>7 DEF vars, queueVars, fateVars
<1>4. /\ statRows' \in 0..MaxStatRows
      /\ statting' \in [left : 0..MaxStatRows, failed : BOOLEAN]
      /\ unsent' \in BOOLEAN /\ tokenFlushing' \in BOOLEAN
  <2> USE <1>1, BoundsAssumption DEF TypeOK
  <2>1. growStats => statRows' \in 0..MaxStatRows
    BY DEF growStats
  <2>2. ASSUME flushStats \/ UNCHANGED statting
        PROVE  statting' \in [left : 0..MaxStatRows, failed : BOOLEAN]
    <3>1. [left |-> statRows, failed |-> FALSE] \in [left : 0..MaxStatRows, failed : BOOLEAN]
      OBVIOUS
    <3> QED
      BY <2>2, <3>1 DEF flushStats
  <2>3. CASE Requests
    BY <2>1, <2>3 DEF Requests, recordEvent, refuseEvent, countTokenUse, beginRead, sideVars
  <2>4. CASE writeStat
    <3>1. statting.left \in 0..MaxStatRows /\ statting.failed \in BOOLEAN /\ statting.left > 0
      BY <2>4 DEF writeStat
    <3>2. PICK f \in BOOLEAN : statting' = [left |-> statting.left - 1, failed |-> statting.failed \/ f]
      BY <2>4 DEF writeStat
    <3>3. statting.left - 1 \in 0..MaxStatRows
      BY <3>1
    <3>4. statting' \in [left : 0..MaxStatRows, failed : BOOLEAN]
      BY <3>1, <3>2, <3>3
    <3> QED
      BY <2>4, <3>4 DEF writeStat
  <2>5. CASE writeTokenUsage
    BY <2>5 DEF writeTokenUsage
  <2>6. CASE tickStatted \/ stopStatted
    BY <2>6 DEF tickStatted, stopStatted, flushTokenUsage
  <2>7. ASSUME NEW n, drainPass(n)
        PROVE  statting' \in [left : 0..MaxStatRows, failed : BOOLEAN]
    BY <2>2, <2>7 DEF drainPass
  <2>8. CASE joinTwice \/ stopOpened \/ stopDrained
    BY <2>2, <2>7, <2>8 DEF joinTwice, stopOpened, stopDrained
  <2>9. CASE tickFlushed
    BY <2>2, <2>9 DEF tickFlushed
  <2>10. ASSUME UNCHANGED <<statRows, sideVars>>
         PROVE  /\ statRows' \in 0..MaxStatRows
                /\ statting' \in [left : 0..MaxStatRows, failed : BOOLEAN]
                /\ unsent' \in BOOLEAN /\ tokenFlushing' \in BOOLEAN
    BY <2>10 DEF sideVars
  <2>11. CASE \/ writeEventsOk \/ writeEventsFailed \/ tracked \/ startOpened \/ tickOpened
              \/ tickReopened \/ runSweep \/ storeClosed \/ start \/ tick \/ tickTokensDone
    BY <2>10, <2>11 DEF writeEventsOk, writeEventsFailed, tracked, startOpened, tickOpened,
       tickReopened, runSweep, storeClosed, start, tick, tickTokensDone
  <2>12. CASE \/ closeHttp \/ stop \/ joinStart \/ joinOnce \/ stopTokensDone
              \/ withDeadline \/ heal
    BY <2>10, <2>12 DEF closeHttp, stop, joinStart, joinOnce, stopTokensDone, withDeadline, heal
  <2>13. CASE UNCHANGED vars
    BY <2>10, <2>13 DEF vars
  <2> QED
    BY <2>3, <2>4, <2>5, <2>6, <2>8, <2>9, <2>11, <2>12, <2>13
       DEF Next, Answers, Steps, Shutdown
<1>5. /\ startPc' \in {"boot", "opening", "done"} /\ timer' \in BOOLEAN
      /\ tickPc' \in {"idle", "open", "events", "stats", "tokens", "reopen", "sweep"}
      /\ ticks' \in Nat /\ reads' \in Nat /\ serving' \in BOOLEAN
  <2> USE <1>1 DEF TypeOK
  <2>1. CASE Requests
    BY <2>1 DEF Requests, recordEvent, refuseEvent, countTokenUse, beginRead, tickVars, httpVars
  <2>2. CASE tick
    <3>1. AggregateEvery * SweepEvery \in Nat \ {0}
      BY CadenceAssumption
    <3>2. ticks' \in Nat
      <4> DEFINE m == AggregateEvery * SweepEvery
      <4>1. m \in Nat \ {0} /\ ticks' = (ticks + 1) % m /\ ticks \in Nat
        BY <2>2, <3>1 DEF tick
      <4> HIDE DEF m
      <4> QED
        BY <4>1
    <3> QED
      BY <2>2, <3>2 DEF tick, httpVars
  <2>3. CASE tracked
    BY <2>3 DEF tracked, tickVars
  <2>4. CASE Answers
    BY <2>3, <2>4 DEF Answers, writeEventsOk, writeEventsFailed, writeStat, writeTokenUsage,
       startOpened, tickOpened, tickReopened, runSweep, stopOpened, storeClosed, sweepOrEnd,
       stopping, tickVars, httpVars
  <2>5. CASE Steps
    BY <2>2, <2>5 DEF Steps, start, tickFlushed, tickStatted, tickTokensDone, sweepOrEnd,
       tickVars, httpVars
  <2>6. CASE Shutdown
    BY <2>6 DEF Shutdown, closeHttp, stop, joinStart, joinOnce, joinTwice, stopDrained,
       stopStatted, stopTokensDone, withDeadline, tickVars, httpVars
  <2>7. CASE heal \/ UNCHANGED vars
    BY <2>7 DEF heal, vars, tickVars, httpVars
  <2> QED
    BY <2>1, <2>4, <2>5, <2>6, <2>7 DEF Next
<1>6. /\ stopPc' \in {"no", "joinStart", "join1", "join2", "open", "drain", "stats",
                     "tokens", "close", "closed"}
      /\ awaiting' \subseteq Handles /\ before' \in Nat /\ passes' \in Nat
      /\ stopped' \in {"no", "orderly", "timedOut"} /\ healed' \in BOOLEAN
      /\ probeWritable' \in ProbesWritable
  <2> USE <1>1 DEF TypeOK
  <2>1. inFlight \subseteq Handles /\ Len(buffer) \in Nat
    BY DEF inFlight, Handles
  <2>2. ASSUME NEW n \in Nat, drainPass(n)
        PROVE  stopPc' \in {"drain", "stats"} /\ before' \in Nat /\ passes' \in Nat
    BY <2>1, <2>2 DEF drainPass
  <2>3. CASE joinTwice \/ stopOpened
    BY <2>1, <2>2, <2>3 DEF joinTwice, stopOpened, storeVars
  <2>4. CASE stopDrained
    BY <2>1, <2>2, <2>4, PassesAssumption DEF stopDrained, storeVars
  <2>5. CASE UNCHANGED <<stopVars, storeVars>>
    BY <2>1, <2>5 DEF stopVars, storeVars
  <2>6. CASE \/ stop \/ joinStart \/ joinOnce \/ stopStatted \/ stopTokensDone
             \/ storeClosed \/ withDeadline
    BY <2>1, <2>6 DEF stop, joinStart, joinOnce, stopStatted, stopTokensDone, storeClosed,
       withDeadline, storeVars
  <2>7. CASE Requests \/ Steps \/ closeHttp
    BY <2>5, <2>7 DEF Requests, Steps, recordEvent, refuseEvent, countTokenUse, beginRead,
       start, tick, tickFlushed, tickStatted, tickTokensDone, closeHttp
  <2>8. CASE \/ writeEventsOk \/ writeEventsFailed \/ writeStat \/ writeTokenUsage \/ tracked
             \/ startOpened \/ tickOpened \/ tickReopened \/ runSweep
    BY <2>5, <2>8 DEF writeEventsOk, writeEventsFailed, writeStat, writeTokenUsage, tracked,
       startOpened, tickOpened, tickReopened, runSweep
  <2>9. CASE heal \/ UNCHANGED vars
    BY <2>1, <2>5, <2>9 DEF heal, vars, stopVars, storeVars
  <2> QED
    BY <2>3, <2>4, <2>6, <2>7, <2>8, <2>9 DEF Next, Answers, Shutdown
<1> QED
  BY <1>2, <1>3, <1>4, <1>5, <1>6 DEF TypeOK
-----------------------------------------------------------------------------
\* Every step keeps the shutdown sound.  Once the flag is set nothing starts a
\* pass but an awaited tick and the drain itself.
LEMMA ShutdownStep ==
  ASSUME IInv, [Next]_vars
  PROVE  ShutdownSound'
<1>1. TypeOK /\ ShutdownSound /\ WireSound
  BY DEF IInv
<1> USE <1>1 DEF ShutdownSound, stopping, Joined
<1>2. ASSUME ~stopping, UNCHANGED stopPc
      PROVE  ShutdownSound'
  BY <1>2
<1>3. ASSUME UNCHANGED <<timer, serving, stopPc, awaiting, tickPc, flushing, statting, tokenFlushing>>
      PROVE  ShutdownSound'
  BY <1>3 DEF JoinCovered
<1>4. CASE Requests
  <2>1. ~stopping /\ UNCHANGED stopPc
    BY <1>4 DEF Requests, recordEvent, refuseEvent, countTokenUse, beginRead, stopVars
  <2> QED
    BY <1>2, <2>1
<1>5. CASE writeEventsOk \/ writeEventsFailed
  <2>1. /\ flushing > 0 /\ UNCHANGED <<timer, serving, stopPc, awaiting, tickPc, statting, tokenFlushing>>
    BY <1>5 DEF writeEventsOk, writeEventsFailed, tickVars, httpVars, stopVars, sideVars
  <2> QED
    BY <2>1 DEF JoinCovered, TypeOK
<1>6. CASE writeStat
  <2>1. /\ statting.left > 0
        /\ UNCHANGED <<timer, serving, stopPc, awaiting, tickPc, flushing, tokenFlushing>>
    BY <1>6 DEF writeStat, tickVars, httpVars, stopVars, queueVars
  <2> QED
    BY <2>1 DEF JoinCovered, TypeOK
<1>7. CASE writeTokenUsage
  BY <1>7 DEF writeTokenUsage, JoinCovered, tickVars, httpVars, stopVars, queueVars
<1>8. CASE tracked \/ start \/ withDeadline \/ heal \/ UNCHANGED vars
  BY <1>3, <1>8 DEF tracked, start, withDeadline, heal, vars, queueVars, sideVars, tickVars,
     httpVars, stopVars
<1>9. CASE startOpened
  BY <1>9 DEF startOpened, JoinCovered, queueVars, sideVars, httpVars, stopVars
<1>10. CASE tick
  <2>1. ~stopping /\ UNCHANGED stopPc
    BY <1>10 DEF tick, stopVars
  <2> QED
    BY <1>2, <2>1
<1>11. CASE tickOpened
  <2>1. /\ tickPc = "open" /\ tickPc' \in {"events", "idle"}
        /\ tickPc' = "idle" => flushing' = flushing
        /\ UNCHANGED <<timer, serving, stopPc, awaiting, statting, tokenFlushing>>
    BY <1>11 DEF tickOpened, wireVars, sideVars, httpVars, stopVars
  <2> QED
    BY <2>1 DEF JoinCovered
<1>12. CASE tickFlushed
  <2>1. /\ tickPc = "events" /\ flushing = 0 /\ tickPc' # "events"
        /\ tickPc' # "stats" => statting' = statting
        /\ UNCHANGED <<timer, serving, stopPc, awaiting, flushing, tokenFlushing>>
    BY <1>12 DEF tickFlushed, sweepOrEnd, queueVars, httpVars, stopVars
  <2> QED
    BY <2>1 DEF JoinCovered
<1>13. CASE tickStatted
  <2>1. /\ tickPc = "stats" /\ statting.left = 0 /\ tickPc' = "tokens"
        /\ UNCHANGED <<timer, serving, stopPc, awaiting, flushing, statting>>
    BY <1>13 DEF tickStatted, queueVars, httpVars, stopVars
  <2> QED
    BY <2>1 DEF JoinCovered
<1>14. CASE tickTokensDone \/ tickReopened \/ runSweep
  <2>1. /\ tickPc \in {"tokens", "reopen", "sweep"} /\ tickPc' \in {"idle", "reopen", "sweep"}
        /\ tickPc = "tokens" => ~tokenFlushing
        /\ UNCHANGED <<timer, serving, stopPc, awaiting, flushing, statting, tokenFlushing>>
    BY <1>14 DEF tickTokensDone, tickReopened, runSweep, sweepOrEnd, queueVars, sideVars,
       httpVars, stopVars
  <2> QED
    BY <2>1 DEF JoinCovered
<1>15. CASE closeHttp
  BY <1>15 DEF closeHttp, JoinCovered, queueVars, sideVars, tickVars, stopVars
<1>16. CASE stop \/ joinStart
  <2>1. /\ timer' = FALSE /\ serving' = FALSE
        /\ \/ stopPc' = "joinStart"
           \/ stopPc' = "join1" /\ awaiting' = inFlight
        /\ UNCHANGED <<tickPc, flushing, statting, tokenFlushing>>
    BY <1>16 DEF stop, joinStart, httpClosed, queueVars, sideVars, httpVars, tickVars, TypeOK
  <2> QED
    BY <2>1 DEF JoinCovered, inFlight
<1>17. CASE joinOnce
  <2>1. /\ stopPc = "join1" /\ stopPc' = "join2" /\ awaiting \cap inFlight = {}
        /\ UNCHANGED <<timer, serving, tickPc, flushing, statting, tokenFlushing>>
    BY <1>17 DEF joinOnce, queueVars, sideVars, tickVars, httpVars
  <2>2. tickPc = "idle"
    BY <2>1 DEF JoinCovered, inFlight
  <2>3. ~(flushing > 0) /\ ~(statting.left > 0) /\ ~tokenFlushing
    BY <2>1, <2>2 DEF JoinCovered, inFlight
  <2>4. flushing = 0 /\ statting.left = 0
    BY <2>3 DEF TypeOK
  <2> QED
    BY <2>1, <2>2, <2>3, <2>4
<1>18. ASSUME NEW n, drainPass(n), stopPc \in {"join2", "open", "drain"}, flushing = 0,
              UNCHANGED <<timer, serving, tickPc, tokenFlushing>>
       PROVE  ShutdownSound'
  BY <1>18 DEF drainPass, wireVars
<1>19. CASE joinTwice
  <2>1. stopPc = "join2" /\ flushing = 0 /\ UNCHANGED <<timer, serving, tickPc, tokenFlushing>>
    BY <1>19 DEF joinTwice, tickVars, httpVars
  <2>2. CASE health.available
    BY <1>18, <1>19, <2>1, <2>2 DEF joinTwice
  <2>3. CASE ~health.available
    BY <1>19, <2>1, <2>3 DEF joinTwice, wireVars
  <2> QED
    BY <2>2, <2>3
<1>20. CASE stopOpened \/ stopDrained
  <2>1. /\ stopPc \in {"open", "drain"} /\ flushing = 0
        /\ UNCHANGED <<timer, serving, tickPc, tokenFlushing>>
        /\ \E n \in {0, ShutdownMaxPasses, passes} : drainPass(n)
    BY <1>20 DEF stopOpened, stopDrained, tickVars, httpVars
  <2> QED
    BY <1>18, <2>1
<1>21. CASE stopStatted \/ stopTokensDone \/ storeClosed
  <2>1. /\ \/ stopPc = "stats" /\ stopPc' = "tokens" /\ statting.left = 0
           \/ stopPc = "tokens" /\ stopPc' = "close" /\ ~tokenFlushing /\ ~tokenFlushing'
           \/ stopPc = "close" /\ stopPc' = "closed" /\ UNCHANGED tokenFlushing
        /\ UNCHANGED <<timer, serving, tickPc, flushing, statting>>
    BY <1>21 DEF stopStatted, stopTokensDone, storeClosed, queueVars, sideVars, tickVars, httpVars
  <2> QED
    BY <2>1
<1> QED
  BY <1>4, <1>5, <1>6, <1>7, <1>8, <1>9, <1>10, <1>11, <1>12, <1>13, <1>14, <1>15, <1>16,
     <1>17, <1>19, <1>20, <1>21 DEF Next, Answers, Steps, Shutdown

-----------------------------------------------------------------------------
\* The invariant holds in every reachable state.
THEOREM Invariance == Spec => []IInv
<1>1. IInv /\ [Next]_vars => IInv'
  BY TypeStep, WireStep, HealthStep, ShutdownStep DEF IInv
<1> QED
  BY <1>1, InitIInv, PTL DEF Spec

\* Every variable of the service keeps its type.
THEOREM TypeCorrect == Spec => []TypeOK
<1>1. IInv => TypeOK
  BY DEF IInv
<1> QED
  BY <1>1, Invariance, PTL

\* The health an operator reads is exact until shutdown ends: green if and
\* only if the store answered its probe and no write channel is failing; a red
\* page names its cause.
THEOREM HealthIsExact == Spec => []HealthExact
<1>1. IInv => HealthExact
  BY DEF IInv, HealthInv, HealthSound, HealthPrompt, HealthExact
<1> QED
  BY <1>1, Invariance, PTL

CeilingHolds == Len(buffer) + Len(batch) <= MaxBuffered

\* The rows held in memory, on the wire included, never pass the ceiling.
THEOREM CeilingIsKept == Spec => []CeilingHolds
<1>1. IInv => CeilingHolds
  BY DEF IInv, WireSound, CeilingHolds
<1> QED
  BY <1>1, Invariance, PTL

\* Every admitted sign-in is buffered, on the wire, stored, or given up and
\* counted: none vanishes under an await, an overflow or a shutdown.
THEOREM NothingVanishes == Spec => []NoEventVanishes
<1>1. IInv => NoEventVanishes
  BY DEF IInv
<1> QED
  BY <1>1, Invariance, PTL

\* drainAndClose closes the store only when no tick and no write is in flight,
\* and a stopping service has no timer, timed out or not.
THEOREM ClosesQuietly == Spec => []QuietClose
<1>1. IInv => QuietClose
  BY DEF IInv, ShutdownSound, Joined, QuietClose
<1> QED
  BY <1>1, Invariance, PTL

-----------------------------------------------------------------------------
(***************************************************************************)
(* The audit service, whatever its batches, cadence and shutdown do,       *)
(* implements the ledger of AuditLedger: every step of the service is a    *)
(* step of the ledger or leaves it alone.                                  *)
(***************************************************************************)
(***************************************************************************)
(* Facts about one queue cut in two parts, batch \o buffer.                *)
(***************************************************************************)
\* Cutting a sequence in two and joining the parts gives it back.
LEMMA CutJoin ==
  ASSUME NEW s \in Seq(Nat), NEW n \in 0..Len(s)
  PROVE  SubSeq(s, 1, n) \o SubSeq(s, n + 1, Len(s)) = s
<1>1. SubSeq(s, 1, n) \o SubSeq(s, n + 1, Len(s)) = SubSeq(s, 1, Len(s))
  <2>1. Len(s) \in Nat /\ 1 \in 1..(Len(s) + 1) /\ n \in (1 - 1)..Len(s) /\ Len(s) \in n..Len(s)
    OBVIOUS
  <2> QED
    BY <2>1, ConcatAdjacentSubSeq
<1> QED
  BY <1>1, SubSeqFull

\* The head of a joined queue is its first part, the rest its second.
LEMMA JoinCut ==
  ASSUME NEW s \in Seq(Nat), NEW t \in Seq(Nat)
  PROVE  /\ SubSeq(s \o t, 1, Len(s)) = s
         /\ SubSeq(s \o t, Len(s) + 1, Len(s \o t)) = t
<1> DEFINE q == s \o t
           m == Len(s)
           k == Len(t)
<1>1. m \in Nat /\ k \in Nat
  OBVIOUS
<1>2. q \in Seq(Nat) /\ Len(q) = m + k
  BY ConcatProperties
<1>3. SubSeq(q, 1, m) = s
  <2>1. CASE m = 0
    <3>1. s = <<>> /\ SubSeq(q, 1, m) = <<>>
      BY <2>1, SubSeqEmpty
    <3> QED
      BY <3>1
  <2>2. CASE m # 0
    <3>1. SubSeq(q, 1, m) = SubSeq(s, 1, m)
      BY <1>1, <2>2, SubSeqOfConcat1
    <3> QED
      BY <3>1, SubSeqFull
  <2> QED
    BY <2>1, <2>2
<1>4. SubSeq(q, m + 1, m + k) = t
  <2>1. CASE k = 0
    <3>1. m + k < m + 1
      BY <1>1, <2>1
    <3>2. t = <<>> /\ SubSeq(q, m + 1, m + k) = <<>>
      BY <1>1, <2>1, <3>1, SubSeqEmpty
    <3> QED
      BY <3>2
  <2>2. CASE k # 0
    <3>1. m + 1 \in (m + 1)..(m + k) /\ m + k \in (m + 1)..(m + k)
      BY <1>1, <2>2
    <3>2. SubSeq(q, m + 1, m + k) = SubSeq(t, m + 1 - m, m + k - m)
      BY <3>1, SubSeqOfConcat2
    <3>3. m + 1 - m = 1 /\ m + k - m = k
      BY <1>1
    <3> QED
      BY <3>2, <3>3, SubSeqFull
  <2> QED
    BY <2>1, <2>2
<1> QED
  BY <1>2, <1>3, <1>4

\* A new row joins the queue at its end.
LEMMA JoinAppend ==
  ASSUME NEW s \in Seq(Nat), NEW t \in Seq(Nat), NEW e \in Nat
  PROVE  s \o Append(t, e) = Append(s \o t, e)
<1>1. <<e>> \in Seq(Nat) /\ s \o t \in Seq(Nat)
  BY ConcatProperties
<1>2. Append(t, e) = t \o <<e>> /\ Append(s \o t, e) = (s \o t) \o <<e>>
  BY <1>1, AppendIsConcat
<1>3. (s \o t) \o <<e>> = s \o (t \o <<e>>)
  BY <1>1, ConcatAssociative
<1> QED
  BY <1>2, <1>3

\* Taking the oldest row out of the second part takes one out of the queue.
LEMMA JoinShift ==
  ASSUME NEW s \in Seq(Nat), NEW t \in Seq(Nat), t # <<>>
  PROVE  LET q == s \o t
             k == Len(s) + 1
         IN  /\ k \in 1..Len(q) /\ q[k] = t[1]
             /\ s \o SubSeq(t, 2, Len(t)) = SubSeq(q, 1, k - 1) \o SubSeq(q, k + 1, Len(q))
<1> DEFINE q == s \o t
           rest == SubSeq(t, 2, Len(t))
           m == Len(s)
           j == Len(t)
<1>1. m \in Nat /\ j \in Nat /\ j >= 1
  BY EmptySeq
<1>2. q \in Seq(Nat) /\ Len(q) = m + j /\ q[m + 1] = t[1]
  <2>1. \A i \in 1..(m + j) : q[i] = IF i <= m THEN s[i] ELSE t[i - m]
    BY ConcatProperties
  <2>2. m + 1 \in 1..(m + j) /\ ~(m + 1 <= m) /\ (m + 1) - m = 1
    BY <1>1
  <2>3. q[m + 1] = t[1]
    BY <2>1, <2>2
  <2> QED
    BY <2>3, ConcatProperties
<1>3. SubSeq(q, 1, m) = s
  BY JoinCut
<1>4. SubSeq(q, m + 2, m + j) = rest
  <2>1. CASE j = 1
    <3>1. m + j < m + 2 /\ j < 2
      BY <1>1, <2>1
    <3>2. SubSeq(q, m + 2, m + j) = <<>> /\ rest = <<>>
      BY <1>1, <3>1, SubSeqEmpty
    <3> QED
      BY <3>2
  <2>2. CASE j # 1
    <3>1. m + 2 \in (m + 1)..(m + j) /\ m + j \in (m + 1)..(m + j)
      <4> HIDE DEF m, j
      <4> QED
        BY <1>1, <2>2
    <3>2. SubSeq(q, m + 2, m + j) = SubSeq(t, m + 2 - m, m + j - m)
      BY <3>1, SubSeqOfConcat2
    <3>3. m + 2 - m = 2 /\ m + j - m = j
      BY <1>1
    <3> QED
      BY <3>2, <3>3
  <2> QED
    BY <2>1, <2>2
<1>5. m + 1 \in 1..Len(q) /\ (m + 1) - 1 = m /\ (m + 1) + 1 = m + 2
  BY <1>1, <1>2
<1> QED
  BY <1>2, <1>3, <1>4, <1>5

-----------------------------------------------------------------------------
(***************************************************************************)
(* The queue of the service, and what each call does to it.                *)
(***************************************************************************)
queue == batch \o buffer

\* Detaching a batch moves rows within the queue.
LEMMA DetachQueue ==
  ASSUME NEW rows \in Seq(Nat), NEW k \in Nat, detachBatch(rows, k)
  PROVE  batch' \o buffer' = rows
<1>1. Smaller(BatchRows, Len(rows)) \in 0..Len(rows)
  BY SizesAssumption DEF Smaller
<1> QED
  BY <1>1, CutJoin DEF detachBatch

\* Joining or starting a pass leaves the queue as the rows made it.
LEMMA FlushQueue ==
  ASSUME WireSound, NEW rows \in Seq(Nat), flushEvents(rows)
  PROVE  batch' \o buffer' = batch \o rows
<1>1. CASE flushing = 0 /\ rows # <<>>
  <2>1. detachBatch(rows, 1) /\ batch = <<>>
    BY <1>1 DEF flushEvents, WireSound
  <2> QED
    BY <2>1, DetachQueue, ConcatEmptySeq
<1>2. CASE ~(flushing = 0 /\ rows # <<>>)
  BY <1>2 DEF flushEvents
<1> QED
  BY <1>1, <1>2

(***************************************************************************)
(* What shutdown keeps beside IInv.  A drain pass that ends has written or *)
(* given up at least one batch, so the passes that count down the loop     *)
(* count down the rows: it ends on an empty buffer.                        *)
(***************************************************************************)
DrainInv ==
  /\ stopPc = "no" => stopped = "no"
  /\ stopPc = "drain" =>
       /\ Len(buffer) < before
       /\ passes <= ShutdownMaxPasses
       /\ Len(buffer) = 0 \/ Len(buffer) + passes * BatchRows <= MaxBuffered
  /\ stopPc \in {"stats", "tokens", "close", "closed"} => buffer = <<>>
  /\ flushing > 0 => batch # <<>>

\* The passes of a shutdown cover the ceiling even when each of them ends
\* after one batch, as it does while the store refuses every write.
DrainCovers == ShutdownMaxPasses * BatchRows >= MaxBuffered

\* The head of the drain loop with nothing on the wire: it detaches a batch,
\* or finds the buffer empty.
LEMMA DrainPassStep ==
  ASSUME IInv, DrainCovers, NEW n \in Nat, n <= ShutdownMaxPasses, flushing = 0,
         Len(buffer) = 0 \/ Len(buffer) + n * BatchRows <= MaxBuffered,
         drainPass(n), stopPc # "no"
  PROVE  DrainInv'
<1>1. /\ buffer \in Seq(Nat) /\ Len(buffer) \in Nat /\ batch = <<>>
      /\ ShutdownMaxPasses \in Nat /\ BatchRows \in Nat \ {0} /\ MaxBuffered \in Nat
  BY SizesAssumption, PassesAssumption DEF IInv, WireSound
<1>2. CASE n < ShutdownMaxPasses /\ buffer # <<>>
  <2>1. /\ stopPc' = "drain" /\ passes' = n + 1 /\ before' = Len(buffer)
        /\ detachBatch(buffer, 1)
    BY <1>2 DEF drainPass, flushEvents
  <2>2. PICK m \in Nat : m = Len(buffer)
    BY <1>1
  <2>3. m > 0
    BY <1>1, <1>2, <2>2
  <2> DEFINE d == Smaller(BatchRows, m)
  <2>4. /\ d \in 1..m
        /\ d = BatchRows \/ d = m
    BY <1>1, <2>3 DEF Smaller
  <2>5. buffer' = SubSeq(buffer, d + 1, m) /\ batch' = SubSeq(buffer, 1, d)
    BY <2>1, <2>2 DEF detachBatch
  <2> HIDE DEF d
  <2>6. Len(buffer') = m - d /\ Len(batch') = d
    BY <1>1, <2>2, <2>4, <2>5
  <2>7. n * BatchRows \in Nat /\ (n + 1) * BatchRows = n * BatchRows + BatchRows
    BY <1>1
  <2>8. m - d = 0 \/ (m - d) + (n + 1) * BatchRows <= MaxBuffered
    <3> DEFINE x == n * BatchRows
               y == (n + 1) * BatchRows
    <3>1. x \in Nat /\ y = x + BatchRows /\ (m = 0 \/ m + x <= MaxBuffered)
      BY <2>2, <2>7
    <3> HIDE DEF x, y
    <3>2. m - d = 0 \/ (m - d) + y <= MaxBuffered
      BY <1>1, <2>3, <2>4, <3>1
    <3> QED
      BY <3>2 DEF y
  <2>9. Len(buffer') < before' /\ passes' <= ShutdownMaxPasses
    BY <1>1, <1>2, <2>1, <2>2, <2>4, <2>6
  <2>10. Len(buffer') = 0 \/ Len(buffer') + passes' * BatchRows <= MaxBuffered
    BY <2>1, <2>6, <2>8
  <2>11. batch' # <<>>
    BY <2>4, <2>6
  <2> QED
    BY <2>1, <2>9, <2>10, <2>11 DEF DrainInv
<1>3. CASE ~(n < ShutdownMaxPasses /\ buffer # <<>>)
  <2>1. stopPc' = "stats" /\ buffer' = buffer /\ flushing' = flushing
    BY <1>3 DEF drainPass, wireVars
  <2>2. buffer = <<>>
    <3>1. CASE n = ShutdownMaxPasses
      <4>1. PICK m \in Nat : m = Len(buffer)
        BY <1>1
      <4>2. PICK x \in Nat : x = ShutdownMaxPasses * BatchRows
        BY <1>1
      <4>3. m = 0 \/ m + x <= MaxBuffered
        BY <3>1, <4>1, <4>2
      <4>4. x >= MaxBuffered
        BY <4>2 DEF DrainCovers
      <4>5. m = 0
        BY <1>1, <4>3, <4>4
      <4> QED
        BY <1>1, <4>1, <4>5, EmptySeq
    <3>2. CASE n # ShutdownMaxPasses
      BY <1>1, <1>3, <3>2
    <3> QED
      BY <3>1, <3>2
  <2> QED
    BY <2>1, <2>2 DEF DrainInv
<1> QED
  BY <1>2, <1>3

\* A fresh service has nothing to drain.
LEMMA DrainInit == Init => DrainInv
BY DEF Init, DrainInv

\* A pass that starts, or joins one, has a batch on the wire.
LEMMA BusyWire ==
  ASSUME WireSound, flushing > 0 => batch # <<>>, NEW rows \in Seq(Nat), flushEvents(rows)
  PROVE  flushing' > 0 => batch' # <<>>
<1>1. CASE flushing = 0 /\ rows # <<>>
  <2>1. detachBatch(rows, 1)
    BY <1>1 DEF flushEvents
  <2>2. PICK m \in Nat \ {0} : m = Len(rows)
    BY <1>1, EmptySeq
  <2> DEFINE d == Smaller(BatchRows, m)
  <2>3. d \in 1..m
    BY SizesAssumption DEF Smaller
  <2>4. batch' = SubSeq(rows, 1, d)
    BY <2>1, <2>2 DEF detachBatch
  <2> HIDE DEF d
  <2>5. Len(batch') = d
    BY <2>2, <2>3, <2>4
  <2> QED
    BY <2>3, <2>5
<1>2. CASE ~(flushing = 0 /\ rows # <<>>)
  BY <1>2 DEF flushEvents
<1> QED
  BY <1>1, <1>2

\* Every step keeps the drain invariant.  Once the flag is set no sign-in
\* enters, so a row that left the buffer is never replaced.
LEMMA DrainStep ==
  ASSUME IInv, DrainInv, DrainCovers, [Next]_vars
  PROVE  DrainInv'
<1>1. TypeOK /\ WireSound /\ ShutdownSound
  BY DEF IInv
<1>2. /\ buffer \in Seq(Nat) /\ Len(buffer) \in Nat /\ Len(batch) \in Nat /\ before \in Nat
      /\ passes \in Nat /\ ShutdownMaxPasses \in Nat /\ BatchRows \in Nat \ {0}
      /\ MaxBuffered \in Nat /\ Len(buffer) + Len(batch) <= MaxBuffered
      /\ flushing \in Nat
  BY <1>1, SizesAssumption, PassesAssumption DEF TypeOK, WireSound
<1>3. ASSUME UNCHANGED <<stopPc, stopped, buffer, before, passes>>,
             flushing' > 0 => batch' # <<>>
      PROVE  DrainInv'
  BY <1>3 DEF DrainInv
<1>4. ASSUME UNCHANGED <<stopPc, stopped, buffer, before, passes, flushing, batch>>
      PROVE  DrainInv'
  BY <1>3, <1>4 DEF DrainInv
<1>5. ASSUME ~stopping, UNCHANGED stopVars, flushing' > 0 => batch' # <<>>
      PROVE  DrainInv'
  BY <1>5 DEF DrainInv, stopping, stopVars
<1>6. CASE recordEvent
  <2>1. ~stopping /\ UNCHANGED stopVars
    BY <1>1, <1>6 DEF recordEvent, ShutdownSound
  <2>2. pushed \in Seq(Nat)
    BY <1>1, Pushed DEF TypeOK
  <2>3. flushing' > 0 => batch' # <<>>
    BY <1>1, <1>6, <2>2, BusyWire DEF recordEvent, DrainInv
  <2> QED
    BY <1>5, <2>1, <2>3
<1>7. CASE writeEventsOk
  <2>1. UNCHANGED stopVars /\ flushing > 0
    BY <1>7 DEF writeEventsOk
  <2>2. CASE moreBatches /\ buffer # <<>>
    <3>1. detachBatch(buffer, flushing + 1)
      BY <1>7, <2>2 DEF writeEventsOk
    <3>2. PICK m \in Nat \ {0} : m = Len(buffer)
      BY <1>2, <2>2, EmptySeq
    <3> DEFINE d == Smaller(BatchRows, m)
    <3>3. d \in 1..m
      BY <1>2 DEF Smaller
    <3>4. batch' = SubSeq(buffer, 1, d) /\ buffer' = SubSeq(buffer, d + 1, m)
      BY <3>1, <3>2 DEF detachBatch
    <3> HIDE DEF d
    <3>5. Len(batch') = d /\ Len(buffer') = m - d
      BY <1>2, <3>2, <3>3, <3>4
    <3>6. batch' # <<>> /\ Len(buffer') < Len(buffer) /\ Len(buffer') \in Nat
      BY <3>2, <3>3, <3>5
    <3>7. stopPc \notin {"stats", "tokens", "close", "closed"}
      BY <2>2 DEF DrainInv
    <3>8. ASSUME stopPc = "drain"
          PROVE  /\ Len(buffer') < before
                 /\ Len(buffer') = 0 \/ Len(buffer') + passes * BatchRows <= MaxBuffered
      <4>1. PICK k \in Nat : k = Len(buffer')
        BY <3>6
      <4>2. PICK x \in Nat : x = passes * BatchRows
        BY <1>2
      <4>3. k < m /\ m < before /\ (m = 0 \/ m + x <= MaxBuffered)
        BY <3>2, <3>6, <3>8, <4>1, <4>2 DEF DrainInv
      <4>4. k < before /\ k + x <= MaxBuffered
        BY <1>2, <4>3
      <4> QED
        BY <4>1, <4>2, <4>4
    <3> QED
      BY <2>1, <3>6, <3>7, <3>8 DEF DrainInv, stopVars
  <2>3. CASE ~(moreBatches /\ buffer # <<>>)
    BY <1>3, <1>7, <2>3 DEF writeEventsOk, endPass, stopVars
  <2> QED
    BY <2>2, <2>3
<1>8. CASE writeEventsFailed
  BY <1>3, <1>8 DEF writeEventsFailed, endPass, stopVars
<1>9. CASE tick
  <2>1. ~stopping /\ UNCHANGED stopVars /\ (flushEvents(buffer) \/ UNCHANGED wireVars)
    BY <1>9 DEF tick
  <2>2. flushing' > 0 => batch' # <<>>
    BY <1>1, <1>2, <2>1, BusyWire DEF DrainInv, wireVars
  <2> QED
    BY <1>5, <2>1, <2>2
<1>10. CASE tickOpened
  <2>1. CASE flushEvents(buffer)
    <3>1. flushing' > 0 => batch' # <<>>
      BY <1>1, <1>2, <2>1, BusyWire DEF DrainInv
    <3>2. stopPc \notin Joined
      BY <1>1, <1>10 DEF tickOpened, ShutdownSound
    <3>3. UNCHANGED stopVars
      BY <1>10 DEF tickOpened
    <3> QED
      BY <3>1, <3>2, <3>3 DEF DrainInv, Joined, stopVars
  <2>2. CASE UNCHANGED wireVars
    BY <1>4, <1>10, <2>2 DEF tickOpened, wireVars, stopVars
  <2> QED
    BY <1>10, <2>1, <2>2 DEF tickOpened
<1>11. CASE joinTwice
  <2>1. flushing = 0 /\ stopPc = "join2"
    BY <1>1, <1>11 DEF joinTwice, ShutdownSound, Joined
  <2>2. CASE health.available
    <3>1. drainPass(0) /\ Len(buffer) + 0 * BatchRows <= MaxBuffered /\ 0 <= ShutdownMaxPasses
      BY <1>2, <1>11, <2>2 DEF joinTwice
    <3> QED
      BY <2>1, <3>1, DrainPassStep
  <2>3. CASE ~health.available
    BY <1>11, <2>1, <2>3 DEF joinTwice, DrainInv, wireVars
  <2> QED
    BY <2>2, <2>3
<1>12. CASE stopOpened
  <2>1. flushing = 0 /\ stopPc = "open"
    BY <1>1, <1>12 DEF stopOpened, ShutdownSound, Joined
  <2>2. drainPass(0) /\ Len(buffer) + 0 * BatchRows <= MaxBuffered /\ 0 <= ShutdownMaxPasses
    BY <1>2, <1>12 DEF stopOpened
  <2> QED
    BY <2>1, <2>2, DrainPassStep
<1>13. CASE stopDrained
  <2>1. flushing = 0 /\ stopPc = "drain"
    BY <1>13 DEF stopDrained
  <2>2. ~(Len(buffer) >= before)
    BY <1>2, <2>1 DEF DrainInv
  <2>3. drainPass(passes)
    BY <1>13, <2>2 DEF stopDrained
  <2>4. /\ Len(buffer) = 0 \/ Len(buffer) + passes * BatchRows <= MaxBuffered
        /\ passes <= ShutdownMaxPasses
    BY <2>1 DEF DrainInv
  <2> QED
    BY <1>2, <2>1, <2>3, <2>4, DrainPassStep
<1>14. CASE withDeadline
  BY <1>14 DEF withDeadline, clockRuns, stopping, DrainInv
<1>15. CASE stop \/ joinStart \/ joinOnce
  BY <1>15 DEF stop, joinStart, joinOnce, queueVars, DrainInv
<1>16. CASE stopStatted \/ stopTokensDone \/ storeClosed
  BY <1>16 DEF stopStatted, stopTokensDone, storeClosed, queueVars, DrainInv
<1>17. ASSUME UNCHANGED <<queueVars, stopVars>>
       PROVE  DrainInv'
  BY <1>4, <1>17 DEF queueVars, stopVars
<1>18. CASE \/ refuseEvent \/ countTokenUse \/ beginRead \/ writeStat \/ writeTokenUsage
            \/ tracked \/ startOpened \/ tickReopened \/ runSweep \/ start \/ tickFlushed
            \/ tickStatted \/ tickTokensDone \/ closeHttp \/ heal
  BY <1>17, <1>18 DEF refuseEvent, countTokenUse, beginRead, writeStat, writeTokenUsage,
     tracked, startOpened, tickReopened, runSweep, start, tickFlushed, tickStatted,
     tickTokensDone, closeHttp, heal
<1>19. CASE UNCHANGED vars
  BY <1>17, <1>19 DEF vars
<1> QED
  BY <1>6, <1>7, <1>8, <1>9, <1>10, <1>11, <1>12, <1>13, <1>14, <1>15, <1>16, <1>18, <1>19
     DEF Next, Requests, Answers, Steps, Shutdown

-----------------------------------------------------------------------------
(***************************************************************************)
(* The steps of the ledger, as the service takes them.                     *)
(***************************************************************************)
\* A sign-in arrives: at the ceiling the oldest row that is not on the wire
\* is displaced, below it the queue grows by one.
LEMMA RecordRefines ==
  ASSUME IInv, DrainInv, recordEvent
  PROVE  Ledger!Admit \/ Ledger!Displace
<1>1. /\ buffer \in Seq(Nat) /\ batch \in Seq(Nat) /\ recorded \in Nat /\ WireSound
      /\ Len(buffer) \in Nat /\ Len(batch) \in Nat /\ recorded + 1 \in Nat
      /\ Len(buffer) + Len(batch) <= MaxBuffered /\ Len(batch) <= BatchRows
      /\ queue \in Seq(Nat) /\ Len(queue) = Len(batch) + Len(buffer)
  BY ConcatProperties DEF IInv, TypeOK, WireSound, queue
<1>2. stopped = "no" /\ UNCHANGED <<stored, stopped>> /\ recorded' = recorded + 1
  BY DEF recordEvent, stopVars, IInv, ShutdownSound, stopping, DrainInv
<1>3. pushed \in Seq(Nat)
  BY <1>1, Pushed
<1>4. batch' \o buffer' = batch \o pushed
  BY <1>1, <1>3, FlushQueue DEF recordEvent
<1>5. CASE full
  <2>1. Len(queue) = MaxBuffered /\ buffer # <<>>
    <3>1. PICK m \in Nat, j \in Nat : m = Len(batch) /\ j = Len(buffer)
      BY <1>1
    <3>2. /\ m + j <= MaxBuffered /\ m <= BatchRows /\ BatchRows < MaxBuffered
          /\ BatchRows \in Nat /\ MaxBuffered \in Nat
      BY <1>1, <3>1, SizesAssumption
    <3>3. j + m >= MaxBuffered
      BY <1>5, <3>1 DEF full
    <3>4. m + j = MaxBuffered /\ j > 0
      BY <3>2, <3>3
    <3> QED
      BY <1>1, <3>1, <3>4
  <2> DEFINE r == SubSeq(buffer, 2, Len(buffer))
             k == Len(batch) + 1
             w == SubSeq(queue, 1, k - 1) \o SubSeq(queue, k + 1, Len(queue))
  <2>2. k \in 1..Len(queue) /\ queue[k] = buffer[1] /\ batch \o r = w
    BY <1>1, <2>1, JoinShift DEF queue
  <2>3. r \in Seq(Nat)
    BY <1>1, <2>1, RangeShift
  <2>4. pushed = Append(r, recorded + 1)
    BY <1>5 DEF pushed
  <2>5. batch \o pushed = Append(w, recorded + 1)
    <3> HIDE DEF r, w
    <3>1. batch \o Append(r, recorded + 1) = Append(batch \o r, recorded + 1)
      BY <1>1, <2>3, JoinAppend
    <3> QED
      BY <2>2, <2>4, <3>1
  <2>6. dropped' = dropped \cup {queue[k]} /\ unconfirmed' = unconfirmed + 1
    BY <1>5, <2>2 DEF recordEvent
  <2> HIDE DEF k
  <2>7. Ledger!Displace
    BY <1>2, <1>4, <2>1, <2>2, <2>5, <2>6 DEF Ledger!Displace, Ledger!Without, queue
  <2> QED
    BY <2>7
<1>6. CASE ~full
  <2>1. Len(queue) < MaxBuffered
    BY <1>1, <1>6, SizesAssumption DEF full
  <2>2. batch \o pushed = Append(queue, recorded + 1)
    BY <1>1, <1>6, JoinAppend DEF pushed, queue
  <2>3. UNCHANGED <<dropped, unconfirmed>>
    BY <1>6 DEF recordEvent
  <2>4. Ledger!Admit
    BY <1>2, <1>4, <2>1, <2>2, <2>3 DEF Ledger!Admit, queue
  <2> QED
    BY <2>4
<1> QED
  BY <1>5, <1>6

\* The batch on the wire is the head of the queue; what is left is the buffer.
LEMMA BatchLeaves ==
  ASSUME IInv, DrainInv, flushing > 0
  PROVE  /\ Len(batch) \in 1..Len(queue)
         /\ SubSeq(queue, 1, Len(batch)) = batch
         /\ SubSeq(queue, Len(batch) + 1, Len(queue)) = buffer
<1>1. buffer \in Seq(Nat) /\ batch \in Seq(Nat) /\ batch # <<>>
  BY DEF IInv, WireSound, DrainInv
<1>2. Len(batch) \in Nat \ {0} /\ Len(buffer) \in Nat /\ Len(queue) = Len(batch) + Len(buffer)
  BY <1>1, EmptySeq, ConcatProperties DEF queue
<1>3. Len(batch) \in 1..Len(queue)
  BY <1>2
<1> QED
  BY <1>1, <1>3, JoinCut DEF queue

\* A batch acknowledged is a prefix of the queue stored.
LEMMA StoreRefines ==
  ASSUME IInv, DrainInv, writeEventsOk
  PROVE  Ledger!Store
<1>1. /\ buffer \in Seq(Nat) /\ flushing \in Nat /\ flushing > 0
      /\ stored' = stored \cup Range(batch)
      /\ UNCHANGED <<recorded, dropped, unconfirmed, stopped>>
  BY DEF writeEventsOk, IInv, WireSound, stopVars
<1>2. batch' \o buffer' = buffer
  <2>1. CASE moreBatches /\ buffer # <<>>
    <3>1. detachBatch(buffer, flushing + 1) /\ flushing + 1 \in Nat
      BY <1>1, <2>1 DEF writeEventsOk
    <3> QED
      BY <1>1, <3>1, DetachQueue
  <2>2. CASE ~(moreBatches /\ buffer # <<>>)
    BY <1>1, <2>2, ConcatEmptySeq DEF writeEventsOk, endPass
  <2> QED
    BY <2>1, <2>2
<1>3. \E n \in 1..Len(queue) :
           /\ stored' = stored \cup Range(SubSeq(queue, 1, n))
           /\ batch' \o buffer' = SubSeq(queue, n + 1, Len(queue))
  <2>1. PICK n : n = Len(batch)
    OBVIOUS
  <2> QED
    BY <1>1, <1>2, <2>1, BatchLeaves
<1> QED
  BY <1>1, <1>3 DEF Ledger!Store, Ledger!Range, Range, queue

\* A batch that failed is a prefix of the queue given up and counted.
LEMMA GiveUpRefines ==
  ASSUME IInv, DrainInv, writeEventsFailed
  PROVE  Ledger!GiveUp
<1>1. /\ buffer \in Seq(Nat) /\ flushing > 0
      /\ dropped' = dropped \cup Range(batch) /\ unconfirmed' = unconfirmed + Len(batch)
      /\ batch' = <<>> /\ buffer' = buffer
      /\ UNCHANGED <<recorded, stored, stopped>>
  BY DEF writeEventsFailed, endPass, IInv, WireSound, stopVars
<1>2. batch' \o buffer' = buffer
  BY <1>1, ConcatEmptySeq
<1>3. \E n \in 1..Len(queue) :
           /\ dropped' = dropped \cup Range(SubSeq(queue, 1, n))
           /\ unconfirmed' = unconfirmed + n
           /\ batch' \o buffer' = SubSeq(queue, n + 1, Len(queue))
  <2>1. PICK n : n = Len(batch)
    OBVIOUS
  <2> QED
    BY <1>1, <1>2, <2>1, BatchLeaves
<1> QED
  BY <1>1, <1>3 DEF Ledger!GiveUp, Ledger!Range, Range, queue

\* Every other step leaves the ledger alone, or closes it.
LEMMA StepRefines ==
  ASSUME IInv, DrainInv, [Next]_vars
  PROVE  [Ledger!Next]_Ledger!vars
<1>1. /\ buffer \in Seq(Nat) /\ batch \in Seq(Nat) /\ WireSound /\ ShutdownSound
  BY DEF IInv, WireSound
<1>2. ASSUME UNCHANGED <<fateVars, stopped>>, batch' \o buffer' = batch \o buffer
      PROVE  [Ledger!Next]_Ledger!vars
  BY <1>2 DEF Ledger!vars, fateVars
<1>3. ASSUME flushEvents(buffer) \/ UNCHANGED wireVars
      PROVE  batch' \o buffer' = batch \o buffer
  BY <1>1, <1>3, FlushQueue DEF wireVars
<1>4. CASE recordEvent
  BY <1>4, RecordRefines DEF Ledger!Next
<1>5. CASE writeEventsOk
  BY <1>5, StoreRefines DEF Ledger!Next
<1>6. CASE writeEventsFailed
  BY <1>6, GiveUpRefines DEF Ledger!Next
<1>7. CASE tick \/ tickOpened
  BY <1>2, <1>3, <1>7 DEF tick, tickOpened, stopVars
<1>8. ASSUME NEW n, drainPass(n), UNCHANGED <<fateVars, stopped>>
      PROVE  [Ledger!Next]_Ledger!vars
  BY <1>2, <1>3, <1>8 DEF drainPass
<1>9. CASE joinTwice
  BY <1>2, <1>3, <1>8, <1>9 DEF joinTwice
<1>10. CASE stopOpened \/ stopDrained
  BY <1>8, <1>10 DEF stopOpened, stopDrained
<1>11. CASE storeClosed
  <2>1. UNCHANGED queueVars /\ stopPc = "close"
    BY <1>11 DEF storeClosed
  <2>2. buffer = <<>> /\ batch = <<>>
    BY <1>1, <2>1 DEF DrainInv, ShutdownSound, Joined, WireSound
  <2>3. batch \o buffer = <<>> /\ batch' \o buffer' = batch \o buffer
    BY <2>1, <2>2, ConcatEmptySeq DEF queueVars
  <2>4. CASE stopped = "no"
    <3>1. Ledger!Close
      BY <1>11, <2>1, <2>3, <2>4 DEF storeClosed, Ledger!Close, queueVars
    <3> QED
      BY <3>1 DEF Ledger!Next
  <2>5. CASE stopped # "no"
    BY <1>2, <1>11, <2>1, <2>3, <2>5 DEF storeClosed, queueVars, fateVars
  <2> QED
    BY <2>4, <2>5
<1>12. CASE withDeadline
  <2>1. /\ stopped = "no" /\ stopped' = "timedOut"
        /\ unconfirmed' = unconfirmed + Len(buffer) + Len(batch)
        /\ UNCHANGED <<recorded, buffer, batch, stored, dropped>>
    BY <1>12 DEF withDeadline
  <2>2. unconfirmed + Len(buffer) + Len(batch) = unconfirmed + Len(batch \o buffer)
    <3>1. PICK m \in Nat, j \in Nat : m = Len(batch) /\ j = Len(buffer)
      BY <1>1
    <3>2. unconfirmed \in Nat /\ Len(batch \o buffer) = m + j
      BY <1>1, <3>1, ConcatProperties DEF IInv, TypeOK
    <3>3. unconfirmed + j + m = unconfirmed + (m + j)
      BY <3>1, <3>2
    <3> QED
      BY <3>1, <3>2, <3>3
  <2>3. Ledger!Abandon
    BY <2>1, <2>2 DEF Ledger!Abandon
  <2> QED
    BY <2>3 DEF Ledger!Next
<1>13. ASSUME UNCHANGED <<queueVars, stopped>>
       PROVE  [Ledger!Next]_Ledger!vars
  BY <1>2, <1>13 DEF queueVars, fateVars
<1>14. CASE \/ refuseEvent \/ countTokenUse \/ beginRead \/ writeStat \/ writeTokenUsage
            \/ tracked \/ startOpened \/ tickReopened \/ runSweep \/ start \/ tickFlushed
            \/ tickStatted \/ tickTokensDone \/ closeHttp \/ heal
  BY <1>13, <1>14 DEF refuseEvent, countTokenUse, beginRead, writeStat, writeTokenUsage,
     tracked, startOpened, tickReopened, runSweep, start, tickFlushed, tickStatted,
     tickTokensDone, closeHttp, heal, stopVars
<1>15. CASE stop \/ joinStart \/ joinOnce \/ stopStatted \/ stopTokensDone \/ UNCHANGED vars
  BY <1>13, <1>15 DEF stop, joinStart, joinOnce, stopStatted, stopTokensDone, vars, stopVars
<1> QED
  BY <1>4, <1>5, <1>6, <1>7, <1>9, <1>10, <1>11, <1>12, <1>14, <1>15
     DEF Next, Requests, Answers, Steps, Shutdown

\* A fresh service is an empty ledger.
LEMMA InitRefines == Init => Ledger!Init
BY ConcatEmptySeq DEF Init, Ledger!Init

\* The service implements the ledger for every buffer, batch and cadence, as
\* long as the drain passes cover the ceiling: every sign-in that leaves memory
\* is stored or counted as lost, the ceiling holds, and a stop that does not
\* run out of time leaves nothing behind.
THEOREM LedgerIsKept ==
  ASSUME DrainCovers
  PROVE  Spec => LedgerKept
<1>1. IInv /\ DrainInv /\ [Next]_vars => DrainInv'
  BY DrainStep
<1>2. Spec => []DrainInv
  BY <1>1, DrainInit, Invariance, PTL DEF Spec
<1>3. IInv /\ DrainInv /\ [Next]_vars => [Ledger!Next]_Ledger!vars
  BY StepRefines
<1> QED
  BY <1>2, <1>3, InitRefines, Invariance, PTL DEF Spec, LedgerKept, Ledger!Spec

-----------------------------------------------------------------------------
(***************************************************************************)
(* Every admitted sign-in has one fate.  The rows in memory are distinct,  *)
(* none of them has been stored or given up, and none of those stored is   *)
(* given up.                                                               *)
(***************************************************************************)
OneFate ==
  /\ flushing > 0 => batch # <<>>
  /\ IsInjective(buffer) /\ IsInjective(batch)
  /\ Range(buffer) \cap Range(batch) = {}
  /\ (Range(buffer) \cup Range(batch)) \cap (stored \cup dropped) = {}
  /\ stored \cap dropped = {}

\* A sequence of distinct rows.
LEMMA DistinctRows ==
  ASSUME NEW s \in Seq(Nat)
  PROVE  IsInjective(s) <=> \A i, j \in 1..Len(s) : s[i] = s[j] => i = j
<1>1. DOMAIN s = 1..Len(s)
  OBVIOUS
<1> QED
  BY <1>1, Zenon DEF IsInjective

\* The parts of a sequence of distinct rows are of distinct rows, and share none.
LEMMA CutDistinct ==
  ASSUME NEW s \in Seq(Nat), NEW n \in 0..Len(s), IsInjective(s)
  PROVE  /\ IsInjective(SubSeq(s, 1, n)) /\ IsInjective(SubSeq(s, n + 1, Len(s)))
         /\ Range(SubSeq(s, 1, n)) \cap Range(SubSeq(s, n + 1, Len(s))) = {}
<1> DEFINE a == SubSeq(s, 1, n)
           b == SubSeq(s, n + 1, Len(s))
<1>1. /\ a \in Seq(Nat) /\ Len(a) = n
      /\ b \in Seq(Nat) /\ Len(b) = Len(s) - n
      /\ \A i \in 1..n : a[i] = s[i]
      /\ \A i \in 1..(Len(s) - n) : b[i] = s[n + i]
  OBVIOUS
<1> HIDE DEF a, b
<1>2. \A i, j \in 1..Len(s) : s[i] = s[j] => i = j
  BY DistinctRows
<1>3. ASSUME NEW i \in 1..n, NEW j \in 1..n, a[i] = a[j] PROVE i = j
  <2>1. i \in 1..Len(s) /\ j \in 1..Len(s)
    OBVIOUS
  <2>2. s[i] = s[j]
    BY <1>1, <1>3
  <2> QED
    BY <1>2, <2>1, <2>2
<1>4. ASSUME NEW i \in 1..(Len(s) - n), NEW j \in 1..(Len(s) - n), b[i] = b[j] PROVE i = j
  <2>1. n + i \in 1..Len(s) /\ n + j \in 1..Len(s) /\ s[n + i] = s[n + j]
    BY <1>1, <1>4
  <2>2. n + i = n + j
    BY <1>2, <2>1
  <2> QED
    BY <2>2
<1>5. ASSUME NEW x \in Range(a) \cap Range(b) PROVE FALSE
  <2>1. PICK i \in 1..n : x = a[i]
    BY <1>1, <1>5, RangeMember
  <2>2. PICK j \in 1..(Len(s) - n) : x = b[j]
    BY <1>1, <1>5, RangeMember
  <2>3. i \in 1..Len(s) /\ n + j \in 1..Len(s)
    OBVIOUS
  <2>4. s[i] = x /\ s[n + j] = x
    BY <1>1, <2>1, <2>2
  <2>5. i = n + j
    BY <1>2, <2>3, <2>4
  <2> QED
    BY <2>5
<1>6. IsInjective(a) /\ IsInjective(b) /\ Range(a) \cap Range(b) = {}
  BY <1>1, <1>3, <1>4, <1>5, DistinctRows
<1> QED
  BY <1>6 DEF a, b

\* A new row at the end of distinct ones.
LEMMA AppendDistinct ==
  ASSUME NEW s \in Seq(Nat), NEW e \in Nat, IsInjective(s), e \notin Range(s),
         NEW t, t = Append(s, e)
  PROVE  IsInjective(t)
<1>1. /\ t \in Seq(Nat) /\ Len(t) = Len(s) + 1 /\ t[Len(s) + 1] = e
      /\ \A i \in 1..Len(s) : t[i] = s[i]
  OBVIOUS
<1>2. /\ \A i, j \in 1..Len(s) : s[i] = s[j] => i = j
      /\ \A i \in 1..Len(s) : s[i] # e
  BY DistinctRows, RangeMember
<1>3. ASSUME NEW i \in 1..Len(t), NEW j \in 1..Len(t), t[i] = t[j] PROVE i = j
  BY <1>1, <1>2, <1>3
<1> QED
  BY <1>1, <1>3, DistinctRows

\* Detaching a batch deals distinct rows out to the wire and the buffer.
LEMMA DetachFates ==
  ASSUME NEW rows \in Seq(Nat), NEW k, detachBatch(rows, k), IsInjective(rows)
  PROVE  /\ IsInjective(buffer') /\ IsInjective(batch')
         /\ Range(buffer') \cap Range(batch') = {}
         /\ rows # <<>> => batch' # <<>>
<1> DEFINE n == Smaller(BatchRows, Len(rows))
<1>1. n \in 0..Len(rows) /\ (rows # <<>> => n > 0)
  BY SizesAssumption DEF Smaller
<1>2. batch' = SubSeq(rows, 1, n) /\ buffer' = SubSeq(rows, n + 1, Len(rows))
  BY DEF detachBatch
<1> HIDE DEF n
<1>3. Len(batch') = n
  BY <1>1, <1>2
<1>4. n > 0 => batch' # <<>>
  BY <1>3
<1> QED
  BY <1>1, <1>2, <1>4, CutDistinct

\* Joining or starting a pass over distinct rows, none of them on the wire.
LEMMA FlushFates ==
  ASSUME WireSound, NEW rows \in Seq(Nat), Len(rows) + Len(batch) <= MaxBuffered, flushEvents(rows),
         OneFate, IsInjective(rows), Range(rows) \cap Range(batch) = {}
  PROVE  /\ flushing' > 0 => batch' # <<>>
         /\ IsInjective(buffer') /\ IsInjective(batch')
         /\ Range(buffer') \cap Range(batch') = {}
<1>1. CASE flushing = 0 /\ rows # <<>>
  BY <1>1, DetachFates DEF flushEvents
<1>2. CASE ~(flushing = 0 /\ rows # <<>>)
  BY <1>2 DEF flushEvents, OneFate
<1> QED
  BY <1>1, <1>2

\* What the buffer holds once a sign-in is pushed: distinct rows that were there
\* before, the new one, and not the one an overflow gives up.
LEMMA PushedFates ==
  ASSUME IInv, OneFate
  PROVE  /\ IsInjective(pushed) /\ Range(pushed) \subseteq Range(buffer) \cup {recorded + 1}
         /\ full => buffer[1] \in Range(buffer) \ Range(pushed)
         /\ recorded + 1 \notin Range(buffer) \cup Range(batch) \cup stored \cup dropped
<1>1. /\ recorded \in Nat /\ buffer \in Seq(Nat) /\ Len(buffer) \in Nat /\ WireSound
      /\ IsInjective(buffer)
  BY DEF IInv, TypeOK, WireSound, OneFate
<1>2. recorded + 1 \notin Range(buffer) \cup Range(batch) \cup stored \cup dropped
  <2>1. recorded + 1 \notin 1..recorded
    BY <1>1
  <2> QED
    BY <2>1 DEF IInv, NoEventVanishes
<1>3. CASE full
  <2>1. PICK rest : rest = SubSeq(buffer, 2, Len(buffer))
    OBVIOUS
  <2>2. Len(buffer) >= 1 /\ buffer # <<>>
    BY <1>1, <1>3, SizesAssumption DEF full, WireSound
  <2>3. rest \in Seq(Nat) /\ buffer[1] \in Nat /\ Range(buffer) = {buffer[1]} \cup Range(rest)
    BY <1>1, <2>1, <2>2, RangeShift
  <2>4. IsInjective(rest) /\ Range(SubSeq(buffer, 1, 1)) \cap Range(rest) = {}
    <3>1. 1 \in 0..Len(buffer) /\ 1 + 1 = 2
      BY <1>1, <2>2
    <3> QED
      BY <1>1, <2>1, <3>1, CutDistinct
  <2>5. buffer[1] \in Range(SubSeq(buffer, 1, 1))
    <3>1. PICK h : h = SubSeq(buffer, 1, 1)
      OBVIOUS
    <3>2. h \in Seq(Nat) /\ Len(h) = 1 /\ h[1] = buffer[1] /\ 1 \in 1..Len(h)
      BY <1>1, <2>2, <3>1
    <3>3. buffer[1] \in Range(h)
      BY <3>2, RangeMember
    <3> QED
      BY <3>1, <3>3
  <2>6. pushed = Append(rest, recorded + 1)
    BY <1>3, <2>1 DEF pushed
  <2>7. recorded + 1 \in Nat /\ recorded + 1 \notin Range(rest) /\ recorded + 1 # buffer[1]
    BY <1>1, <1>2, <2>3
  <2>8. IsInjective(pushed) /\ Range(pushed) = Range(rest) \cup {recorded + 1}
    BY <2>3, <2>4, <2>6, <2>7, AppendDistinct, RangeAppend
  <2> QED
    BY <1>2, <2>3, <2>4, <2>5, <2>7, <2>8
<1>4. CASE ~full
  <2>1. pushed = Append(buffer, recorded + 1) /\ recorded + 1 \in Nat
    BY <1>1, <1>4 DEF pushed
  <2>2. IsInjective(pushed) /\ Range(pushed) = Range(buffer) \cup {recorded + 1}
    BY <1>1, <1>2, <2>1, AppendDistinct, RangeAppend
  <2> QED
    BY <1>2, <1>4, <2>2
<1> QED
  BY <1>3, <1>4

LEMMA NoneDistinct ==
  ASSUME NEW s \in Seq(Nat), Len(s) = 0
  PROVE  IsInjective(s) /\ Range(s) = {}
<1>1. 1..Len(s) = {}
  OBVIOUS
<1>2. IsInjective(s)
  BY <1>1, DistinctRows
<1>3. Range(s) = {}
  BY <1>1, RangeMember
<1> QED
  BY <1>2, <1>3

LEMMA InitFates == Init => OneFate
<1> SUFFICES ASSUME Init PROVE OneFate
  OBVIOUS
<1>1. buffer \in Seq(Nat) /\ Len(buffer) = 0 /\ batch = buffer
  BY DEF Init
<1>2. IsInjective(buffer) /\ Range(buffer) = {}
  BY <1>1, NoneDistinct
<1> QED
  BY <1>1, <1>2 DEF Init, OneFate

\* Every step keeps the fates apart.
LEMMA FateStep ==
  ASSUME IInv, IInv', OneFate, [Next]_vars
  PROVE  OneFate'
<1>1. /\ recorded \in Nat /\ buffer \in Seq(Nat) /\ batch \in Seq(Nat) /\ WireSound
      /\ Len(buffer) + Len(batch) <= MaxBuffered
  BY DEF IInv, TypeOK, WireSound
<1>2. ASSUME UNCHANGED <<buffer, batch, flushing, stored, dropped>>
      PROVE  OneFate'
  BY <1>2 DEF OneFate
<1>3. ASSUME NEW rows \in Seq(Nat), Len(rows) + Len(batch) <= MaxBuffered, flushEvents(rows),
             IsInjective(rows), Range(rows) \cap (Range(batch) \cup stored' \cup dropped') = {},
             Range(batch) \cap (stored' \cup dropped') = {}, stored' \cap dropped' = {}
      PROVE  OneFate'
  <2>1. /\ flushing' > 0 => batch' # <<>>
        /\ IsInjective(buffer') /\ IsInjective(batch')
        /\ Range(buffer') \cap Range(batch') = {}
    BY <1>1, <1>3, FlushFates
  <2>2. Range(buffer') \cup Range(batch') = Range(rows) \cup Range(batch)
    BY <1>1, <1>3, FlushEvents
  <2> QED
    BY <1>3, <2>1, <2>2 DEF OneFate
<1>4. ASSUME flushEvents(buffer), UNCHANGED fateVars
      PROVE  OneFate'
  BY <1>1, <1>3, <1>4 DEF OneFate, fateVars
<1>5. CASE recordEvent
  <2>1. /\ IsInjective(pushed) /\ Range(pushed) \subseteq Range(buffer) \cup {recorded + 1}
        /\ full => buffer[1] \in Range(buffer) \ Range(pushed)
        /\ recorded + 1 \notin Range(buffer) \cup Range(batch) \cup stored \cup dropped
    BY PushedFates
  <2>2. pushed \in Seq(Nat) /\ Len(pushed) + Len(batch) <= MaxBuffered
    BY <1>1, Pushed
  <2>3. stored' = stored /\ dropped' = IF full THEN dropped \cup {buffer[1]} ELSE dropped
    BY <1>5 DEF recordEvent
  <2>4. /\ Range(pushed) \cap (Range(batch) \cup stored' \cup dropped') = {}
        /\ Range(batch) \cap (stored' \cup dropped') = {} /\ stored' \cap dropped' = {}
    BY <2>1, <2>3 DEF OneFate
  <2>5. CASE flushEvents(pushed)
    BY <1>3, <2>1, <2>2, <2>4, <2>5
  <2>6. CASE buffer' = pushed /\ UNCHANGED <<batch, flushing>>
    BY <2>1, <2>4, <2>6 DEF OneFate
  <2> QED
    BY <1>5, <2>5, <2>6 DEF recordEvent
<1>6. ASSUME batch' = <<>>, flushing' = 0, buffer' = buffer,
             \/ stored' = stored \cup Range(batch) /\ dropped' = dropped
             \/ dropped' = dropped \cup Range(batch) /\ stored' = stored
      PROVE  OneFate'
  <2>1. batch' \in Seq(Nat) /\ Len(batch') = 0
    BY <1>6
  <2>2. IsInjective(batch') /\ Range(batch') = {}
    BY <2>1, NoneDistinct
  <2> QED
    BY <1>6, <2>1, <2>2 DEF OneFate
<1>7. CASE writeEventsOk
  <2>1. stored' = stored \cup Range(batch) /\ dropped' = dropped
    BY <1>7 DEF writeEventsOk
  <2>2. CASE moreBatches /\ buffer # <<>>
    <3>1. detachBatch(buffer, flushing + 1) /\ flushing + 1 \in Nat
      BY <1>1, <1>7, <2>2 DEF writeEventsOk, WireSound
    <3>2. /\ IsInjective(buffer') /\ IsInjective(batch')
          /\ Range(buffer') \cap Range(batch') = {} /\ batch' # <<>>
      BY <1>1, <2>2, <3>1, DetachFates DEF OneFate
    <3>3. Range(buffer) = Range(buffer') \cup Range(batch')
      BY <1>1, <3>1, DetachBatch
    <3> QED
      BY <2>1, <3>2, <3>3 DEF OneFate
  <2>3. CASE ~(moreBatches /\ buffer # <<>>)
    BY <1>6, <1>7, <2>1, <2>3 DEF writeEventsOk, endPass
  <2> QED
    BY <2>2, <2>3
<1>8. CASE writeEventsFailed
  BY <1>6, <1>8 DEF writeEventsFailed, endPass
<1>9. CASE tick \/ tickOpened
  BY <1>2, <1>4, <1>9 DEF tick, tickOpened, wireVars, fateVars
<1>10. ASSUME NEW n, drainPass(n), UNCHANGED fateVars
       PROVE  OneFate'
  BY <1>2, <1>4, <1>10 DEF drainPass, wireVars, fateVars
<1>11. CASE joinTwice \/ stopOpened \/ stopDrained
  BY <1>2, <1>10, <1>11 DEF joinTwice, stopOpened, stopDrained, wireVars, fateVars
<1>12. CASE withDeadline
  BY <1>2, <1>12 DEF withDeadline
<1>13. ASSUME UNCHANGED queueVars
       PROVE  OneFate'
  BY <1>2, <1>13 DEF queueVars
<1>14. CASE \/ refuseEvent \/ countTokenUse \/ beginRead \/ writeStat \/ writeTokenUsage
            \/ tracked \/ startOpened \/ tickReopened \/ runSweep \/ storeClosed
            \/ start \/ tickFlushed \/ tickStatted \/ tickTokensDone \/ heal \/ UNCHANGED vars
  BY <1>13, <1>14 DEF refuseEvent, countTokenUse, beginRead, writeStat, writeTokenUsage,
     tracked, startOpened, tickReopened, runSweep, storeClosed, start, tickFlushed,
     tickStatted, tickTokensDone, heal, vars
<1>15. CASE closeHttp \/ stop \/ joinStart \/ joinOnce \/ stopStatted \/ stopTokensDone
  BY <1>13, <1>15 DEF closeHttp, stop, joinStart, joinOnce, stopStatted, stopTokensDone
<1> QED
  BY <1>5, <1>7, <1>8, <1>9, <1>11, <1>12, <1>14, <1>15
     DEF Next, Requests, Answers, Steps, Shutdown

\* Every sign-in has one fate: it is in memory once, stored, or given up, and
\* no interleaving of overflows, batches and passes stores one it gave up or
\* writes one twice (the splice in flushEvents() before the first await).
THEOREM OneFateEach == Spec => []OneFate
<1>1. IInv /\ IInv' /\ OneFate /\ [Next]_vars => OneFate'
  BY FateStep
<1> QED
  BY <1>1, InitFates, Invariance, PTL DEF Spec

-----------------------------------------------------------------------------
(***************************************************************************)
(* What a mark does to the faults, and to the count the unhealthy window   *)
(* opened at: a window that is open keeps it.                              *)
(***************************************************************************)
BaseKept(h, k, u) ==
  /\ k.base \in {h.base, u}
  /\ h.window /\ k.window => k.base = h.base

LEMMA UnavailableMoves ==
  ASSUME NEW h \in Healths, NEW u \in Nat
  PROVE  markUnavailable(h, u).faults = h.faults /\ BaseKept(h, markUnavailable(h, u), u)
BY DEF markUnavailable, beginUnhealthyWindow, Healths, BaseKept

LEMMA WriteFailedMoves ==
  ASSUME NEW h \in Healths, NEW c \in Channels, NEW u \in Nat
  PROVE  /\ markWriteFailed(h, c, u).faults = h.faults \cup {c}
         /\ markWriteFailed(h, c, u).window
         /\ BaseKept(h, markWriteFailed(h, c, u), u)
BY DEF markWriteFailed, beginUnhealthyWindow, Healths, BaseKept

LEMMA SettleMoves ==
  ASSUME NEW h \in Healths, NEW r \in SUBSET Channels, NEW u \in Nat
  PROVE  settleFaults(h, r).faults = r /\ BaseKept(h, settleFaults(h, r), u)
<1>1. CASE r = {}
  BY <1>1 DEF settleFaults, markAvailable, Healths, BaseKept
<1>2. CASE r # {}
  BY <1>2 DEF settleFaults, Healths, BaseKept
<1> QED
  BY <1>1, <1>2

LEMMA WriteOkMoves ==
  ASSUME NEW h \in Healths, NEW c \in Channels, NEW u \in Nat
  PROVE  markWriteOk(h, c).faults = h.faults \ {c} /\ BaseKept(h, markWriteOk(h, c), u)
<1>1. h.faults \ {c} \in SUBSET Channels
  BY DEF Healths
<1> QED
  BY <1>1, SettleMoves DEF markWriteOk

LEMMA ReadOkMoves ==
  ASSUME NEW h \in Healths, NEW u \in Nat
  PROVE  markReadOk(h).faults = h.faults /\ BaseKept(h, markReadOk(h), u)
BY DEF markReadOk, markAvailable, Healths, BaseKept

LEMMA OpenMoves ==
  ASSUME NEW h \in Healths, unconfirmed \in Nat, NEW k \in tryOpen(h)
  PROVE  k.faults \in {h.faults, h.faults \ vouchedFor} /\ BaseKept(h, k, unconfirmed)
<1>1. CASE k = markUnavailable(h, unconfirmed)
  BY <1>1, UnavailableMoves
<1>2. CASE k = markProbeOk(h)
  <2>1. PICK g : g = [h EXCEPT !.reachable = TRUE]
    OBVIOUS
  <2>2. /\ g \in Healths /\ g.base = h.base /\ g.window = h.window
        /\ h.faults \ vouchedFor \in SUBSET Channels
    BY <2>1 DEF Healths
  <2>3. k = settleFaults(g, h.faults \ vouchedFor)
    BY <1>2, <2>1 DEF markProbeOk
  <2>4. k.faults = h.faults \ vouchedFor /\ BaseKept(g, k, unconfirmed)
    BY <2>2, <2>3, SettleMoves
  <2> QED
    BY <2>2, <2>4 DEF BaseKept
<1> QED
  BY <1>1, <1>2 DEF tryOpen

\* Every step of the service, as one of these marks and no other.
LEMMA HealthMoves ==
  ASSUME IInv, [Next]_vars
  PROVE  /\ BaseKept(health, health', unconfirmed)
         /\ \A c \in health.faults \ health'.faults :
              OwnWrite(c) \/ writeEventsOk \/ (c # "stats" /\ probeWritable /\ ProbeAnswered)
<1>1. /\ health \in Healths /\ unconfirmed \in Nat
      /\ {"events", "stats", "tokens"} \subseteq Channels
  BY DEF IInv, TypeOK, Channels
<1> DEFINE Lifted == \A c \in health.faults \ health'.faults :
              OwnWrite(c) \/ writeEventsOk \/ (c # "stats" /\ probeWritable /\ ProbeAnswered)
<1>2. ASSUME health' = health \/ health' = [health EXCEPT !.available = FALSE]
      PROVE  BaseKept(health, health', unconfirmed) /\ Lifted
  BY <1>1, <1>2 DEF BaseKept, Healths
<1>3. ASSUME health.faults \subseteq health'.faults PROVE Lifted
  BY <1>3
<1>4. ASSUME health' \in tryOpen(health), ProbeAnswered
      PROVE  BaseKept(health, health', unconfirmed) /\ Lifted
  <2>1. health'.faults \in {health.faults, health.faults \ vouchedFor}
    BY <1>1, <1>4, OpenMoves
  <2>2. BaseKept(health, health', unconfirmed)
    BY <1>1, <1>4, OpenMoves
  <2>3. ASSUME NEW c \in health.faults \ health'.faults PROVE c # "stats" /\ probeWritable
    BY <2>1, <2>3 DEF vouchedFor
  <2> QED
    BY <1>4, <2>2, <2>3
<1> SUFFICES BaseKept(health, health', unconfirmed) /\ Lifted
  OBVIOUS
<1>5. CASE writeEventsOk
  <2>1. health' = markWriteOk(health, "events")
    BY <1>5 DEF writeEventsOk
  <2> QED
    BY <1>1, <1>5, <2>1, WriteOkMoves
<1>6. CASE writeEventsFailed
  <2>1. health' = markWriteFailed(health, "events", unconfirmed)
    BY <1>6 DEF writeEventsFailed, healthAfterDrop
  <2>2. health.faults \subseteq health'.faults /\ BaseKept(health, health', unconfirmed)
    BY <1>1, <2>1, WriteFailedMoves
  <2> QED
    BY <1>3, <2>2
<1>7. CASE writeStat
  <2>1. PICK failed \in BOOLEAN :
          LET any == statting.failed \/ failed
              h   == IF failed THEN markWriteFailed(health, "stats", unconfirmed) ELSE health
          IN  /\ statting' = [left |-> statting.left - 1, failed |-> any]
              /\ health' = IF statting.left = 1 /\ ~any THEN markWriteOk(h, "stats") ELSE h
    BY <1>7 DEF writeStat
  <2>2. CASE failed
    <3>1. health' = markWriteFailed(health, "stats", unconfirmed)
      BY <2>1, <2>2
    <3>2. health.faults \subseteq health'.faults /\ BaseKept(health, health', unconfirmed)
      BY <1>1, <3>1, WriteFailedMoves
    <3> QED
      BY <1>3, <3>2
  <2>3. CASE ~failed /\ health' = health
    BY <1>2, <2>3
  <2>4. CASE ~failed /\ health' # health
    <3>1. /\ health' = markWriteOk(health, "stats") /\ statting.left = 1
          /\ ~statting'.failed
      BY <2>1, <2>4
    <3>2. health'.faults = health.faults \ {"stats"} /\ BaseKept(health, health', unconfirmed)
      BY <1>1, <3>1, WriteOkMoves
    <3>3. OwnWrite("stats")
      BY <3>1 DEF OwnWrite
    <3> QED
      BY <3>2, <3>3
  <2> QED
    BY <2>2, <2>3, <2>4
<1>8. CASE writeTokenUsage
  <2>1. CASE health' = markWriteOk(health, "tokens")
    <3>1. health'.faults = health.faults \ {"tokens"} /\ BaseKept(health, health', unconfirmed)
      BY <1>1, <2>1, WriteOkMoves
    <3>2. OwnWrite("tokens")
      BY <1>8 DEF OwnWrite, writeTokenUsage
    <3> QED
      BY <3>1, <3>2
  <2>2. CASE health' = markWriteFailed(health, "tokens", unconfirmed)
    <3>1. health.faults \subseteq health'.faults /\ BaseKept(health, health', unconfirmed)
      BY <1>1, <2>2, WriteFailedMoves
    <3> QED
      BY <1>3, <3>1
  <2> QED
    BY <1>8, <2>1, <2>2 DEF writeTokenUsage
<1>9. CASE tracked \/ runSweep
  <2>1. CASE health' = markReadOk(health)
    BY <1>1, <2>1, ReadOkMoves
  <2>2. CASE health' = markUnavailable(health, unconfirmed)
    BY <1>1, <2>2, UnavailableMoves
  <2> QED
    BY <1>2, <1>9, <2>1, <2>2 DEF tracked, runSweep
<1>10. CASE startOpened \/ tickOpened \/ tickReopened \/ stopOpened
  <2>1. health' \in tryOpen(health)
    BY <1>10 DEF startOpened, tickOpened, tickReopened, stopOpened
  <2>2. ProbeAnswered
    BY <1>10 DEF startOpened, tickOpened, tickReopened, stopOpened, drainPass, sweepOrEnd, ProbeAnswered
  <2> QED
    BY <1>4, <2>1, <2>2
<1>11. CASE storeClosed \/ withDeadline
  BY <1>2, <1>11 DEF storeClosed, withDeadline
<1>12. CASE Requests \/ Steps
  BY <1>2, <1>12 DEF Requests, Steps, recordEvent, refuseEvent, countTokenUse, beginRead,
     start, tick, tickFlushed, tickStatted, tickTokensDone
<1>13. CASE \/ closeHttp \/ stop \/ joinStart \/ joinOnce \/ joinTwice \/ stopDrained
            \/ stopStatted \/ stopTokensDone \/ heal \/ UNCHANGED vars
  BY <1>2, <1>13 DEF closeHttp, stop, joinStart, joinOnce, joinTwice, stopDrained, stopStatted,
     stopTokensDone, heal, vars
<1> QED
  BY <1>5, <1>6, <1>7, <1>8, <1>9, <1>10, <1>11, <1>12, <1>13 DEF Next, Answers, Shutdown

\* A fault of a channel is lifted by a write of that channel, or by a probe that
\* ran its writer's statement: a read lifts none, a channel never another's.
THEOREM FaultsLiftedByEvidence == Spec => FaultLiftedByEvidence
<1>1. ASSUME IInv, OneFate, [Next]_vars
      PROVE  [\A c \in health.faults \ health'.faults :
                OwnWrite(c) \/ (c # "stats" /\ probeWritable /\ ProbeAnswered)]_vars
  <2> SUFFICES ASSUME NEW c \in health.faults \ health'.faults, writeEventsOk, ~OwnWrite(c)
               PROVE  FALSE
    BY <1>1, HealthMoves
  <2>1. /\ health' = markWriteOk(health, "events") /\ flushing > 0
        /\ stored' = stored \cup Range(batch)
    BY DEF writeEventsOk
  <2>2. health \in Healths /\ "events" \in Channels /\ unconfirmed \in Nat
    BY <1>1 DEF IInv, TypeOK, Channels
  <2>3. c = "events"
    BY <2>1, <2>2, WriteOkMoves
  <2>4. /\ batch \in Seq(Nat) /\ batch # <<>> /\ Range(batch) \cap stored = {}
    BY <1>1, <2>1 DEF OneFate, IInv, TypeOK
  <2>5. batch[1] \in Range(batch)
    <3>1. 1 \in 1..Len(batch)
      BY <2>4
    <3> QED
      BY <2>4, <3>1, RangeMember
  <2>6. stored' # stored
    BY <2>1, <2>4, <2>5
  <2> QED
    BY <2>1, <2>3, <2>6 DEF OwnWrite
<1> QED
  BY <1>1, OneFateEach, Invariance, PTL DEF Spec, FaultLiftedByEvidence

\* The window opened at a count that was true then.
WindowCounted == health.base <= unconfirmed

\* The count of losses never goes back, and no window opens ahead of it.
LEMMA WindowStep ==
  ASSUME IInv, WindowCounted, [Next]_vars
  PROVE  WindowCounted' /\ unconfirmed' >= unconfirmed
<1>1. /\ unconfirmed \in Nat /\ health.base \in Nat /\ health'.base \in {health.base, unconfirmed}
      /\ Len(buffer) \in Nat /\ Len(batch) \in Nat
  BY HealthMoves DEF IInv, TypeOK, Healths, BaseKept
<1>2. \/ UNCHANGED unconfirmed
      \/ \E n \in {1, Len(batch)} : unconfirmed' = unconfirmed + n
      \/ unconfirmed' = unconfirmed + Len(buffer) + Len(batch)
  BY DEF Next, Requests, Answers, Steps, Shutdown, recordEvent, refuseEvent, countTokenUse,
     beginRead, writeEventsOk, writeEventsFailed, writeStat, writeTokenUsage, tracked, startOpened,
     tickOpened, tickReopened, runSweep, stopOpened, storeClosed, start, tick, tickFlushed,
     tickStatted, tickTokensDone, closeHttp, stop, joinStart, joinOnce, joinTwice, stopDrained,
     stopStatted, stopTokensDone, withDeadline, heal, queueVars, fateVars, vars
<1>3. unconfirmed' \in Nat /\ unconfirmed' >= unconfirmed
  BY <1>1, <1>2
<1>4. health'.base <= unconfirmed'
  BY <1>1, <1>3 DEF WindowCounted
<1> QED
  BY <1>3, <1>4 DEF WindowCounted

\* Rows leave the wire for the losses in one step only.
LEMMA OnlyFailureDropsBatch ==
  ASSUME IInv, OneFate, [Next]_vars, NEW e \in dropped', e \in Range(batch)
  PROVE  writeEventsFailed
<1>1. e \notin dropped /\ e \notin Range(buffer)
  BY DEF OneFate
<1>2. CASE recordEvent
  <2>1. full => buffer[1] \in Range(buffer)
    BY PushedFates
  <2>2. dropped' = IF full THEN dropped \cup {buffer[1]} ELSE dropped
    BY <1>2 DEF recordEvent
  <2> QED
    BY <1>1, <2>1, <2>2
<1>3. dropped' # dropped
  BY <1>1
<1>4. CASE Next /\ ~recordEvent /\ ~writeEventsFailed
  <2>1. dropped' = dropped
    BY <1>4 DEF Next, Requests, Answers, Steps, Shutdown, refuseEvent, countTokenUse, beginRead,
       writeEventsOk, writeStat, writeTokenUsage, tracked, startOpened, tickOpened, tickReopened,
       runSweep, stopOpened, storeClosed, start, tick, tickFlushed, tickStatted, tickTokensDone,
       closeHttp, stop, joinStart, joinOnce, joinTwice, stopDrained, stopStatted, stopTokensDone,
       withDeadline, heal, queueVars, fateVars
  <2> QED
    BY <1>3, <2>1
<1> QED
  BY <1>2, <1>3, <1>4 DEF vars, queueVars

\* The rows of a failed batch are inside the window its failure opened or found
\* open: the recovery line, which subtracts the count the window opened at,
\* reports every one of them (markWriteFailed() before the drop is counted).
THEOREM EveryDropIsReported == Spec => DropsAreReported
<1>1. Init => WindowCounted
  BY DEF Init, WindowCounted
<1>2. IInv /\ WindowCounted /\ [Next]_vars => WindowCounted'
  BY WindowStep
<1>3. ASSUME IInv, OneFate, WindowCounted, [Next]_vars
      PROVE  [/\ (\E e \in dropped' : e \in Range(batch)) =>
                   unconfirmed' - health'.base >= Len(batch) /\ health'.window
              /\ health.window /\ health'.window => health'.base = health.base]_vars
  <2>1. health.window /\ health'.window => health'.base = health.base
    BY <1>3, HealthMoves DEF BaseKept
  <2>2. ASSUME NEW e \in dropped', e \in Range(batch)
        PROVE  unconfirmed' - health'.base >= Len(batch) /\ health'.window
    <3>1. writeEventsFailed
      BY <1>3, <2>2, OnlyFailureDropsBatch
    <3>2. /\ health' = markWriteFailed(health, "events", unconfirmed)
          /\ unconfirmed' = unconfirmed + Len(batch)
      BY <3>1 DEF writeEventsFailed, healthAfterDrop
    <3>3. /\ health \in Healths /\ health.base \in Nat /\ unconfirmed \in Nat /\ "events" \in Channels
          /\ Len(batch) \in Nat
      BY <1>3 DEF IInv, TypeOK, Healths, Channels
    <3>4. health'.window /\ health'.base \in {health.base, unconfirmed}
      BY <3>2, <3>3, WriteFailedMoves DEF BaseKept
    <3>5. health'.base <= unconfirmed /\ health'.base \in Nat
      BY <1>3, <3>3, <3>4 DEF WindowCounted
    <3>6. unconfirmed' - health'.base >= Len(batch)
      BY <3>2, <3>3, <3>5
    <3> QED
      BY <3>4, <3>6
  <2> QED
    BY <2>1, <2>2
<1> QED
  BY <1>1, <1>2, <1>3, OneFateEach, Invariance, PTL DEF Spec, DropsAreReported
=============================================================================
