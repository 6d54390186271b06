---------------------------- MODULE AuditLedger ----------------------------
(***************************************************************************)
(* What the audit service promises about sign-ins, whatever batches, joins *)
(* and passes it uses to keep the promise (the contract of apps/bff/src/   *)
(* store/audit/service.ts, "Losing rows is reported, never hidden").       *)
(*                                                                         *)
(* Sign-ins are held oldest first, never more than Ceiling of them.  They  *)
(* leave from the old end, by being stored or by being given up and        *)
(* counted; a full ledger admits a new one by giving up one it holds.  An  *)
(* orderly close finds the ledger empty; a close that ran out of time      *)
(* counts whatever was held.                                               *)
(***************************************************************************)
EXTENDS Naturals, Sequences, Functions

CONSTANT Ceiling

VARIABLES
  admitted,  \* number of sign-ins so far: they are named 1, 2, ...
  held,      \* those in memory, oldest first
  stored,    \* those the store acknowledged
  lost,      \* those given up
  counted,   \* the losses the operator is told of
  closed     \* "no", "orderly" or "timedOut"

vars == <<admitted, held, stored, lost, counted, closed>>

Init ==
  /\ admitted = 0 /\ held = <<>> /\ stored = {} /\ lost = {}
  /\ counted = 0 /\ closed = "no"

\* held, without its k-th element
Without(k) == SubSeq(held, 1, k - 1) \o SubSeq(held, k + 1, Len(held))

Admit ==
  /\ closed = "no" /\ Len(held) < Ceiling
  /\ admitted' = admitted + 1
  /\ held' = Append(held, admitted + 1)
  /\ UNCHANGED <<stored, lost, counted, closed>>

Displace ==
  /\ closed = "no" /\ Len(held) = Ceiling
  /\ admitted' = admitted + 1
  /\ \E k \in 1..Len(held) :
       /\ held' = Append(Without(k), admitted + 1)
       /\ lost' = lost \cup {held[k]}
  /\ counted' = counted + 1
  /\ UNCHANGED <<stored, closed>>

Store ==
  /\ \E n \in 1..Len(held) :
       /\ stored' = stored \cup Range(SubSeq(held, 1, n))
       /\ held' = SubSeq(held, n + 1, Len(held))
  /\ UNCHANGED <<admitted, lost, counted, closed>>

GiveUp ==
  /\ \E n \in 1..Len(held) :
       /\ lost' = lost \cup Range(SubSeq(held, 1, n))
       /\ counted' = counted + n
       /\ held' = SubSeq(held, n + 1, Len(held))
  /\ UNCHANGED <<admitted, stored, closed>>

Close ==
  /\ closed = "no" /\ held = <<>>
  /\ closed' = "orderly"
  /\ UNCHANGED <<admitted, held, stored, lost, counted>>

Abandon ==
  /\ closed = "no"
  /\ closed' = "timedOut" /\ counted' = counted + Len(held)
  /\ UNCHANGED <<admitted, held, stored, lost>>

Next == Admit \/ Displace \/ Store \/ GiveUp \/ Close \/ Abandon

Spec == Init /\ [][Next]_vars

=============================================================================
