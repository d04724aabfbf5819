------------------------------ MODULE RunLedger ------------------------------
(***************************************************************************)
(* What the outbox of one Agent Run promises to the rest of the program,   *)
(* without queue, actor, batches or transactions.                          *)
(*                                                                         *)
(* Events are accepted in an order; they become durable in that order; an  *)
(* accepted event can be lost only together with everything accepted after *)
(* it, and a loss closes the outbox.  A durable terminal closes the run    *)
(* for good.                                                               *)
(***************************************************************************)
EXTENDS Naturals, Sequences

CONSTANTS Events, Terminals

VARIABLES
    committed,   \* the durable history
    inflight,    \* accepted, not yet durable
    closed       \* no further event is accepted

ledgerVars == <<committed, inflight, closed>>

Ended == \E i \in 1..Len(committed) : committed[i] \in Terminals

Init == committed = <<>> /\ inflight = <<>> /\ closed = FALSE

(* A terminal is the last event the outbox accepts.                        *)
Accept(e) ==
    /\ ~closed
    /\ inflight' = Append(inflight, e)
    /\ closed' = (e \in Terminals)
    /\ UNCHANGED committed

Commit ==
    /\ ~Ended
    /\ \E n \in 1..Len(inflight) :
          /\ committed' = committed \o SubSeq(inflight, 1, n)
          /\ inflight' = SubSeq(inflight, n + 1, Len(inflight))
    /\ UNCHANGED closed

(* Saturation closes the outbox and loses nothing yet; a failure closes it *)
(* and loses a suffix.                                                     *)
Close ==
    /\ closed' = TRUE
    /\ \E n \in 0..Len(inflight) : inflight' = SubSeq(inflight, 1, n)
    /\ UNCHANGED committed

(* A failed outbox may be reopened on a run that has not ended.            *)
Reopen ==
    /\ closed /\ ~Ended
    /\ inflight = <<>>
    /\ closed' = FALSE
    /\ UNCHANGED <<committed, inflight>>

Next == (\E e \in Events : Accept(e)) \/ Commit \/ Close \/ Reopen

Spec == Init /\ [][Next]_ledgerVars

(* What was accepted does not stay in flight for ever.                     *)
FairSpec == Spec /\ WF_ledgerVars(Commit \/ (inflight # <<>> /\ Close))
=============================================================================
