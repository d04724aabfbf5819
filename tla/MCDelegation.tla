---------------------------- MODULE MCDelegation ----------------------------
(* Small turns of Delegation, one setup each: a batch of two explorers that  *)
(* waits for both, in lanes of their own, with two faults; a verifier's      *)
(* batch with a deadline next to a judge; two explorers in one shared lane   *)
(* with a quorum of one, deadlines and a token limit that one of them uses   *)
(* up; one call credit and one lane for a batch of one and a single worker.  *)
EXTENDS Delegation

CONSTANTS e1, e2, v1, j1

Limit(lanes, n, t, deadlines) ==
    [parallel |-> lanes, calls |-> n, tokens |-> t, reserve |-> TRUE,
     queueDeadline |-> deadlines, runDeadline |-> deadlines]
Ask(workers, policy, lanes, rest) ==
    [workers |-> workers, parallel |-> lanes, cancelRemaining |-> rest, quorum |-> 1,
     policy |-> policy]

SmallSetups ==
    {[limits |-> Limit(3, 3, 9, FALSE), request |-> Ask({e1, e2}, "all", 1, FALSE),
      calls |-> {e1, e2}, faults |-> 2],
     [limits |-> Limit(3, 3, 9, FALSE), request |-> Ask({v1}, "deadline", 1, FALSE),
      calls |-> {v1, j1}, faults |-> 1],
     [limits |-> Limit(2, 2, 1, TRUE), request |-> Ask({e1, e2}, "quorum", 1, TRUE),
      calls |-> {e1, e2}, faults |-> 0],
     [limits |-> Limit(1, 1, 9, FALSE), request |-> Ask({e1}, "deadline", 1, TRUE),
      calls |-> {e1, e2}, faults |-> 1]}
OneEach == [c \in Calls |-> 1]
=============================================================================
