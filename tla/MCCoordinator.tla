--------------------------- MODULE MCCoordinator ---------------------------
(***************************************************************************)
(* Instances of Coordinator for TLC.                                       *)
(***************************************************************************)
EXTENDS Coordinator, TLC

CONSTANTS w1, w2, s1, s2, a1, q1, q2, t1, t2, v1

MCNoOne == {}
MCLedger == [w \in Wallets |-> 4]
MCEmptyLedger == [w \in Wallets |-> IF w = w1 THEN 1 ELSE 0]
MCPools == [s \in Sites |-> 3]

Receipt(id, node, type) ==
  [id |-> id, node |-> node, type |-> type, sigOk |-> TRUE, auth |-> "none",
   audit |-> a1, hashOk |-> TRUE]

\* w1 serves and answers audits.
MCEnvelopes ==
  {[Receipt("serve", w1, "SERVE") EXCEPT !.auth = "good"],
   Receipt("verify", w1, "VERIFY"),
   [Receipt("forged", w1, "SERVE") EXCEPT !.auth = "bad"]}

ReqSymmetry == Permutations(Reqs)
TicketSymmetry == Permutations(Tickets)
=============================================================================
