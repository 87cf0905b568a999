---------------------------- MODULE MCTollPlugin ----------------------------
(***************************************************************************)
(* Instances of TollPlugin for TLC.                                        *)
(***************************************************************************)
EXTENDS TollPlugin, TLC

CONSTANTS w1, w2, s1, s2, t1, t2, c1, c2, v1

MCNoOne == {}
MCLedger == [w \in Wallets |-> 4]
MCPools == [s \in Sites |-> 3]

CommentSymmetry == Permutations(Comments)
=============================================================================
