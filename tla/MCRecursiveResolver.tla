------------------------ MODULE MCRecursiveResolver ------------------------
(***************************************************************************)
(* A small instance of RecursiveResolver for TLC: three upstreams of which *)
(* one may lie, addresses and TTLs of a few seconds.                       *)
(***************************************************************************)
EXTENDS RecursiveResolver, TLC

CONSTANTS a1, a2

At(ips) == [status |-> "NOERROR", target |-> "example", ips |-> ips]

MCTargets == {"example"}
MCAddresses == {a1, a2}
MCTtls == {2, 4}

\* A name moves from one address to another; or loses its last record.
MCTruths == {At({a1}), At({a2})}
MCTruthsGone == {At({a1}), At({})}
MCLiars == {3}
MCTruthsOne == {At({a1})}
MCTtlsOne == {2}

Symmetry == Permutations(Requests) \cup Permutations(Addresses)
=============================================================================
