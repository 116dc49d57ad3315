----------------------------- MODULE MCRequests -----------------------------
(* Requests for TLC: the requests are interchangeable.                      *)
EXTENDS Requests, TLC

Symmetry == Permutations(Reqs)

=============================================================================
