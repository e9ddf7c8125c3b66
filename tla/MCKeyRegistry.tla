---------------------------- MODULE MCKeyRegistry ----------------------------
(* A small instance of KeyRegistry for TLC: one user with three key pairs  *)
(* and two tabs.  Users share nothing in the registry; what interleaves is *)
(* the sessions of one user.                                               *)
EXTENDS KeyRegistry, TLC

CONSTANTS u1, k1, k2, k3, s1, s2

MCUser == {u1}
MCKeyId == {k1, k2, k3}
MCSession == {s1, s2}
MCKeyOwner == [k \in MCKeyId |-> u1]
MCSessionUser == [s \in MCSession |-> u1]

MCSymmetry == Permutations(MCKeyId) \cup Permutations(MCSession)
=============================================================================
