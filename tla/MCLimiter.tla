----------------------------- MODULE MCLimiter ------------------------------
(***************************************************************************)
(* Values for TLC: one group at one request per second and no peak.        *)
(***************************************************************************)
EXTENDS Limiter, TLC

MCBase == [g \in Group |-> 1]
MCZero == [g \in Group |-> 0]

Symmetric == Permutations(Caller) \union Permutations(Client)

=============================================================================
