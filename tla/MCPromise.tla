----------------------------- MODULE MCPromise ------------------------------
(***************************************************************************)
(* Values for TLC: one group at one request per second and no peak; a      *)
(* window over the whole run, or one nothing ever reaches.                 *)
(***************************************************************************)
EXTENDS LimiterPromise, TLC

MCBase    == [g \in Group |-> 1]
MCZero    == [g \in Group |-> 0]
MCWindows == {<<1, 4>>}
MCLater   == {<<9, 9>>}

Symmetric == Permutations(Caller) \union Permutations(Client)

=============================================================================
