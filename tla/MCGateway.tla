----------------------------- MODULE MCGateway ------------------------------
(***************************************************************************)
(* Values for TLC: the token endpoint and one that needs an account.       *)
(***************************************************************************)
EXTENDS Gateway, TLC

MCBase      == [g \in Group |-> 2]
MCOne       == [g \in Group |-> 1]
MCPeak      == [g \in Group |-> IF g = "ORDER" THEN 1 ELSE 0]
MCPeakStart == [g \in Group |-> 2]
MCPeakEnd   == [g \in Group |-> 3]

Symmetric == Permutations(Caller) \union Permutations(Client)

=============================================================================
