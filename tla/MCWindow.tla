------------------------------ MODULE MCWindow ------------------------------
(***************************************************************************)
(* Values for TLC: a group at three requests per second, one in the peak   *)
(* that begins with the second tick of the day; a window around the start  *)
(* of the peak and one inside it; and a window nothing ever reaches, for   *)
(* runs that ask about something else.                                     *)
(***************************************************************************)
EXTENDS LimiterWindow, TLC

MCBase      == [g \in Group |-> 3]
MCOne       == [g \in Group |-> 1]
MCPeak      == [g \in Group |-> 1]
MCPeakStart == [g \in Group |-> 2]
MCPeakEnd   == [g \in Group |-> 4]
MCZero      == [g \in Group |-> 0]
MCWindows   == {<<1, 2>>, <<2, 3>>}
MCLater     == {<<9, 9>>}

Symmetric == Permutations(Caller) \union Permutations(Client)

=============================================================================
