---------------------------- MODULE MCLifecycle -----------------------------
(***************************************************************************)
(* Values for TLC: timeouts that meet the condition of DrainLosesNothing,  *)
(* the defaults scaled down (15, 30, 10 and 10 seconds), a gateway without *)
(* the upstream timeout, and one that writes too briefly and never drains. *)
(***************************************************************************)
EXTENDS Lifecycle, TLC

Generous == [read |-> 1, write |-> 3, upstream |-> 1, shutdown |-> 5]
Default  == [read |-> 2, write |-> 4, upstream |-> 1, shutdown |-> 1]
Unbound  == [read |-> 1, write |-> 0, upstream |-> -2, shutdown |-> 2]
Tight    == [read |-> 1, write |-> 1, upstream |-> 1, shutdown |-> 0]

MCConfigs == {Generous, Default, Unbound, Tight}
MCDefault == {Default}

=============================================================================
