---------------------------- MODULE MCPowerControl ----------------------------
(* Small instances of PowerControl.                                          *)
EXTENDS PowerControlInvariant, TLC

MCHardware ==
  [node |-> "n1", available_governors |-> {"performance", "powersave"},
   hardware_min_khz |-> 1, hardware_max_khz |-> 10, scaling_min_khz |-> 1]

OnePolicy == <<"p0", "p0">>
TwoPolicies == <<"p0", "p1">>

Busy == [ssh_sessions |-> 1, protected_running |-> {}]
Quiet == [ssh_sessions |-> 0, protected_running |-> {}]
MCActivities == {Quiet, Busy}

Symmetry == Permutations(Commands)
===============================================================================
