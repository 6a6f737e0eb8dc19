----------------------------- MODULE MCPlanCycle -----------------------------
(* Small inputs for PlanCycle: every value a planner looks at may be unknown. *)
EXTENDS PlanCycle

MCSnapshots ==
  [node : {"n1"}, cpufreq_available : {TRUE}, available_governors : {{"performance", "powersave"}},
   governor : {"performance", "powersave", None},
   hardware_min_khz : {2, 7}, hardware_max_khz : {10, 20},
   scaling_min_khz : {2, 5, None}, scaling_max_khz : {3, 6, 10, None}]
  \cup
  [node : {"n1", "n2"}, cpufreq_available : BOOLEAN,
   available_governors : {{"performance", "powersave"}, {"performance"}},
   governor : {"performance"},
   hardware_min_khz : {2, None}, hardware_max_khz : {10, None},
   scaling_min_khz : {2}, scaling_max_khz : {10}]

MCActivities == [ssh_sessions : {0, 1, None}, protected_running : {{}, {"db"}, None}]

MCAges == {-6, -5, 60, 61}
===============================================================================
