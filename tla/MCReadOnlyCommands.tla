--------------------------- MODULE MCReadOnlyCommands -------------------------
EXTENDS ReadOnlyCommands

\* A snapshot of each of two moments, of which nothing that decodes is left when it is cut.
MCSnapshots == [at : {0, 1}, host : {"original"}]
MCCuts == [s \in MCSnapshots |-> {}]

MCLimits == {None, 1, 3}

\* Counters that advance, stand still or go backwards.
MCCounters == [total : {0, 2, 3}, idle : {0, 2, 3}]

MCMemories == {[total |-> None, available |-> 1], [total |-> 0, available |-> 0],
               [total |-> 3, available |-> 1], [total |-> 3, available |-> 4]}

MCPowerModel == [baseline |-> 35, cpu |-> 65, memory |-> 12]

MCPolicies ==
  {optimization_only,
   Policy({"Observe", "OptimizePower", "ShutdownNode"}, {}),
   Policy({"Observe", "OptimizePower", "ShutdownNode"}, {"ShutdownNode"})}

\* What the kernel may show, in quarters of a megahertz, and files that cannot be read.
MCProbes ==
  {p \in [cpufreq : {TRUE}, writable : BOOLEAN,
          governors : {{}, {"performance"}, {"performance", "powersave"}},
          governor : {None, "performance", "powersave"},
          hwMin : {None, 5, 8}, hwMax : {None, 9, 17, 42},
          min : {None, 5, 8, 12}, max : {None, 8, 9, 16, 17, 42}] :
     /\ p.governor # None /\ p.governors # {} => p.governor \in p.governors
     /\ None \notin {p.min, p.max} => p.min <= p.max
     /\ None \notin {p.hwMin, p.min} => p.hwMin <= p.min
     /\ None \notin {p.hwMax, p.max} => p.max <= p.hwMax}
  \union {[cpufreq |-> FALSE, writable |-> FALSE, governors |-> {}, governor |-> None,
           hwMin |-> None, hwMax |-> None, min |-> None, max |-> None]}
===============================================================================
