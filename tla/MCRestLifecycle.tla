---------------------------- MODULE MCRestLifecycle ---------------------------
EXTENDS RestLifecycleInvariant, TLC

\* The two governors of the kernel's cpufreq.
CONSTANTS performance, powersave

\* Every snapshot of every host that the kernel accepts, and what is left of each when its
\* end is missing.
MCSnapshots == [at : Clock, host : Hosts]
MCCuts == [s \in MCSnapshots |-> {cut \in MCSnapshots : DecodesCut(s, cut)}]

\* A wide range, whose ceiling still decodes when it is cut, and one whose ceiling counts
\* as that of REST.
MCBoots == {[governor |-> performance, min |-> 8, max |-> 82],
            [governor |-> powersave, min |-> 8, max |-> 33]}

\* Another tool lowers the ceiling below what a snapshot may record of the floor.
MCOthers == {[governor |-> performance, min |-> 4, max |-> 4]}

\* Which command is which does not matter.
Interchangeable == Permutations(Commands)
===============================================================================
