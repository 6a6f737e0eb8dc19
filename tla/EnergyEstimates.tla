---------------------------- MODULE EnergyEstimates ---------------------------
(***************************************************************************)
(* The arithmetic of the Rust engine's collector and energy estimates: how *)
(* busy the CPU was between two readings of the kernel's counters, and     *)
(* what power that stands for.                                             *)
(*                                                                         *)
(* The code computes in f32; here a result is an integer, of percents or   *)
(* of hundredths of a watt.                                                *)
(***************************************************************************)
EXTENDS RestCommands, Integers

saturating_sub(a, b) == IF a > b THEN a - b ELSE 0

\* Mutant: the idle time is taken from the whole as it is.
BusyWrapping(total, idle) == total - idle

Busy(total, idle) == saturating_sub(total, idle)

\* cpu_utilization, in percent: None when the counters did not advance.
cpu_utilization(first, second) ==
  LET total == saturating_sub(second.total, first.total)
      idle  == saturating_sub(second.idle, first.idle)
  IN IF total = 0 THEN None ELSE (Busy(total, idle) * 100) \div total

\* memory_utilization, in percent: None when a field is missing or the total is zero.
memory_utilization(total, available) ==
  IF total = None \/ available = None THEN None
  ELSE IF total = 0 THEN None
  ELSE (saturating_sub(total, available) * 100) \div total

clamp(v, low, high) == IF v < low THEN low ELSE IF v > high THEN high ELSE v

\* LinearPowerModel::estimate_watts, in hundredths of a watt; disk and network stay zero.
estimate_watts(model, cpu, memory) ==
  100 * model.baseline + model.cpu * clamp(cpu, 0, 100) + model.memory * clamp(memory, 0, 100)

\* GenericEstimateProvider::read_power through PowerReader::read_best.
read_best(model, cpu, memory) ==
  IF cpu = None \/ memory = None THEN None ELSE estimate_watts(model, cpu, memory)

===============================================================================
