----------------------------- MODULE RestCommands -----------------------------
(***************************************************************************)
(* What the modules of the Rust engine share.                              *)
(***************************************************************************)
CONSTANTS
  Commands,    \* the nordfir processes
  None         \* an Option that holds nothing, a file that is not there
===============================================================================
