---------------------------- MODULE MCMacroTable ----------------------------
(* MacroTable for TLC: a command, and the two commands of an environment.  *)
EXTENDS MacroTable

CONSTANTS m, endfoo, foo

MCGroupKinds == {"brace"}
MCVals == 1..MaxMacros \cup {Relax}
MCEndCommand == [s \in Envs |-> endfoo]
=============================================================================
