------------------------------- MODULE MC_Encola -------------------------------
EXTENDS Encola

CONSTANTS b1

(* A BENCHMARK list that names one benchmark twice.                         *)
MCBenchs == <<b1, b1>>

MCVars == <<8>>

(* Seeds 0..1, and 1..0 (an empty range). *)
MCSeedRanges == {<<0, 1>>, <<1, 0>>}
==============================================================================
