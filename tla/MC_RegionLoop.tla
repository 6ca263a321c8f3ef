--------------------------- MODULE MC_RegionLoop ---------------------------
(* Instantiates RegionLoop for TLC: three whole-program pinballs given as *)
(* model values, and the environments each .cfg lets a run meet.          *)
EXTENDS RegionLoop, TLC

CONSTANTS s1, s2, s3

MCStreams == {s1, s2, s3}

(* Jobs always exit 0 and the tool always shrinks, on one core (the       *)
(* foreground path of RunCmd) or on two (the pool saturates); or jobs may *)
(* fail and the tool may keep skipping every cluster, on three cores (the *)
(* pool never saturates, so every child is reaped by WaitJobs).           *)
MCEnvironments ==
  {[cores |-> 1, canFail |-> FALSE, toolShrinks |-> TRUE],
   [cores |-> 2, canFail |-> FALSE, toolShrinks |-> TRUE],
   [cores |-> 3, canFail |-> TRUE,  toolShrinks |-> FALSE]}

(* Two cores and jobs that may fail: RunCmd reaps a failing child to free *)
(* a core.                                                                *)
MCEnvironmentsLost ==
  {[cores |-> 2, canFail |-> TRUE, toolShrinks |-> TRUE]}

StreamSymmetry == Permutations(MCStreams)
=============================================================================
