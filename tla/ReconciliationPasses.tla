------------------------- MODULE ReconciliationPasses -------------------------
(***************************************************************************)
(* What the overlap reconciliation loop promises (spec 4.4 and 4.5), with  *)
(* no jobs, files or scheduler: a cluster bound K is probed from every     *)
(* stream's regions CSV file, the streams that have one are seeded into    *)
(* the active set, and pass after pass some active streams converge and   *)
(* leave it.  The loop ends with success once the active set is empty,    *)
(* with "too many iterations" once the pass counter exceeds K, or is       *)
(* aborted (no clusters at all, or a failed job).                          *)
(***************************************************************************)
EXTENDS Integers, FiniteSets

CONSTANTS Streams, MaxClusters

Missing == -1

VARIABLES
    csv,      \* clusters of each stream's regions CSV file, or Missing
    stage,    \* "probe", "seed", "loop" or "end"
    K,        \* the global cluster-count bound
    active,   \* the streams still to relog
    pass,     \* the pass counter
    outcome   \* "none", "ok", "exhausted" or "aborted"

avars == <<csv, stage, K, active, pass, outcome>>

ClusterCount(n) == IF n = Missing THEN 0 ELSE n

Bound == CHOOSE b \in {ClusterCount(csv[s]) : s \in Streams} :
            \A s \in Streams : ClusterCount(csv[s]) <= b

Init ==
    /\ csv \in [Streams -> {Missing} \cup 0..MaxClusters]
    /\ stage = "probe"
    /\ K = 0
    /\ active = {}
    /\ pass = 0
    /\ outcome = "none"

(* The bound is the largest cluster count; without any cluster there is   *)
(* nothing to reconcile and the loop is aborted.                          *)
Probe ==
    /\ stage = "probe"
    /\ K' = Bound
    /\ IF Bound < 1
         THEN stage' = "end" /\ outcome' = "aborted"
         ELSE stage' = "seed" /\ UNCHANGED outcome
    /\ UNCHANGED <<csv, active, pass>>

(* Seeding: every stream with a descriptor file is active; pass 1 starts. *)
Seed ==
    /\ stage = "seed"
    /\ active' = {s \in Streams : csv[s] /= Missing}
    /\ pass' = 1
    /\ stage' = "loop"
    /\ UNCHANGED <<csv, K, outcome>>

(* One Materializing and Detecting round: some active streams converge.   *)
(* The counter advances only when the loop goes on with a later pass.    *)
Detect ==
    /\ stage = "loop"
    /\ outcome = "none"
    /\ active /= {}
    /\ pass <= K
    /\ \E next \in SUBSET active :
         /\ active' = next
         /\ pass' = IF next = {} THEN pass ELSE pass + 1
    /\ UNCHANGED <<csv, stage, K, outcome>>

(* The loop ends: success when every stream converged, otherwise the     *)
(* bound was passed and the round is exhausted.                           *)
Conclude ==
    /\ stage = "loop"
    /\ outcome = "none"
    /\ active = {} \/ pass > K
    /\ outcome' = IF active = {} THEN "ok" ELSE "exhausted"
    /\ stage' = "end"
    /\ UNCHANGED <<csv, K, active, pass>>

(* A job's non-zero exit aborts the whole round (spec 4.6).               *)
Abort ==
    /\ stage = "loop"
    /\ outcome = "none"
    /\ outcome' = "aborted"
    /\ stage' = "end"
    /\ UNCHANGED <<csv, K, active, pass>>

Next == Probe \/ Seed \/ Detect \/ Conclude \/ Abort

Spec == Init /\ [][Next]_avars /\ WF_avars(Next)

=============================================================================
