---------------------------- MODULE SimPointPhase ----------------------------
(***************************************************************************)
(* The SimPoint phase: util.RunAllDir walks the whole-program pinball     *)
(* directory with phases.RunSimPoint as its method.  RunSimPoint has the  *)
(* signature walk_callback calls a method with, (param, dirname,          *)
(* file_name), and walk_callback keeps its return value in _util_result. *)
(*                                                                         *)
(* The composite reuses the walk of RunAllDir and the steps of            *)
(* SimPointRun.  While the walk is inside a method call, the steps of     *)
(* RunSimPoint and simpoint.py run; when simpoint.py's output has been    *)
(* scanned, the call returns RunSimPoint's result to the walk.  Each       *)
(* pinball has its own <basename>.Data directory, and the walk calls the  *)
(* method at most once per pinball, so the files of a call are chosen     *)
(* fresh, as SimPointRun's Init chooses them.  options.mode is one value  *)
(* for the whole phase.                                                   *)
(***************************************************************************)
EXTENDS Integers, Sequences, SequencesExt, FiniteSets

CONSTANTS Pinballs, Dirs, Top, Icounts, MaxThreads, Cur, Old, None

VARIABLES
    order, loc, results, icount, filtered, pc, w, queue, utilResult, calls,
    aborted, ret,                                 \* the walk (RunAllDir)
    dataDir, bbv, mpiMT, tbb, simp, csv, spc, code, sret, wrote,
                                                  \* the current RunSimPoint
    outcome  \* per pinball: what its RunSimPoint call left (Outcome), or "none"

walkVars == <<order, loc, results, icount, filtered, pc, w, queue, utilResult,
              calls, aborted, ret>>
spVars == <<dataDir, bbv, mpiMT, tbb, simp, csv, spc, code, sret, wrote>>
vars == <<walkVars, spVars, outcome>>

(* RunSimPoint returns 0, -1 or simpoint.py's exit code, which is 0 or -1. *)
Walk == INSTANCE RunAllDir WITH Results <- {-1, 0, 1}

SP == INSTANCE SimPointRun WITH pc <- spc, ret <- sret

NoCsv == [st |-> "none", bbv |-> None, simp |-> None]

Init ==
    /\ Walk!Init
    /\ mpiMT \in BOOLEAN
    /\ dataDir = FALSE /\ bbv = None /\ tbb = None /\ simp = None
    /\ csv = NoCsv
    /\ spc = "idle" /\ code = 0 /\ sret = 0 /\ wrote = FALSE
    /\ outcome = [p \in Pinballs |-> "none"]

(* walk_callback's loop: a skip or a stop leaves RunSimPoint idle; a call *)
(* starts RunSimPoint on the pinball's own *.Data directory.              *)
Visit ==
    /\ Walk!Visit
    /\ IF pc' = "method"
         THEN /\ \E f \in SP!DataFiles :
                   /\ dataDir' = f.dataDir /\ bbv' = f.bbv /\ tbb' = f.tbb
                   /\ simp' = f.simp /\ csv' = f.csv
              /\ spc' = "start" /\ code' = 0 /\ sret' = 0 /\ wrote' = FALSE
              /\ UNCHANGED mpiMT
         ELSE UNCHANGED spVars
    /\ UNCHANGED outcome

(* A step of RunSimPoint or of the simpoint.py process it waits for.      *)
SimPointStep ==
    /\ pc = "method"
    /\ \/ SP!RunSimPointStart \/ SP!CopyBBV \/ SP!RunSimpoint
       \/ SP!GenRegionCSVFile \/ SP!RunSimPointScan
    /\ UNCHANGED <<walkVars, outcome>>

(* What a call leaves for the rest of the phase: the pinball's regions   *)
(* CSV file is complete and computed from its BBV file, the BBV file is   *)
(* missing, or the CSV file is partial, missing or from an earlier trace. *)
Outcome ==
    CASE csv = [st |-> "complete", bbv |-> Cur, simp |-> Cur] -> "current"
      [] bbv = None                                          -> "noBBV"
      [] OTHER                                               -> "stale"

(* The *.Data directory of the next call is another one: the files of     *)
(* this call are no longer looked at.                                     *)
Idle ==
    /\ dataDir' = FALSE /\ bbv' = None /\ tbb' = None /\ simp' = None
    /\ csv' = NoCsv /\ spc' = "idle" /\ code' = 0 /\ sret' = 0 /\ wrote' = FALSE
    /\ UNCHANGED mpiMT

(* Variant of MethodDone that keeps 0 in _util_result whatever           *)
(* RunSimPoint returned.                                                  *)
MethodDoneIgnoreResult ==
    /\ pc = "method"
    /\ spc = "done"
    /\ outcome' = [outcome EXCEPT ![Head(queue)] = Outcome]
    /\ Walk!MethodReturns(0)
    /\ Idle

(* RunSimPoint has returned: _util_result = method(...).                  *)
MethodDone ==
    /\ pc = "method"
    /\ spc = "done"
    /\ outcome' = [outcome EXCEPT ![Head(queue)] = Outcome]
    /\ Walk!MethodReturns(sret)
    /\ Idle

WalkStep ==
    /\ Walk!EnterDir \/ Walk!LeaveDir \/ Walk!Finish
    /\ UNCHANGED <<spVars, outcome>>

Returned == pc = "done" /\ UNCHANGED vars

Next == WalkStep \/ Visit \/ SimPointStep \/ MethodDone \/ Returned

(* The walk and RunSimPoint are one sequential process: weak fairness on  *)
(* every step but the final stutter.                                      *)
Spec == Init /\ [][Next]_vars /\ WF_vars(WalkStep \/ Visit \/ SimPointStep \/ MethodDone)

-----------------------------------------------------------------------------
(* Properties *)

(* The properties of the walk and of RunSimPoint, for this composition.   *)
MaxIcountMatches == Walk!MaxIcountMatches
NoCallAfterError == Walk!NoCallAfterError
SuccessMeansAllProcessed == Walk!SuccessMeansAllProcessed
SuccessMeansCurrentCSV == SP!SuccessMeansCurrentCSV

(* The phase as a whole: when RunAllDir returns 0, every pinball not      *)
(* filtered out has a complete regions CSV file computed from its own     *)
(* BBV file, or, in MPI_MT mode only, has no BBV file.  This needs the    *)
(* walk to stop at the first failure and to keep every method result,     *)
(* and RunSimPoint to return 0 only on a current CSV file.                *)
PhaseSuccessMeansCurrentCSVs ==
    (pc = "done" /\ ret = 0) =>
        \A p \in Pinballs \ filtered :
            \/ outcome[p] = "current"
            \/ outcome[p] = "noBBV" /\ mpiMT

=============================================================================
