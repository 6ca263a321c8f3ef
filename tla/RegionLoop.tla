----------------------------- MODULE RegionLoop -----------------------------
(***************************************************************************)
(* The region-pinball reconciliation loop of phases.py                     *)
(* (GenAllRegionPinballs and the RunAllDir callbacks it drives) composed   *)
(* with the concurrent job runner of util.py (RunCmd, WaitJobs, GetJob).   *)
(*                                                                         *)
(* One controller process walks the whole-program pinballs ("streams"),    *)
(* copies each regions CSV file to an "in" file, and then, pass after      *)
(* pass, starts one relogging job per active stream.  A job is an OS       *)
(* child process: it reads the "in" file and writes an "out" file that     *)
(* lists the clusters it could not generate because of overlap, then       *)
(* exits with an exit code.  After a pass the controller reaps the         *)
(* children, rescans every stream, and relogs again the streams whose      *)
(* "out" file lists clusters, for at most max_num_clusters passes.         *)
(*                                                                         *)
(* Files are abstracted to the number of cluster lines CountClusters()     *)
(* finds in them; a missing file counts as 0, as CountClusters returns.    *)
(***************************************************************************)
EXTENDS Integers, FiniteSets

CONSTANTS
  Streams,      \* whole-program pinballs found by RunAllDir
  Environments, \* the environments a run may meet, each a record of
                \*   cores:  config.num_cores, or NumCores() when it is 0
                \*   canFail: whether a relogging job may exit non-zero
                \*   toolShrinks: whether a relogging job always skips
                \*                fewer clusters than it was given
  MaxClusters   \* bound on the clusters of one regions CSV file

ASSUME Environments \subseteq
         [cores : Nat \ {0}, canFail : BOOLEAN, toolShrinks : BOOLEAN]
ASSUME MaxClusters \in Nat \ {0}

Missing == -1                     \* regions CSV file does not exist

VARIABLES
  env,          \* the environment of this run; it never changes
  pc,           \* where the controller is in GenAllRegionPinballs
  regionF,      \* clusters in <stream>.pinpoints.csv, or Missing
  inF,          \* clusters in the .in.csv file of each stream
  outF,         \* clusters in the .out.csv file of each stream
  maxc,         \* self.max_num_clusters
  count,        \* pass counter of the while loop
  pbList,       \* self.pb_list: streams relogged in the current pass
  pending,      \* streams of pb_list whose job is not started yet
  relog,        \* self.relog_pb_list
  proc,         \* OS state of each stream's child: none, run or zombie
  code,         \* exit code of a child once it has exited
  jobs,         \* util.jobs, the counter of concurrent jobs
  ret,          \* value GenAllRegionPinballs returns
  jobIn,        \* history: clusters of the in file the last job read
  materialized, \* history: the last job of the stream exited 0, no overlap
  passes        \* history: relogging jobs started for each stream

vars == <<env, pc, regionF, inF, outF, maxc, count, pbList, pending, relog,
          proc, code, jobs, ret, jobIn, materialized, passes>>

(* running_pid: the children started and not yet reaped by GetJob.        *)
(* max_cores of RunCmd, the same at every call of one run.               *)
maxCores == env.cores

Codes == IF env.canFail THEN {0, 1} ELSE {0}

RunningPid == {s \in Streams : proc[s] /= "none"}

HasCSV(s) == regionF[s] /= Missing

(* CountClusters on a file that may not exist.                            *)
Clusters(n) == IF n = Missing THEN 0 ELSE n

SetMax(S) == CHOOSE m \in S : \A x \in S : x <= m

(* The out files a relogging job may write: the clusters it skipped.  The *)
(* relogging tool skips fewer than it was given, the first region of the  *)
(* in file never being in conflict with an earlier one; without that      *)
(* (toolShrinks FALSE) it may skip them all.                              *)
OutCounts(n) ==
  IF env.toolShrinks THEN (IF n = 0 THEN {0} ELSE 0..(n - 1)) ELSE 0..n

Init ==
  /\ env \in Environments
  /\ pc = "probe"
  /\ regionF \in [Streams -> {Missing} \cup 0..MaxClusters]
  /\ inF = [s \in Streams |-> 0]
  /\ outF = [s \in Streams |-> 0]
  /\ maxc = 0
  /\ count = 0
  /\ pbList = {}
  /\ pending = {}
  /\ relog = {}
  /\ proc = [s \in Streams |-> "none"]
  /\ code = [s \in Streams |-> 0]
  /\ jobs = 0
  /\ ret = "none"
  /\ jobIn = [s \in Streams |-> 0]
  /\ materialized = [s \in Streams |-> FALSE]
  /\ passes = [s \in Streams |-> 0]

(* RunAllDir(dirname, GetMaxClusters): the largest cluster count of any   *)
(* regions CSV file, then the check that there is at least one cluster.   *)
GetMaxClusters ==
  LET m == SetMax({Clusters(regionF[s]) : s \in Streams})
  IN /\ pc = "probe"
     /\ maxc' = m
     /\ IF m < 1 THEN /\ pc' = "done"
                      /\ ret' = "noClusters"
                 ELSE /\ pc' = "first"
                      /\ UNCHANGED ret
     /\ UNCHANGED <<env, regionF, inF, outF, count, pbList, pending, relog,
                    proc, code, jobs, jobIn, materialized, passes>>

(* Variant that keeps relog_pb_list across passes instead of emptying it. *)
KeepRelog(rl) == rl

(* relog_pb_list at the top of the while loop, given the list rl it was   *)
(* last assigned: it is emptied there.                                    *)
ResetRelog(rl) == {}

(* Top of the while loop, count <= max_num_clusters holding: pb_list is   *)
(* list, relog_pb_list is reset, and the for loop over pb_list begins.    *)
StartPass(list, rl) ==
  /\ pbList' = list
  /\ pending' = list
  /\ relog' = ResetRelog(rl)
  /\ pc' = IF list = {} THEN "waitall" ELSE "dispatch"

(* Variant of GetFirstRegionCSV that starts the pass counter at 0.        *)
GetFirstRegionCSVCountZero ==
  LET found == {s \in Streams : HasCSV(s)}
  IN /\ pc = "first"
     /\ inF' = [s \in Streams |-> IF HasCSV(s) THEN regionF[s] ELSE inF[s]]
     /\ maxc' = SetMax({maxc} \cup {regionF[s] : s \in found})
     /\ count' = 0
     /\ StartPass(found, {})
     /\ UNCHANGED <<env, regionF, outF, proc, code, jobs, ret, jobIn,
                    materialized, passes>>

(* RunAllDir(dirname, GetFirstRegionCSV): every stream whose regions CSV  *)
(* file exists is copied to its in file and put on pb_list; streams       *)
(* without one are skipped with a warning.  Then the loop starts at 1.    *)
GetFirstRegionCSV ==
  LET found == {s \in Streams : HasCSV(s)}
  IN /\ pc = "first"
     /\ inF' = [s \in Streams |-> IF HasCSV(s) THEN regionF[s] ELSE inF[s]]
     /\ maxc' = SetMax({maxc} \cup {regionF[s] : s \in found})
     /\ count' = 1
     /\ StartPass(found, {})
     /\ UNCHANGED <<env, regionF, outF, proc, code, jobs, ret, jobIn,
                    materialized, passes>>

(* The child of a relogging job finishes: it has written its out file     *)
(* and becomes a zombie until the controller reaps it with os.wait3.      *)
JobExit(s) ==
  /\ proc[s] = "run"
  /\ \E c \in Codes, o \in OutCounts(jobIn[s]) :
       /\ code' = [code EXCEPT ![s] = c]
       /\ outF' = [outF EXCEPT ![s] = o]
       /\ materialized' = [materialized EXCEPT ![s] = (c = 0 /\ o = 0)]
  /\ proc' = [proc EXCEPT ![s] = "zombie"]
  /\ UNCHANGED <<env, pc, regionF, inF, maxc, count, pbList, pending, relog,
                 jobs, ret, jobIn, passes>>

(* GetJob: os.wait3 returns some child z that has exited; it is removed   *)
(* from running_pid and end_str and the job counter is decremented.  Its  *)
(* exit code is the result.                                               *)
Reaped(z) == [proc EXCEPT ![z] = "none"]

(* Variant of GetJob that forgets to decrement the job counter.           *)
JobsNotDecremented == jobs

JobsAfterGetJob == jobs - 1

(* Start the child of s (os.spawnvp), given the OS state p of the other   *)
(* children.                                                              *)
Spawn(s, p) ==
  /\ proc' = [p EXCEPT ![s] = "run"]
  /\ jobIn' = [jobIn EXCEPT ![s] = inF[s]]
  /\ passes' = [passes EXCEPT ![s] = @ + 1]

(* Variant of DispatchFree with the saturation test off by one.           *)
DispatchFreeOffByOne(s) ==
  /\ pc = "dispatch"
  /\ s \in pending
  /\ maxCores > 1
  /\ jobs <= maxCores
  /\ Spawn(s, proc)
  /\ jobs' = jobs + 1
  /\ pending' = pending \ {s}
  /\ pc' = IF pending' = {} THEN "waitall" ELSE "dispatch"
  /\ UNCHANGED <<env, regionF, inF, outF, maxc, count, pbList, relog, code, ret,
                 materialized>>

(* GenRegionPinballs(s) -> RunCmd(cmd, concurrent=True) while the pool    *)
(* has a free core: the job is started in the background.                 *)
DispatchFree(s) ==
  /\ pc = "dispatch"
  /\ s \in pending
  /\ maxCores > 1
  /\ jobs < maxCores
  /\ Spawn(s, proc)
  /\ jobs' = jobs + 1
  /\ pending' = pending \ {s}
  /\ pc' = IF pending' = {} THEN "waitall" ELSE "dispatch"
  /\ UNCHANGED <<env, regionF, inF, outF, maxc, count, pbList, relog, code, ret,
                 materialized>>

(* RunCmd when jobs >= max_cores: WaitJobs(wait_all=False) reaps one      *)
(* child and RunCmd returns its result, but GenAllRegionPinballs ignores  *)
(* what GenRegionPinballs returns: the job is started anyway.             *)
DispatchFull(s) ==
  /\ pc = "dispatch"
  /\ s \in pending
  /\ maxCores > 1
  /\ jobs >= maxCores
  /\ \E z \in Streams :
       /\ proc[z] = "zombie"
       /\ Spawn(s, Reaped(z))
       /\ jobs' = JobsAfterGetJob + 1
  /\ pending' = pending \ {s}
  /\ pc' = IF pending' = {} THEN "waitall" ELSE "dispatch"
  /\ UNCHANGED <<env, regionF, inF, outF, maxc, count, pbList, relog, code, ret,
                 materialized>>

(* RunCmd with a single core runs the job in the foreground; its exit     *)
(* code is returned and, again, ignored by GenAllRegionPinballs.          *)
DispatchSerial(s) ==
  /\ pc = "dispatch"
  /\ s \in pending
  /\ maxCores = 1
  /\ \E c \in Codes, o \in OutCounts(inF[s]) :
       /\ code' = [code EXCEPT ![s] = c]
       /\ outF' = [outF EXCEPT ![s] = o]
       /\ materialized' = [materialized EXCEPT ![s] = (c = 0 /\ o = 0)]
  /\ jobIn' = [jobIn EXCEPT ![s] = inF[s]]
  /\ passes' = [passes EXCEPT ![s] = @ + 1]
  /\ pending' = pending \ {s}
  /\ pc' = IF pending' = {} THEN "waitall" ELSE "dispatch"
  /\ UNCHANGED <<env, regionF, inF, maxc, count, pbList, relog, proc, jobs, ret>>

(* Variant of WaitAllReap that does not look at the exit code.            *)
WaitAllReapIgnoreCode ==
  /\ pc = "waitall"
  /\ RunningPid /= {}
  /\ \E z \in Streams :
       /\ proc[z] = "zombie"
       /\ proc' = Reaped(z)
       /\ jobs' = JobsAfterGetJob
  /\ UNCHANGED <<env, pc, ret, regionF, inF, outF, maxc, count, pbList, pending,
                 relog, code, jobIn, materialized, passes>>

(* WaitJobs(wait_all=True), inner loop: reap one child; a non-zero exit   *)
(* code is returned at once and GenAllRegionPinballs returns it, leaving  *)
(* the other children running.                                            *)
WaitAllReap ==
  /\ pc = "waitall"
  /\ RunningPid /= {}
  /\ \E z \in Streams :
       /\ proc[z] = "zombie"
       /\ proc' = Reaped(z)
       /\ jobs' = JobsAfterGetJob
       /\ IF code[z] /= 0 THEN /\ pc' = "done"
                               /\ ret' = "jobErr"
                          ELSE UNCHANGED <<pc, ret>>
  /\ UNCHANGED <<env, regionF, inF, outF, maxc, count, pbList, pending, relog,
                 code, jobIn, materialized, passes>>

(* WaitJobs(wait_all=True) returns 0 once the job counter is 0.  While    *)
(* jobs > 0 and running_pid is empty it sleeps forever.                   *)
WaitAllDone ==
  /\ pc = "waitall"
  /\ RunningPid = {}
  /\ jobs = 0
  /\ pc' = "next"
  /\ UNCHANGED <<env, regionF, inF, outF, maxc, count, pbList, pending, relog,
                 proc, code, jobs, ret, jobIn, materialized, passes>>

(* Variant of GetNextRegionCSV that copies the regions CSV file, not the  *)
(* out file, to the in file of a stream to relog.                         *)
GetNextRegionCSVCopyRegion ==
  LET r  == {s \in Streams : HasCSV(s) /\ outF[s] > 0}
      rl == relog \cup r
  IN /\ pc = "next"
     /\ inF' = [s \in Streams |-> IF s \in r THEN regionF[s] ELSE inF[s]]
     /\ outF' = [s \in Streams |-> IF s \in r THEN 0 ELSE outF[s]]
     /\ IF rl = {}
          THEN /\ pc' = "final"
               /\ UNCHANGED <<count, pbList, pending, relog>>
          ELSE /\ count' = count + 1
               /\ IF count + 1 <= maxc
                    THEN StartPass(rl, rl)
                    ELSE /\ relog' = rl
                         /\ pbList' = rl
                         /\ pc' = "final"
                         /\ UNCHANGED pending
     /\ UNCHANGED <<env, regionF, maxc, proc, code, jobs, ret, jobIn,
                    materialized, passes>>

(* RunAllDir(dirname, GetNextRegionCSV) over every stream: a stream whose *)
(* out file lists clusters is appended to relog_pb_list, its out file is  *)
(* copied to its in file and moved away.  Then the loop either goes on    *)
(* with relog_pb_list as pb_list, or leaves because the list is empty or  *)
(* count passed max_num_clusters.                                         *)
GetNextRegionCSV ==
  LET r  == {s \in Streams : HasCSV(s) /\ outF[s] > 0}
      rl == relog \cup r
  IN /\ pc = "next"
     /\ inF' = [s \in Streams |-> IF s \in r THEN outF[s] ELSE inF[s]]
     /\ outF' = [s \in Streams |-> IF s \in r THEN 0 ELSE outF[s]]
     /\ IF rl = {}
          THEN /\ pc' = "final"
               /\ UNCHANGED <<count, pbList, pending, relog>>
          ELSE /\ count' = count + 1
               /\ IF count + 1 <= maxc
                    THEN StartPass(rl, rl)
                    ELSE /\ relog' = rl
                         /\ pbList' = rl
                         /\ pc' = "final"
                         /\ UNCHANGED pending
     /\ UNCHANGED <<env, regionF, maxc, proc, code, jobs, ret, jobIn,
                    materialized, passes>>

(* After the loop: still streams to relog after max_num_clusters passes   *)
(* is the "Too many iterations" error; otherwise the CSV files are        *)
(* removed and 0 is returned.                                             *)
Finish ==
  /\ pc = "final"
  /\ ret' = IF count > maxc /\ relog /= {} THEN "exhausted" ELSE "ok"
  /\ pc' = "done"
  /\ UNCHANGED <<env, regionF, inF, outF, maxc, count, pbList, pending, relog,
                 proc, code, jobs, jobIn, materialized, passes>>

(* The script has returned and no child it started is still running.     *)
Terminated ==
  /\ pc = "done"
  /\ \A s \in Streams : proc[s] /= "run"
  /\ UNCHANGED vars

Controller ==
  \/ GetMaxClusters
  \/ GetFirstRegionCSV
  \/ \E s \in Streams : DispatchFree(s) \/ DispatchFull(s) \/ DispatchSerial(s)
  \/ WaitAllReap
  \/ WaitAllDone
  \/ GetNextRegionCSV
  \/ Finish

Next ==
  \/ Controller
  \/ \E s \in Streams : JobExit(s)
  \/ Terminated

(* The controller is one process that runs whenever it is not blocked,    *)
(* and every relogging child eventually exits.                            *)
Fairness ==
  /\ WF_vars(Controller)
  /\ \A s \in Streams : WF_vars(JobExit(s))

Spec == Init /\ [][Next]_vars /\ Fairness

-----------------------------------------------------------------------------
TypeOK ==
  /\ env \in Environments
  /\ pc \in {"probe", "first", "dispatch", "waitall", "next", "final", "done"}
  /\ regionF \in [Streams -> {Missing} \cup 0..MaxClusters]
  /\ inF \in [Streams -> 0..MaxClusters]
  /\ outF \in [Streams -> 0..MaxClusters]
  /\ maxc \in 0..MaxClusters
  /\ count \in 0..(MaxClusters + 1)
  /\ pbList \subseteq Streams /\ pending \subseteq pbList
  /\ relog \subseteq Streams
  /\ proc \in [Streams -> {"none", "run", "zombie"}]
  /\ code \in [Streams -> Codes]
  /\ jobs \in 0..maxCores
  /\ ret \in {"none", "ok", "jobErr", "noClusters", "exhausted"}
  /\ jobIn \in [Streams -> 0..MaxClusters]
  /\ materialized \in [Streams -> BOOLEAN]
  /\ passes \in [Streams -> 0..MaxClusters]

(* GenAllRegionPinballs returns 0 only if every stream that has a regions *)
(* CSV file got all its region pinballs: the last relogging job of each   *)
(* exited with 0 and reported no overlapping cluster.  (spec 4.6: a job's *)
(* non-zero exit aborts the whole round.)                                 *)
SuccessMeansMaterialized ==
  (pc = "done" /\ ret = "ok") =>
    \A s \in Streams : HasCSV(s) => materialized[s]

(* The loop bound max_num_clusters, the largest cluster count of any      *)
(* stream, always leaves every stream enough passes to converge: the      *)
(* "Too many iterations" error is never reported when every relogging     *)
(* job skips fewer clusters than it was given.                            *)
NoSpuriousExhaustion == env.toolShrinks => ret /= "exhausted"

(* RunCmd never has more children alive (started and not yet reaped)     *)
(* than max_cores, whatever order the children exit in.                   *)
PoolBound == Cardinality(RunningPid) <= maxCores

(* Each stream is relogged in at most as many passes as its own regions  *)
(* CSV file has clusters (at least one): a stream leaves pb_list as soon  *)
(* as its own in file is used up, whatever the other streams still need   *)
(* (when the relogging tool always skips fewer clusters than it is given). *)
StreamPassesBounded ==
  env.toolShrinks =>
  \A s \in Streams : passes[s] <= IF regionF[s] > 1 THEN regionF[s] ELSE 1

(* When "Too many iterations" is reported, every stream still to relog    *)
(* was relogged in every one of the max_num_clusters passes: no stream is *)
(* under-iterated and the error comes exactly after pass K (spec 4.5, 8). *)
ExhaustedOnlyAfterBound ==
  ret = "exhausted" =>
    /\ count = maxc + 1
    /\ \A s \in relog : passes[s] = maxc

(* GenAllRegionPinballs eventually returns: WaitJobs does not wait        *)
(* forever and the pass loop ends.                                        *)
Termination == <>(pc = "done")

-----------------------------------------------------------------------------
(* Refinement of the pass structure of spec 4.5.  The abstract active set *)
(* is pb_list during a pass and relog_pb_list once the loop has left; the *)
(* pass counter is count and the bound is max_num_clusters.               *)

PassStage ==
  CASE pc = "probe" -> "probe"
    [] pc = "first" -> "seed"
    [] pc = "done"  -> "end"
    [] OTHER        -> "loop"

PassActive ==
  IF pc = "final" \/ ret \in {"ok", "exhausted"} THEN relog ELSE pbList

PassOutcome ==
  CASE ret \in {"jobErr", "noClusters"} -> "aborted"
    [] OTHER                            -> ret

Passes == INSTANCE ReconciliationPasses
            WITH csv <- regionF, stage <- PassStage, K <- maxc,
                 active <- PassActive, pass <- count, outcome <- PassOutcome

(* GenAllRegionPinballs implements the pass machine of spec 4.5: passes   *)
(* are numbered from 1, a stream never rejoins the active set after it    *)
(* converged, a new pass starts only while count <= max_num_clusters, and *)
(* the loop ends ok exactly when no stream is left, "too many iterations" *)
(* exactly when the bound was passed, and otherwise aborts.               *)
RefinesPasses == Passes!Spec

=============================================================================
