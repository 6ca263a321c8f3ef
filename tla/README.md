# TLA+ models of the PinPoints region-generation core

This directory holds TLA+ models of the SimPoint "region" core of the PinPoints
scripts in `src/pin_kit/extras/pinplay/PinPoints/scripts/`, and of the
job-queue scripts `src/run_jobs.py` and `src/2019-08-12-encola-sniper-speccpu17.py`. TLC model-checks
them. Every definition is translated from the Python source. `PROJECT.json`
maps each one to the lines it models, and lists the runs, mutants, findings
and hazards.

## The system and its parts

The core turns a program trace into a few representative regions, then
generates one region pinball per region.

| Part (spec name) | Code | What it does |
|---|---|---|
| VectorFileReader | `regions.py` `GetSlice`, `GetBlockIDs`, `GetRegionBBV` | reads the BBV file: one `T:` line of `:dim:count` pairs per slice, then `Block id:` lines; builds `cumulative_icount` and the block table `all_bb` (gaps repaired) |
| RegionWeightReader | `regions.py` `GetSimpoints`, `GetWeights`, `CheckRegions` | reads SimPoint's simpoints (slice, cluster) and weights (weight, cluster) files; rejects files whose cluster sets differ |
| RegionBoundarySynthesizer | `regions.py` `GenRegionCSV` | prints one CSV descriptor per cluster: start and end icount of its slice, and its weight |
| ClusterCountProbe | `phases.py` `CountClusters`, `GetMaxClusters` | the largest cluster count of any stream's regions CSV file, used as the loop bound |
| OverlapReconciliationLoop | `phases.py` `GenAllRegionPinballs`, `GetFirstRegionCSV`, `GetNextRegionCSV`, `GenRegionPinballs` | relogs each stream (whole-program pinball) pass after pass, feeding each job's "out" file (clusters it could not generate because regions overlap) into the next pass as its "in" file |
| Pinball directory walker | `util.py` `RunAllDir`, `walk_callback`, global `_util_result` | runs a method on every pinball of a directory tree, largest icount first, and reports its first error |
| SimPoint phase | `phases.py` `RunSimPoint`, `simpoint.py` `Run`, `RunSimpoint`, `GenRegionCSVFile`, `util.py` `CheckResult` | per whole-program pinball, runs `simpoint.py`, which runs SimPoint and then `regions.py` into the regions CSV file, stopping at the first failed step |
| ConcurrencyScheduler | `util.py` `RunCmd`, `WaitJobs`, `GetJob`, globals `jobs`, `running_pid` | runs relogging jobs as OS children, at most `max_cores` at a time; reaps one when the pool is full, and all at the end of a pass |
| Job queue submission | `run_jobs.py`, `2019-08-12-encola-sniper-speccpu17.py`: `config_vary`, `remove_duplicates`, `check_duplicate_output_files`, `enqueue` | builds every configuration of benchmarks, seeds and thread counts (or trace sizes) and submits one Sun Grid Engine job each with `qsub`, skipping those whose `<out>.stderr` exists |
| Parameter passing | `config.py` `GlobalVar.DumpGlobalVars`, `ReadGlobalVars`, `SetGlobalVars`, `RmGlobalFiles`, `ConfigClass.GetCfgGlobals`, `GetCfgFile`, `ParseCfgFile` | a script that runs another script pickles its globals to `global.dat.<random key>`; the called script reads its configuration files, then that file, then its command line |

How they interact:
- In the SimPoint phase, `RunAllDir` walks the whole-program pinball
  directory with `RunSimPoint` as its method (its signature is the one
  `walk_callback` calls). Each call runs `simpoint.py` in the foreground,
  and `regions.py` runs once per stream from `simpoint.py` and writes the
  regions CSV file.
- `GenAllRegionPinballs` runs each of its per-stream steps through
  `RunAllDir`, which walks the whole-program pinball directory.
- `GenAllRegionPinballs` then reads every stream's CSV file and starts the
  relogging jobs through the scheduler.
- The jobs and the controller share nothing but files and exit codes.
  Among those files is the pickle file through which each relogging job
  receives the calling script's parameters.
- The job-queue scripts are separate: they share with the grid engine only
  the output files, whose `.stderr` the engine creates when a job starts.

## Modules

### `RegionLoop.tla` (with `MC_RegionLoop.tla`)

This module models the reconciliation loop composed with the job scheduler.
It has one controller process plus one child process per stream.

State:
- `pc`: where the controller is in `GenAllRegionPinballs`.
- `regionF`, `inF`, `outF`: each stream's regions CSV, in and out files,
  abstracted to the cluster count `CountClusters` finds (`Missing` when the
  CSV file is absent).
- `maxc`: `max_num_clusters`.
- `count`: the pass counter.
- `pbList`, `relog`: `pb_list` and `relog_pb_list`.
- `pending`: the streams of the current pass not yet started.
- `proc`, `code`: each child's OS state (none/run/zombie) and exit code.
- `jobs`: `util.jobs`.
- `ret`: the returned value.
- `jobIn`, `materialized`, `passes`: history variables used only by the
  properties.

Actions:

| Action | Code |
|---|---|
| `GetMaxClusters` | `RunAllDir(GetMaxClusters)` plus the `< 1` check |
| `GetFirstRegionCSV` | seeding: copy CSV to in, `pb_list`, `count = 1` |
| `DispatchFree` | `GenRegionPinballs` → `RunCmd`, concurrent with a free core |
| `DispatchFull` | `RunCmd` when `jobs >= max_cores`: `WaitJobs(wait_all=False)` reaps one zombie, and the new job is started anyway |
| `DispatchSerial` | `RunCmd` with one core: foreground `Popen`/`communicate` |
| `WaitAllReap` | one `GetJob` in `WaitJobs(wait_all=True)`; a non-zero code returns at once |
| `WaitAllDone` | `WaitJobs` returns once `jobs` is 0 |
| `GetNextRegionCSV` | the rescan of every stream, then the loop test |
| `Finish` | "Too many iterations" or the cleanup and `return 0` |
| `JobExit(s)` | the external relogging child exits. It chooses its exit code and the number of clusters it skipped; when `env.toolShrinks` holds it skips fewer than it was given |
| `Terminated` | the script has returned and no child still runs |

Constants:
- `Streams`: model values `s1..s3`.
- `Environments`: a set of records `[cores, canFail, toolShrinks]`. The
  variable `env` is chosen from it in `Init` and never changes. `cores` is
  `max_cores` (`maxCores == env.cores`), fixed because `RunCmd` reads
  `config.num_cores` or `NumCores()`, which stay the same during a run;
  `canFail` says whether jobs may exit non-zero; `toolShrinks` whether the
  relogging tool always skips at least one cluster. Properties that hold
  only in some environments are stated as implications on `env`, so one
  run checks every environment.
- `MaxClusters`: the bound on a CSV file's clusters.

Fairness: weak fairness for the controller, because it is one process that
runs whenever an action is enabled. Weak fairness also for each child's
exit, because an OS child eventually terminates. Nothing else is assumed.

### `ReconciliationPasses.tla`: the abstract pass machine

This module states what spec §4.4 and §4.5 promise of the loop, with no jobs,
files or scheduler:
- `Probe`: the bound `K` is the largest cluster count, and the loop aborts
  when it is below 1.
- `Seed`: the streams with a CSV file become active, at pass 1.
- `Detect`: one round, in which some active streams converge.
- `Conclude`: ok when no stream is left, exhausted when the bound was passed.
- `Abort`: a failed job.

`RegionLoop` instantiates it with a refinement mapping:
- `csv` is `regionF`;
- `K` is `maxc`;
- `pass` is `count`;
- the active set is `pb_list` during a pass and `relog_pb_list` once the loop
  has left;
- `outcome` is `ret`, with `jobErr` and `noClusters` mapped to `aborted`.

`RefinesPasses` checks `Passes!Spec`, fairness included, as a PROPERTY. Every
pass, dispatch and reaping step of `RegionLoop` is a stutter of the abstract
machine, except the two probes, the rescan `GetNextRegionCSV`, `Finish` and
the aborting `WaitAllReap`.

### `RegionCSV.tla` (with `MC_RegionCSV.tla`)

This module models `regions.py --csv_region`. The script is sequential and
runs once, so the model is `Init` (every small input the script can be given)
plus one step, `GenRegionCSV`, that computes what the script leaves behind:
- its exit `status`: `ok`, `regionsErr` from `CheckRegions`, or `indexError`;
- the descriptors `out` it printed before exiting;
- the tables `cum` (`cumulative_icount`) and `allBB` (the ids of `all_bb`).

The parsing and the loops are operators, so they can be checked against
reference definitions (`SliceStart`, `SliceEnd`, `BlocksUpTo`):
- `LastDigit` and `FirstDigit`: what the greedy regexes extract.
- `PyInsert`: Python's `list.insert`.
- `GetSimpoints`, `GetWeights`: folds over the file lines.
- `ReadSlices` and `CumStep`: the `GetSlice` loop and its `sum != 0` guard.
- `FillMissing`: the repair loop, RECURSIVE, one iteration per call.
- `RepairBlocks`.
- `CheckRegions`.
- `Descriptor`.

Inputs are abstracted:
- a slice is its total, or `NoPairs` for a `T:` line with no pairs;
- a simpoints line is `<<slice, cluster>>`;
- a weights line is the cluster it weighs. A weight is identified by its
  cluster, so a descriptor records which cluster's weight it printed.

`Init` keeps to what SimPoint writes: each cluster once per file, and a
distinct representative slice of the BBV file for each cluster. The two files
are otherwise independent, because the user passes them separately.

### `RunAllDir.tla` (with `MC_RunAllDir.tla`)

This module models `RunAllDir(dir_string, method, True, param)`, the form
every caller uses, and its `os.path.walk` callback `walk_callback`.

State:
- `order`: the order `os.path.walk` visits the directories, the top first.
- `loc`, `results`, `filtered`: for each pinball, its directory, the
  inscount of each of its per-thread result files (`NotFound` for a file
  without one), and whether its name contains `replay_filter`.
- `icount`: `GetMaxIcount` of the result files. The operator is RECURSIVE,
  one file per call. It keeps the largest count, and gives 0 with a `break`
  at the first file without a count. A pinball with no result file also
  gets 0.
- `pc`, `w`: between callbacks or inside one, and the directory being visited.
- `queue`: the rest of `sorted_list`.
- `utilResult`: the global `_util_result`.
- `ret`: what `RunAllDir` returns.
- `calls`, `aborted`: history variables used only by the properties.

Actions:

| Action | Code |
|---|---|
| `EnterDir` | the callback's entry: `_util_result = 0`, the icount scan with its `-1` abort, `decor.sort(reverse=True)` |
| `Visit` | one iteration over `sorted_list`: return on a previous error, skip a filtered pinball, or call the method (`pc = "method"`) |
| `MethodReturns(r)` | `_util_result = method(...)` returns `r`, and the loop moves to the next pinball |
| `LeaveDir` | the loop over `sorted_list` ends |
| `Finish` | `os.path.walk` returns and `RunAllDir` returns `_util_result` |

Standalone (`Method`), the method returns any value of `Results` (`0` or
`-1`) in one step; `SimPointPhase` runs `RunSimPoint` in its place. Ties in icount
may be sorted in either order, because the tie-break is by name.

### `SimPointRun.tla`

This module models one `RunSimPoint` call and the `simpoint.py` process it
runs in the foreground. Each file is abstracted to the version of the BBV
file it was computed from:
- `Cur`: this trace;
- `Old`: an earlier trace, whose files an earlier run left in the `*.Data`
  directory;
- `None`: no file.

`DataFiles` is every combination of a present or missing `*.Data`
directory and BBV file and a leftover `t.bb`, `t.simpoints` and regions
CSV file; `Init` starts from any of them.

| Action | Code |
|---|---|
| `RunSimPointStart` | the `*.Data` and BBV checks; a missing BBV file returns 0 in MPI_MT mode and 1 otherwise |
| `CopyBBV` | `simpoint.py` `Run`: the tool check, the copy to `t.bb`, the slice-size check |
| `RunSimpoint` | SimPoint writes `t.simpoints`/`t.weights`, or fails and leaves the old ones; then `CheckResult` |
| `GenRegionCSVFile` | the shell redirect truncates the CSV file; `regions.py` writes all or part of it; then `CheckResult` |
| `RunSimPointScan` | the exit code, and -1 when the output shows `ERROR` |

The external tools' results are nondeterministic. `regions.py` can succeed
only when a simpoints file exists. The module is checked as part of
`SimPointPhase`.

### `SimPointPhase.tla` (with `MC_SimPointPhase.tla`): the composition

The SimPoint phase: the walk of `RunAllDir` with `RunSimPoint` as its
method. `Walk == INSTANCE RunAllDir` and `SP == INSTANCE SimPointRun WITH
pc <- spc, ret <- sret` give the two components' actions over the
composite's variables.
- `Visit` is the walk's `Visit`. When it calls the method, the pinball's
  files are chosen from `DataFiles`, because each pinball has its own
  `<basename>.Data` directory and the walk calls the method at most once
  per pinball. `options.mode` (`mpiMT`) is one value for the whole phase.
- `SimPointStep` is a step of `RunSimPoint` or `simpoint.py`, only while
  the walk is inside the call. The comment at `phases.py:683` says it runs
  sequentially, not concurrently.
- `MethodDone` returns `RunSimPoint`'s result to the walk
  (`MethodReturns(sret)`), records in `outcome` what the call left for the
  pinball (`Outcome`: a current CSV file, no BBV file, or anything else),
  and idles the component (`Idle`).
- `WalkStep` is the walk's `EnterDir`, `LeaveDir` and `Finish`.

Fairness: weak fairness on every step, because the walk and the call are
one sequential process and `simpoint.py` is a foreground child that ends.
Its run checks safety properties only: that the walk ends follows from
its finite directory list and bounded queue, and is not a question the
code leaves open.

### `GlobalVars.tla` (with `MC_GlobalVars.tla`)

One calling script (the `pinpoints.py` process, whose
`RelogWholeCodeExclude` and `GenRegionPinballs` start relogging jobs
concurrently) and its jobs. Each job is a separate process that runs
`GetCfgGlobals`. One parameter is followed, `mode`, a string whose default
is `''`.

State:
- `files` holds the `global.dat.<key>` files, over a small set of `Keys`
  that stands for `random.randint(0, 32728)`.
- `listed` is the calling script's `global_file_list`.
- Per job: `cfgList`, its `--cfg` file followed by its instance file; `cmd`,
  its `--mode`; `parser`, the class-wide ConfigParser; `mode` and `opt`,
  `config.mode` and `options.mode`.

A configuration file is `missing` (a `--cfg` name that does not exist,
which ends the job), `absent` (a default or instance file that does not
exist, which is skipped), `nomode`, or a value.

| Action | Code |
|---|---|
| `DumpGlobalVars(j)` | only while the script is not inside `RunCmd` (`CallerBusy`: a job dumped but not started, or a foreground job running, as in `Replay` and `RelogWhole`); a key; a second, unchecked key if the file exists; `open('wb+')`, append to `global_file_list`, pickle |
| `StartJob(j)` | `RunCmd` starts the job with `--global_file`, as `BasicBlockVector` does |
| `GetCfgFile(j)` | one file of the `GetCfgGlobals` loop: exit, skip, or `parser.read` on top of the earlier files and `ParseCfgFile` |
| `CfgFilesRead(j)` | the files are read; `ReadGlobalVars` is next |
| `ReadGlobalVars(j)` | `os.path.isfile(global_file)`; without a file, the copy into `options` |
| `LoadPickle(j)` | `open` (PrintAndExit if the file went away) and `pickle.load`; with `save_global`, the copy into `options` |
| `RemovePickle(j)` | `os.remove` (an uncaught `OSError` if the file went away), then the copy into `options` |
| `SetGlobalVars(j)` | a non-default option overrides `config` |
| `RmGlobalFiles` | `CleanupTraceEnd` after the script has waited for its jobs |

`NoJobLosesItsGlobals` states the promise of `DumpGlobalVars`'s comment: a
job that runs to its end has read the pickle its caller wrote for it. The
globals_sharedkey run shows it broken (finding 6).

### `Encola.tla` (with `MC_Encola.tla`)

Both job-queue scripts in one module. The two scripts differ only in their
output name. `run_jobs.py` uses benchmark, thread count and seed
(`RunJobsOutFile`). The encola script uses benchmark and trace size, which
`INSTR_COUNT` determines (`EncolaOutFile`). The constant `Scripts` chooses
which script the user runs.

A configuration is a record of its seed, benchmark and third parameter. The
benchmark table and the job script's text are left out. The configuration
list is built by operators:
- `ConfigVary` is `config_vary` over a list. It uses `FlattenSeq` of one copy
  per value.
- `RemoveDuplicates` is a `FoldLeft` that keeps first occurrences.
- `CheckDuplicateOutputFiles` is `check_duplicate_output_files`.

State:
- `runs` counts invocations; `pc`, `configs`, `idx` are the running one.
- `stderrF` holds the output names whose `.stderr` exists.
- `subs` is the history of submissions (output name, state, invocation).
  `startedAt[k]` is the number of submissions made when job `k` started.
- `scripts` holds the test scripts written under `ENCOLA_JUST_TEST=1`.

| Action | Code |
|---|---|
| `Invoke` | the module code up to the loop: `len(argv)` 3, 5 or 6 (4 and others raise), the `OUTS_DIR_BASE` check, `ENCOLA_JUST_TEST`, the configuration list, `check_duplicate_output_files` (raises); `skip_set_file = None` leaves `SkipSet` empty |
| `Enqueue` | `enqueue(c)`: skip if `<out>.stderr` exists or the name is in `skip_set`; else `qsub`, or a `mkstemp` test script. When `QsubMayFail`, qsub may reject the submission (`QsubStates`): it is recorded `rejected`, never starts, and its exit status is not looked at |
| `Finish` | the `for` loop ends |
| `Interrupt` | the user stops the script between two configurations |
| `JobStart(k)` | the grid engine starts a queued job and opens its `-e`/`-o` files |
| `JobEnd(k)` | the job script (`run-sniper ... -d <out>`) ends |

Fairness: the script's own steps (`Enqueue`, `Finish`) are weakly fair,
because the loop runs unless the user interrupts it. The grid engine is
assumed to start and end every queued job eventually. `Invoke` has no
fairness, since running the script again is the user's choice. `MaxRuns`
bounds the number of invocations. `Live(k)` is a submission the grid
engine accepted and has not finished.

## Runs

| Run | cfg | Expect | Checks | Shows |
|---|---|---|---|---|
| loop_envs | `RegionLoop_envs.cfg` (3 streams, ≤3 clusters; 1 or 2 cores with jobs that succeed and a tool that shrinks, or 3 cores with jobs that may fail and a tool that may not shrink) | pass | TypeOK, PoolBound, NoSpuriousExhaustion, SuccessMeansMaterialized, StreamPassesBounded, ExhaustedOnlyAfterBound, Termination, RefinesPasses | the loop implements the §4.5 pass machine on the foreground path (one core), the saturated one and the unsaturated one; the pool is never over-full; with a shrinking tool the loop converges within `max_num_clusters` and each stream runs at most as many passes as it has clusters; while the pool never saturates, every failure aborts the round; "Too many iterations" comes exactly after pass K; the loop always returns |
| loop_lostfailure | `RegionLoop_lostfailure.cfg` (2 cores, jobs may fail) | violation | SuccessMeansMaterialized | a failing job reaped by the saturated `RunCmd` is dropped, and the round succeeds |
| csv_roundtrip | `RegionCSV_roundtrip.cfg` (≤3 slices, ≤2 lines, blocks 0..3) | pass | TypeOK, RoundTrip, PairingWhenSameOrder, RepairSingleGap | spec §8 round trip: one descriptor per weights line, with `start ≤ end`; weights pair right when both files share one order; a single missing block is repaired |
| csv_pairing | `RegionCSV_pairing.cfg` (3 clusters 0..2) | violation | WeightPairing | the same clusters in different orders mispair slices and weights |
| csv_boundaries | `RegionCSV_boundaries.cfg` | violation | SliceBoundaries | a zero-sum slice shifts every later boundary |
| encola_runs | `Encola_runs.cfg` (either script, ≤3 invocations, seeds 0..1 or 1..0, one benchmark named twice, qsub may reject) | pass | TypeOK, NoDuplicateOutInRun, NoResubmitAfterStart | one invocation never submits two jobs with one output name (for the encola script, seeds 0..1 are refused); no job is submitted again after it started |
| encola_resubmit | `Encola_resubmit.cfg` (as above) | violation | AtMostOneLiveJob | a re-run before the grid engine starts a queued job submits it again |
| simpoint_phase | `SimPointPhase_walk.cfg` (2 pinballs in one directory, ≤2 result files each with inscount 0..2 or none, any filter, both modes, every leftover file per call) | pass | MaxIcountMatches, NoCallAfterError, SuccessMeansAllProcessed, SuccessMeansCurrentCSV, PhaseSuccessMeansCurrentCSVs | the icount the walk sorts by is the largest thread count, and 0 exactly when a result file has no count or there is none; no call follows a failure; `RunSimPoint` returns 0 only with a complete CSV file from this trace (or a soft MPI_MT skip), so never with an earlier trace's simpoints; the phase returns 0 only when every unfiltered pinball has a current CSV file or, in MPI_MT mode, no BBV file |
| encola_rejected | `Encola_rejected.cfg` (as encola_runs) | violation | EveryConfigQueued | qsub rejects a submission, and the invocation ends normally with a configuration that has no job and no "skipped" line |
| globals_jobs | `GlobalVars_jobs.cfg` (a foreground and a background job, 2 keys, 2 values) | pass | TypeOK, Precedence, OptionsAgree, NoGlobalFileLeft | a job's mode is its `--mode`, else the caller's pickled mode if it found its file, else the last configuration file that sets it (a later file without `mode` does not clear it); `options` and `config` agree; cleanup without `save_global` leaves no pickle file, even for a job that exited before reading its own |
| globals_sharedkey | `GlobalVars_sharedkey.cfg` (as globals_jobs) | violation | NoJobLosesItsGlobals | a second draw of a taken key reuses a pickle file of a job not yet finished; the first job to read removes it, and the other silently keeps its configuration-file values |
| walk_lostresult | `RunAllDir_lostresult.cfg` (a top directory and one subdirectory) | violation | SuccessMeansAllProcessed | an error in the top directory is erased when the walk enters the subdirectory |

Each property of a passing run has a mutant in `PROJECT.json`, and TLC finds
the property violated when the mutant replaces the mapped definition:
- a missed `jobs -= 1`;
- `jobs <= max_cores`;
- `relog_pb_list` not reset;
- `WaitJobs` returning early;
- a failure code ignored;
- the regions CSV copied instead of the out file;
- the pass counter starting at 0;
- the dropped `sum != 0` guard;
- `append` instead of `insert`;
- the repair loop without its skip;
- `GenRegionCSVFile` not followed by `CheckResult`;
- `walk_callback` not checking `_util_result` before the next call;
- a ConfigParser per file instead of one for all files;
- `GetVarStr` returning the raw lookup;
- no copy from `config` into `options`;
- a pickle file not added to `global_file_list`;
- `range(min_seed, max_seed + 2)`;
- no `check_duplicate_output_files`;
- no `.stderr` test;
- `GetMaxIcount` without its `break`;
- `_util_result` set to 0 whatever `RunSimPoint` returned.

## Bounds and why they suffice

- **Three streams on two cores** saturate the pool, so both the wait-one and
  the wait-all paths of `WaitJobs` run. Three cores never saturate, and one
  core takes the serial path; the saturated run checks one and two cores.
- **`MaxClusters = 3`** gives up to three passes per stream, and streams
  whose counts differ, so that some streams drop out while others go on.
- **Cluster ids `{0, 1, 11}`** give insert positions beyond the list end
  (`PyInsert` appends) and two ids with the same last digit.
- **Three slices with totals 0 or 1, plus `NoPairs`**, cover a zero slice
  before, at and after the representative slice, and an early end of
  reading.
- **Blocks `0..3`** cover no gap, one gap and two gaps.
- **Two pinballs, each with up to two result files of inscount `0..2` or
  none**, cover a missing count before and after a good one. They also give
  an abort, ties, a filtered pinball and a failure followed by a further
  pinball. With every combination of leftover files for each of the two
  `RunSimPoint` calls, this gives 1,000,608 states; a third pinball is
  beyond the five-minute budget, and it adds no case a second one lacks.
  A pinball tree needs only one subdirectory to lose a result (the
  standalone `RunAllDir` run uses three pinballs).
- **Two jobs, one in the foreground and one in the background, and two
  keys** are enough for two jobs to be given the same
  pickle file: a first key that is taken, then a second draw of that same
  key. Two values of `mode` let a later configuration file disagree with
  an earlier one, and let the pickle disagree with both.
- **Three invocations, seeds 0..1 and a benchmark listed twice** cover the
  following:
  - a duplicate configuration that `remove_duplicates` drops;
  - two seeds that the encola script names alike;
  - an empty seed range;
  - a job started between two invocations, and one still queued;
  - an interrupted invocation followed by a resumed one.

  More benchmarks only multiply the same cases.

## Findings

Seven divergences are described in `PROJECT.json` "findings":
1. A failing relogging job is lost when the pool is saturated, and also on
   one core, because `GenAllRegionPinballs` ignores `RunCmd`'s result.
2. `list.insert` pairs weights by file order, not by cluster id.
3. `cumulative_icount` drops zero-sum slices but is indexed by slice number.
   `spec.md` §4.3 describes the same indexing, so only the code's own
   comments contradict it.
4. `enqueue` skips a configuration only once its `.stderr` exists. The grid
   engine creates that file when the job starts, so a re-run while jobs
   are queued submits them again, and two jobs write one output directory.
5. `walk_callback` resets the global `_util_result` in every directory, so
   `RunAllDir` reports success after an error in a directory that has
   subdirectories. Its own comment says it returns the error code.
6. `DumpGlobalVars` draws a second random key when the first is taken but
   does not check it again (`config.py:421`), although its comment says the
   name must be unique for each instance. Two concurrent jobs can then share
   one `global.dat.<key>`; the first to read it removes it, and the other
   runs with its configuration-file values instead of the caller's.
7. `enqueue` throws away `qsub`'s exit status (`run_jobs.py:259`). A
   rejected submission is not reported, although every configuration the
   loop does not submit gets a "skipped" line, and the invocation ends as
   if the job were queued.

Two more defects of `regions.py` are in pure functions, where one unit test
shows them. No run checks them:
- The greedy regexes keep only the last digit of a cluster id, so
  `CheckRegions` accepts a simpoints file with cluster `{1}` against a weights
  file with `{11}`. `LastDigit` models the parse, and it is exercised by the
  ids `{0, 1, 11}` of the RegionCSV runs.
- The missing-block repair handles one gap but not two. `[0,3]` becomes
  `[0,1,3]`. `RepairSingleGap` checks the one-gap case.

## Not modelled, and why

- `regions.py` `GetOptions` (argument parsing and first-line shape checks)
  and `ProjectFVFile` (random floating-point projection; hazard: division by
  a zero `vector_sum`).
- The `options.list` dry run of the loop.
- Command strings, messages and file names.
- In `RegionLoop`, `RunAllDir` is abstracted to one step per stream; its
  own behaviour is checked in `RunAllDir.tla`.
- `RunAllDir` with `no_glob=False`, which no caller uses.
- Shared in/out file names for pinballs with the same basename; this needs
  the `RemoveTID` naming.
- `simpoint.py`'s option parsing and its unused `NormProjectBBV`; the list
  and debug modes, which only print commands.
- `replayer.py`, `kit.py`, `logger.py` and `brpred_replay_dir.py`:
  sequential drivers and option handling around external tools.
- In `config.py`, parameters other than `mode`. They take the same path,
  except `verbose` and `debug`: `SetGlobalVars` tests the module's
  `read_pickle_vars`, which is never set, because `ReadGlobalVars` sets
  `self.read_pickle_vars`. This slip has no effect. `ReadGlobalVars` has
  already copied a pickled `True` into `options`, so
  `verbose = options.verbose` keeps it. The only difference is a pickled
  `False` with `--verbose` on the command line, where the command line
  wins. No property would tell the two apart. Also not modelled: the
  required-parameter checks.
- `SaveCfgParameter` and `GetCfgParam` (writing a parameter back into a
  configuration file). `SaveCfgParameter` renames the file to `.bak` before
  it copies it back, so a crash between the two loses the file; it is a
  listed hazard without a run.
- The prediction-error phase (`GetPredictMetric`,
  `GetMeasurePredictMetric`, `CalcPredError` in `phases.py`): sequential
  arithmetic over the output files of a simulator kit that is not in the
  repository. It has no interleaving, retry or persistent state for TLC to
  explore. Its edge cases are each one input to a pure computation, which a
  unit test reaches directly.
- Leftover pickle files: `delete_all` removes `global.data.*`, but the files
  are named `global.dat.<key>`. The model starts with none.
- In the job-queue scripts: grid-engine reruns (`-r yes`), and the
  `tuple`-key and guard branches of `config_vary`. Neither script varies a
  tuple key. The encola script's guarded calls only derive
  `INSTR_COUNT_CLEAR_STATS` and `TRACE_SIZE_NAME` from `INSTR_COUNT`.
  Line 33 (`skip_set_file = None`) discards the skip-set file given as the
  sixth argument. The model keeps this as an empty `SkipSet`, and no
  property states what a skip file should do.
- The `test/fft-deptrace` utilities.

## Plan for later work

1. A `ConcurrencyScheduler` abstract specification (a bounded pool whose
   jobs each report their code once) and a refinement mapping from
   `RegionLoop`'s `proc`/`jobs`/`code`, checked as a PROPERTY.
2. Shared file names across per-thread pinballs, by modelling `RemoveTID`.
3. The driver that runs the SimPoint phase and then the region phase, so
   that a CSV file left by an earlier trace (the MPI_MT soft skip) can be
   followed into `GenAllRegionPinballs`. `SimPointPhase` already records
   each pinball's outcome for this.
