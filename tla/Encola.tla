-------------------------------- MODULE Encola --------------------------------
(***************************************************************************)
(* The job-queue scripts src/run_jobs.py and                               *)
(* src/2019-08-12-encola-sniper-speccpu17.py ("encola.py OUTS_DIR_BASE ID  *)
(* MIN_SEED MAX_SEED").  An invocation builds its list of configurations  *)
(* with config_vary, drops duplicates, refuses two configurations with    *)
(* the same output name, and then, for each configuration, submits a Sun  *)
(* Grid Engine job with qsub (or writes a test script when                *)
(* ENCOLA_JUST_TEST=1), skipping those whose <out>.stderr already exists. *)
(* The grid engine creates <out>.stderr when it starts the job.  The user *)
(* may interrupt an invocation and run the script again.                  *)
(*                                                                         *)
(* The two scripts differ in their output name: run_jobs.py uses          *)
(* benchmark, thread count and seed, the encola script benchmark and      *)
(* trace size only.  A configuration is a record of its seed, benchmark   *)
(* and third varied parameter (NUM_THREADS, or INSTR_COUNT, which fixes   *)
(* INSTR_COUNT_CLEAR_STATS and TRACE_SIZE_NAME); the benchmark paths,     *)
(* simulator options and the job script's text are left out.              *)
(*                                                                         *)
(* Failures covered: an invocation that raises, an invocation interrupted *)
(* between two configurations, qsub rejecting a submission (when          *)
(* QsubMayFail), jobs that start and end at any time.  Not covered:       *)
(* grid-engine reruns (-r yes).                                           *)
(***************************************************************************)
EXTENDS Integers, Sequences, SequencesExt

CONSTANTS
    Scripts,     \* subset of {"run_jobs", "encola"}
    Benchs,      \* the BENCHMARK list, a sequence (it may repeat a name)
    Vars,        \* the NUM_THREADS or INSTR_COUNT list, a sequence
    SeedRanges,  \* <<MIN_SEED, MAX_SEED>> pairs the user may pass
    MaxRuns,     \* bound on the number of invocations
    QsubMayFail  \* whether qsub may exit non-zero without queueing the job

ASSUME Scripts \subseteq {"run_jobs", "encola"} /\ MaxRuns \in Nat /\ QsubMayFail \in BOOLEAN

BaseVar == 0   \* NUM_THREADS (1) or INSTR_COUNT of base_config

VARIABLES
    script,   \* which of the two scripts the user runs
    runs,     \* invocations started so far
    pc,       \* "off" (no invocation running) or "loop" (the enqueue loop)
    outcome,  \* how the last invocation ended
    justTest, \* ENCOLA_JUST_TEST of the running invocation
    configs,  \* the configs list of the last invocation
    idx,      \* the loop's position in configs
    stderrF,  \* output names whose <out>.stderr exists
    subs,     \* every qsub submission: output name, state, invocation; a
              \* submission qsub rejected stays "rejected"
    startedAt,\* for each submission, how many submissions existed when it started
    scripts   \* output names a test script was written for

vars == <<script, runs, pc, outcome, justTest, configs, idx, stderrF, subs,
          startedAt, scripts>>

Seeds == {0} \cup UNION {r[1]..r[2] : r \in SeedRanges}

Config == [seed : Seeds, bench : ToSet(Benchs) \cup {""}, var : ToSet(Vars) \cup {BaseVar}]

(* run_jobs.py out_file: "%s-p%d_%d" % (BENCHMARK, NUM_THREADS, seed).      *)
RunJobsOutFile(c) == <<c.bench, c.var, c.seed>>

(* encola out_file: "%s_%s" % (BENCHMARK, TRACE_SIZE_NAME); the seed is not *)
(* part of the name.                                                       *)
EncolaOutFile(c) == <<c.bench, c.var>>

OutFile(c) == IF script = "run_jobs" THEN RunJobsOutFile(c) ELSE EncolaOutFile(c)

(* config_vary(base, key, values) for a list base (the guard is always     *)
(* true where the scripts vary a key of every configuration): each        *)
(* configuration, in order, is copied once per value with key set to it.  *)
ConfigVary(base, key, values) ==
    FlattenSeq([b \in DOMAIN base |->
                  [v \in DOMAIN values |-> [base[b] EXCEPT ![key] = values[v]]]])

(* remove_duplicates: the first occurrence of each configuration, in order. *)
RemoveDuplicates(l) ==
    FoldLeft(LAMBDA r, c : IF Contains(r, c) THEN r ELSE Append(r, c), <<>>, l)

(* Variant of Configs whose seed range runs one past MAX_SEED.           *)
ConfigsPastMax(lo, hi) ==
    LET base == <<[seed |-> 0, bench |-> "", var |-> BaseVar]>>
        seeds == [n \in 1..(hi - lo + 2) |-> lo + n - 1]
    IN RemoveDuplicates(ConfigVary(ConfigVary(ConfigVary(base, "seed", seeds),
                                              "bench", Benchs), "var", Vars))

(* The configurations the script enqueues for seeds min_seed..max_seed.    *)
Configs(lo, hi) ==
    LET base == <<[seed |-> 0, bench |-> "", var |-> BaseVar]>>
        seeds == [n \in 1..(hi - lo + 1) |-> lo + n - 1]
    IN RemoveDuplicates(ConfigVary(ConfigVary(ConfigVary(base, "seed", seeds),
                                              "bench", Benchs), "var", Vars))

(* Variant of CheckDuplicateOutputFiles that accepts every list.           *)
CheckDuplicateOutputFilesNever(l) == TRUE

(* check_duplicate_output_files: no two configurations share out_file.     *)
CheckDuplicateOutputFiles(l) ==
    \A a, b \in DOMAIN l : OutFile(l[a]) = OutFile(l[b]) => l[a] = l[b]

(* skip_set: skip_set_file is set to None after the arguments are read, so *)
(* the file named by a sixth argument is never opened and the set is empty. *)
SkipSet == {}

(* The argument counts the module code accepts: len(argv) 3 (seeds 0..0), *)
(* 5 or 6; fewer than 3, 4 and more than 6 raise.                           *)
ArgsAccepted(argc) == argc \in {3, 5, 6}

(* The module code up to the enqueue loop: the argument count, the        *)
(* OUTS_DIR_BASE check, ENCOLA_JUST_TEST and                               *)
(* check_duplicate_output_files.                                          *)
Invoke ==
    /\ pc = "off"
    /\ runs < MaxRuns
    /\ runs' = runs + 1
    /\ \E argc \in 2..7, r \in SeedRanges, dirOk, jt \in BOOLEAN :
         LET lo == IF argc = 3 THEN 0 ELSE r[1]
             hi == IF argc = 3 THEN 0 ELSE r[2]
             l == Configs(lo, hi)
         IN IF ArgsAccepted(argc) /\ dirOk /\ CheckDuplicateOutputFiles(l)
              THEN /\ pc' = "loop"
                   /\ configs' = l
                   /\ idx' = 1
                   /\ justTest' = jt
                   /\ outcome' = "running"
              ELSE /\ outcome' = "raised"
                   /\ configs' = IF ArgsAccepted(argc) /\ dirOk THEN l ELSE <<>>
                   /\ UNCHANGED <<pc, idx, justTest>>
    /\ UNCHANGED <<script, stderrF, subs, startedAt, scripts>>

(* What p.wait() leaves behind: the job is queued, or qsub exited non-zero *)
(* and nothing was queued; the status is not looked at either way.        *)
QsubStates == IF QsubMayFail THEN {"queued", "rejected"} ELSE {"queued"}

(* Variant of Enqueue that submits without looking for <out>.stderr.       *)
EnqueueNoCheck ==
    /\ pc = "loop"
    /\ idx <= Len(configs)
    /\ LET of == OutFile(configs[idx]) IN
         IF justTest
           THEN /\ scripts' = scripts \cup {of}
                /\ UNCHANGED <<subs, startedAt>>
           ELSE /\ \E st \in QsubStates :
                     subs' = Append(subs, [out |-> of, state |-> st, run |-> runs])
                /\ startedAt' = Append(startedAt, 0)
                /\ UNCHANGED scripts
    /\ idx' = idx + 1
    /\ UNCHANGED <<script, runs, pc, outcome, justTest, configs, stderrF>>

(* enqueue(config): skipped when <out>.stderr exists (or the name is in   *)
(* skip_set); otherwise qsub -N <id><out> -e <out>.stderr *)
(* reads the job script from its stdin, or, under just_test, the script   *)
(* goes to a mkstemp file.  The exit status of qsub (p.wait()) is not     *)
(* looked at.                                                             *)
Enqueue ==
    /\ pc = "loop"
    /\ idx <= Len(configs)
    /\ LET of == OutFile(configs[idx]) IN
         IF of \in stderrF \/ of \in SkipSet
           THEN UNCHANGED <<subs, startedAt, scripts>>
           ELSE IF justTest
             THEN /\ scripts' = scripts \cup {of}
                  /\ UNCHANGED <<subs, startedAt>>
             ELSE /\ \E st \in QsubStates :
                       subs' = Append(subs, [out |-> of, state |-> st, run |-> runs])
                  /\ startedAt' = Append(startedAt, 0)
                  /\ UNCHANGED scripts
    /\ idx' = idx + 1
    /\ UNCHANGED <<script, runs, pc, outcome, justTest, configs, stderrF>>

(* The for loop over configs ends and the script exits.                    *)
Finish ==
    /\ pc = "loop"
    /\ idx > Len(configs)
    /\ pc' = "off"
    /\ outcome' = "done"
    /\ UNCHANGED <<script, runs, justTest, configs, idx, stderrF, subs,
                   startedAt, scripts>>

(* The user interrupts the script between two calls of enqueue.            *)
Interrupt ==
    /\ pc = "loop"
    /\ idx <= Len(configs)
    /\ pc' = "off"
    /\ outcome' = "crashed"
    /\ UNCHANGED <<script, runs, justTest, configs, idx, stderrF, subs,
                   startedAt, scripts>>

(* The grid engine starts a queued job and opens its -e and -o files.      *)
JobStart(k) ==
    /\ subs[k].state = "queued"
    /\ subs' = [subs EXCEPT ![k].state = "running"]
    /\ startedAt' = [startedAt EXCEPT ![k] = Len(subs)]
    /\ stderrF' = stderrF \cup {subs[k].out}
    /\ UNCHANGED <<script, runs, pc, outcome, justTest, configs, idx, scripts>>

(* The job's simulation ends.                                              *)
JobEnd(k) ==
    /\ subs[k].state = "running"
    /\ subs' = [subs EXCEPT ![k].state = "done"]
    /\ UNCHANGED <<script, runs, pc, outcome, justTest, configs, idx, stderrF,
                   startedAt, scripts>>

(* A job the grid engine accepted is queued, running or done.             *)
Live(k) == subs[k].state \in {"queued", "running"}

(* No invocation is left to run and every job has ended.                   *)
Terminated ==
    /\ pc = "off"
    /\ runs = MaxRuns
    /\ \A k \in DOMAIN subs : ~Live(k)
    /\ UNCHANGED vars

Init ==
    /\ script \in Scripts
    /\ runs = 0
    /\ pc = "off"
    /\ outcome = "none"
    /\ justTest = FALSE
    /\ configs = <<>>
    /\ idx = 1
    /\ stderrF = {}
    /\ subs = <<>>
    /\ startedAt = <<>>
    /\ scripts = {}

Next ==
    \/ Invoke
    \/ Enqueue
    \/ Finish
    \/ Interrupt
    \/ \E k \in DOMAIN subs : JobStart(k)
    \/ \E k \in DOMAIN subs : JobEnd(k)
    \/ Terminated

(* The script's own steps run to completion once started; the grid engine *)
(* eventually starts and ends every queued job.  Starting an invocation   *)
(* is up to the user and has no fairness.                                 *)
Fairness ==
    /\ WF_vars(Enqueue \/ Finish)
    /\ WF_vars(\E k \in DOMAIN subs : JobStart(k))
    /\ WF_vars(\E k \in DOMAIN subs : JobEnd(k))

Spec == Init /\ [][Next]_vars /\ Fairness
------------------------------------------------------------------------------
Outs == {OutFile(c) : c \in Config}

TypeOK ==
    /\ script \in Scripts
    /\ runs \in 0..MaxRuns
    /\ pc \in {"off", "loop"}
    /\ outcome \in {"none", "running", "raised", "crashed", "done"}
    /\ justTest \in BOOLEAN
    /\ configs \in Seq(Config)
    /\ idx \in Nat \ {0}
    /\ stderrF \subseteq Outs
    /\ subs \in Seq([out : Outs, state : {"queued", "rejected", "running", "done"}, run : 1..MaxRuns])
    /\ startedAt \in Seq(Nat) /\ Len(startedAt) = Len(subs)
    /\ scripts \subseteq Outs

(* One invocation never submits two jobs that write the same output       *)
(* directory: config_vary, remove_duplicates and                          *)
(* check_duplicate_output_files before the loop, for either out_file.     *)
NoDuplicateOutInRun ==
    \A a, b \in DOMAIN subs :
        a /= b /\ subs[a].run = subs[b].run => subs[a].out /= subs[b].out

(* Once the grid engine has started a job, no later invocation submits     *)
(* another job with its output name: enqueue's .stderr check against the  *)
(* file the started job created.                                          *)
NoResubmitAfterStart ==
    \A a, b \in DOMAIN subs :
        a < b /\ subs[a].out = subs[b].out /\ subs[a].state \in {"running", "done"}
          => b <= startedAt[a]

(* No two jobs with the same output name are waiting or running at once.   *)
AtMostOneLiveJob ==
    \A a, b \in DOMAIN subs :
        a /= b /\ subs[a].out = subs[b].out => ~(Live(a) /\ Live(b))

(* What a user reads from an invocation that ends without an exception:  *)
(* enqueue printed "skipped" for every configuration it did not submit,  *)
(* so every other configuration now has a job in the grid engine (or a   *)
(* test script).  qsub's exit status is thrown away after p.wait(), so a *)
(* rejected submission leaves a configuration with neither.              *)
EveryConfigQueued ==
    outcome = "done" =>
        \A n \in DOMAIN configs :
            LET of == OutFile(configs[n]) IN
              \/ of \in stderrF \cup scripts
              \/ \E k \in DOMAIN subs : subs[k].out = of /\ subs[k].state /= "rejected"
==============================================================================
