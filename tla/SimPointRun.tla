----------------------------- MODULE SimPointRun -----------------------------
(***************************************************************************)
(* phases.RunSimPoint for one whole-program pinball, and the simpoint.py   *)
(* process it runs in the foreground: copy the BBV file to t.bb, run       *)
(* SimPoint (writing t.simpoints and t.weights), then regions.py with its  *)
(* stdout redirected into the regions CSV file.  util.CheckResult ends     *)
(* simpoint.py with exit code -1 after a failed step, and RunSimPoint      *)
(* scans simpoint.py's output for "ERROR".                                 *)
(*                                                                         *)
(* A file's content is abstracted to the version of the BBV file it was    *)
(* computed from: Cur for the trace being processed, Old for a trace whose *)
(* files an earlier run left in the *.Data directory, None for no file.    *)
(***************************************************************************)
EXTENDS Integers

CONSTANTS Cur, Old, None

Versions == {Cur, Old}

VARIABLES
    dataDir,  \* the <basename>.Data directory exists
    bbv,      \* the .T.<tid>.bb file: Cur, or None when it is missing
    mpiMT,    \* options.mode is MPI_MT_MODE
    tbb,      \* t.bb, the generic copy simpoint.py makes of the BBV file
    simp,     \* t.simpoints and t.weights
    csv,      \* <basename>.pinpoints.csv: [st, bbv, simp]
    pc,       \* step of RunSimPoint and of simpoint.py
    code,     \* the exit code of simpoint.py
    ret,      \* what RunSimPoint returns
    wrote     \* history: this run has redirected regions.py into the CSV

vars == <<dataDir, bbv, mpiMT, tbb, simp, csv, pc, code, ret, wrote>>

CsvFiles == [st : {"none", "partial", "complete"},
             bbv : Versions \cup {None}, simp : Versions \cup {None}]

(* The files RunSimPoint finds for a pinball: its *.Data directory and    *)
(* BBV file, and what an earlier run left in that directory.              *)
DataFiles ==
    [dataDir : BOOLEAN, bbv : {Cur, None}, tbb : {Old, None}, simp : {Old, None},
     csv : {c \in CsvFiles : c.st = "none" <=> c.bbv = None}]

Init ==
    /\ \E f \in DataFiles :
         dataDir = f.dataDir /\ bbv = f.bbv /\ tbb = f.tbb /\ simp = f.simp /\ csv = f.csv
    /\ mpiMT \in BOOLEAN
    /\ pc = "start"
    /\ code = 0
    /\ ret = 0
    /\ wrote = FALSE

(* util.CheckResult: a failed phase ends the script with sys.exit(-1).    *)
CheckResult(r, next) ==
    IF r /= 0 THEN pc' = "scan" /\ code' = -1
              ELSE pc' = next /\ UNCHANGED code

(* RunSimPoint up to the Popen: the *.Data directory and the BBV file are *)
(* checked first.  A missing BBV file is not an error in MPI_MT mode.     *)
RunSimPointStart ==
    /\ pc = "start"
    /\ CASE ~dataDir     -> pc' = "done" /\ ret' = -1
         [] bbv = None   -> pc' = "done" /\ ret' = IF mpiMT THEN 0 ELSE 1
         [] OTHER        -> pc' = "copy" /\ UNCHANGED ret
    /\ UNCHANGED <<dataDir, bbv, mpiMT, tbb, simp, csv, code, wrote>>

(* simpoint.py ParseCommandLine: PrintAndExit unless the data directory  *)
(* and the BBV file exist, which RunSimPoint has checked just before.     *)
ParseCommandLine == dataDir /\ bbv /= None

(* simpoint.py Run: the SimPoint binary and regions.py must be on the     *)
(* path (PrintAndExit otherwise), then t.bb is replaced by a copy of the  *)
(* BBV file, and the run stops if its slice size exceeds its instruction *)
(* count.                                                                 *)
CopyBBV ==
    /\ pc = "copy"
    /\ \E toolsFound, sizeOK \in BOOLEAN :
         IF ~ParseCommandLine \/ ~toolsFound
           THEN pc' = "scan" /\ code' = -1 /\ UNCHANGED tbb
           ELSE /\ tbb' = bbv
                /\ IF sizeOK THEN pc' = "simpoint" /\ UNCHANGED code
                             ELSE pc' = "scan" /\ code' = -1
    /\ UNCHANGED <<dataDir, bbv, mpiMT, simp, csv, ret, wrote>>

(* RunSimpoint: SimPoint clusters t.bb and saves t.simpoints and          *)
(* t.weights; when it fails, the files of an earlier run stay.            *)
RunSimpoint ==
    /\ pc = "simpoint"
    /\ \E r \in {0, 1} :
         /\ simp' = IF r = 0 THEN tbb ELSE simp
         /\ CheckResult(r, "regions")
    /\ UNCHANGED <<dataDir, bbv, mpiMT, tbb, csv, ret, wrote>>

(* Variant of GenRegionCSVFile whose result is not checked.              *)
GenRegionCSVFileUnchecked ==
    /\ pc = "regions"
    /\ \E ok \in BOOLEAN :
         /\ ok => simp /= None
         /\ csv' = [st |-> IF ok THEN "complete" ELSE "partial",
                    bbv |-> tbb, simp |-> simp]
         /\ CheckResult(0, "scan")
    /\ wrote' = TRUE
    /\ UNCHANGED <<dataDir, bbv, mpiMT, tbb, simp, ret>>

(* GenRegionCSVFile: the shell redirect truncates the regions CSV file    *)
(* before regions.py runs, which then prints all the descriptors, or     *)
(* fails (missing simpoints file, CheckRegions, IndexError) after        *)
(* printing a part of them.                                               *)
GenRegionCSVFile ==
    /\ pc = "regions"
    /\ \E ok \in BOOLEAN :
         /\ ok => simp /= None
         /\ csv' = [st |-> IF ok THEN "complete" ELSE "partial",
                    bbv |-> tbb, simp |-> simp]
         /\ CheckResult(IF ok THEN 0 ELSE 1, "scan")
    /\ wrote' = TRUE
    /\ UNCHANGED <<dataDir, bbv, mpiMT, tbb, simp, ret>>

(* RunSimPoint after communicate(): the exit code is the result, and -1   *)
(* if the output has a line with "ERROR", which CheckResult prints.       *)
RunSimPointScan ==
    /\ pc = "scan"
    /\ ret' = IF code /= 0 THEN -1 ELSE code
    /\ pc' = "done"
    /\ UNCHANGED <<dataDir, bbv, mpiMT, tbb, simp, csv, code, wrote>>

Returned == pc = "done" /\ UNCHANGED vars

Next == RunSimPointStart \/ CopyBBV \/ RunSimpoint \/ GenRegionCSVFile
        \/ RunSimPointScan \/ Returned

Spec == Init /\ [][Next]_vars /\ WF_vars(Next)

-----------------------------------------------------------------------------
(* RunSimPoint returns 0 only if the regions CSV file is complete and was *)
(* computed, through t.bb and t.simpoints, from this trace's BBV file, or *)
(* if the BBV file is missing in MPI_MT mode (spec 7: a missing optional  *)
(* per-thread input is a soft skip).                                      *)
SuccessMeansCurrentCSV ==
    (pc = "done" /\ ret = 0) =>
        \/ csv = [st |-> "complete", bbv |-> Cur, simp |-> Cur]
        \/ bbv = None /\ mpiMT

=============================================================================
