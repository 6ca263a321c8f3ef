------------------------------ MODULE GlobalVars ------------------------------
(***************************************************************************)
(* How a tracing parameter reaches a script that another script runs       *)
(* (config.py, classes GlobalVar and ConfigClass).  The calling script     *)
(* (the pinpoints.py process, whose Replay and RelogWhole run their job in *)
(* the foreground and BasicBlockVector and GenRegionPinballs in the        *)
(* background) pickles its globals to a file global.dat.<random key> for   *)
(* every job and passes the name with --global_file.  Each job (a          *)
(* replayer.py or logger.py process of its own) runs GetCfgGlobals: the   *)
(* tracing configuration files through one                                 *)
(* ConfigParser, then the pickle file, which it deletes, then its command  *)
(* line.  At its end the calling script deletes the files it dumped.       *)
(*                                                                         *)
(* One parameter is followed, the tracing mode (a string whose default is  *)
(* ''): Vals are its non-empty values.  A configuration file is "missing"  *)
(* (a --cfg name that does not exist), "absent" (the default or instance   *)
(* file, which may not exist), "nomode" (a [Parameters] section without    *)
(* mode) or the value it gives.  A pickle file's content is the calling    *)
(* script's mode, so a file is "none" or "dumped".                         *)
(***************************************************************************)
EXTENDS Integers, Sequences, SequencesExt

CONSTANTS
    Jobs,   \* the jobs the calling script starts, each with a pickle file
    Keys,   \* values of random.randint(0, 32728) in the file names
    Vals,   \* non-empty values of the mode parameter
    Foreground \* jobs RunCmd runs in the foreground (concurrent=False)

NoMode == "nomode"

ASSUME "" \notin Vals /\ NoMode \notin Vals /\ Foreground \subseteq Jobs

FileKinds == {"missing", "absent", NoMode} \cup Vals

VARIABLES
    callerMode, \* config.mode of the calling script, which it pickles
    saveGlobal, \* config.save_global (--save_global)
    files,      \* the global.dat.<key> files
    listed,     \* global_file_list of the calling script (their keys)
    cleaned,    \* the calling script has run RmGlobalFiles
    cfgList,    \* each job's options.config_file, then its instance file
    cmd,        \* each job's --mode option ('' when not given)
    jpc,        \* each job's step
    key,        \* the key of the pickle file made for each job
    i,          \* each job's index in cfgList
    parser,     \* each job's ConfigParser: the mode it holds, or NoMode
    mode,       \* each job's config.mode
    opt,        \* each job's options.mode
    readPickle  \* each job found its pickle file

vars == <<callerMode, saveGlobal, files, listed, cleaned, cfgList, cmd, jpc,
          key, i, parser, mode, opt, readPickle>>

jobVars == <<jpc, key, i, parser, mode, opt, readPickle>>

TypeOK ==
    /\ callerMode \in Vals \cup {""}
    /\ saveGlobal \in BOOLEAN
    /\ files \in [Keys -> {"none", "dumped"}]
    /\ listed \subseteq Keys
    /\ cleaned \in BOOLEAN
    /\ cfgList \in [Jobs -> Seq(FileKinds)]
    /\ cmd \in [Jobs -> Vals \cup {""}]
    /\ jpc \in [Jobs -> {"idle", "dumped", "cfg", "read", "load", "remove", "set", "done", "exit"}]
    /\ key \in [Jobs -> Keys]
    /\ i \in [Jobs -> Nat]
    /\ parser \in [Jobs -> Vals \cup {NoMode}]
    /\ mode \in [Jobs -> Vals \cup {""}]
    /\ opt \in [Jobs -> Vals \cup {""}]
    /\ readPickle \in [Jobs -> BOOLEAN]

(* The module globals: no pickle file, mode '' and an empty file list.    *)
(* A job's cfg list is one --cfg file, then its instance file, whose      *)
(* absence GetCfgFile accepts.                                            *)
Init ==
    /\ callerMode \in Vals \cup {""}
    /\ saveGlobal \in BOOLEAN
    /\ files = [k \in Keys |-> "none"]
    /\ listed = {}
    /\ cleaned = FALSE
    /\ cfgList \in [Jobs -> {<<a, b>> : a \in FileKinds,
                                        b \in FileKinds \ {"missing"}}]
    /\ cmd \in [Jobs -> Vals \cup {""}]
    /\ jpc = [j \in Jobs |-> "idle"]
    /\ key = [j \in Jobs |-> CHOOSE k \in Keys : TRUE]
    /\ i = [j \in Jobs |-> 1]
    /\ parser = [j \in Jobs |-> NoMode]
    /\ mode = [j \in Jobs |-> ""]
    /\ opt = cmd
    /\ readPickle = [j \in Jobs |-> FALSE]

(* Variant of ParseCfgFile that takes the parser's lookup as it is.       *)
ParseCfgFileRaw(p) == p

(* ParseCfgFile: mode = GetVarStr(section, 'mode'), read from everything  *)
(* the parser has read so far, '' when no file gave it.                   *)
ParseCfgFile(p) == IF p \in Vals THEN p ELSE ""

(* The calling script is inside RunCmd: it has dumped a job's file and    *)
(* not yet started it, or it waits for a job run in the foreground, as    *)
(* Replay and RelogWhole do.                                              *)
CallerBusy ==
    \E f \in Jobs :
        \/ jpc[f] = "dumped"
        \/ f \in Foreground /\ jpc[f] \notin {"idle", "done", "exit"}

(* Variant of DumpGlobalVars that does not add the file to the list.      *)
DumpGlobalVarsUnlisted(j) ==
    /\ jpc[j] = "idle"
    /\ ~CallerBusy
    /\ \E k1 \in Keys :
         \E k \in IF files[k1] = "none" THEN {k1} ELSE Keys :
           /\ key' = [key EXCEPT ![j] = k]
           /\ files' = [files EXCEPT ![k] = "dumped"]
           /\ UNCHANGED listed
    /\ jpc' = [jpc EXCEPT ![j] = "dumped"]
    /\ UNCHANGED <<callerMode, saveGlobal, cleaned, cfgList, cmd, i, parser,
                   mode, opt, readPickle>>

(* DumpGlobalVars, called while the calling script builds the job's       *)
(* command: a random key, and a second one if global.dat.<key> exists      *)
(* (that one is not checked); the file is opened 'wb+', added to          *)
(* global_file_list and the globals are pickled into it.  RunCmd then     *)
(* starts the job.                                                        *)
DumpGlobalVars(j) ==
    /\ jpc[j] = "idle"
    /\ ~CallerBusy
    /\ \E k1 \in Keys :
         \E k \in IF files[k1] = "none" THEN {k1} ELSE Keys :
           /\ key' = [key EXCEPT ![j] = k]
           /\ files' = [files EXCEPT ![k] = "dumped"]
           /\ listed' = listed \cup {k}
    /\ jpc' = [jpc EXCEPT ![j] = "dumped"]
    /\ UNCHANGED <<callerMode, saveGlobal, cleaned, cfgList, cmd, i, parser,
                   mode, opt, readPickle>>

(* RunCmd starts the job with --global_file and the calling script's cfg  *)
(* files, as BasicBlockVector does (in the background).                   *)
StartJob(j) ==
    /\ jpc[j] = "dumped"
    /\ jpc' = [jpc EXCEPT ![j] = "cfg"]
    /\ UNCHANGED <<callerMode, saveGlobal, files, listed, cleaned, cfgList, cmd,
                   key, i, parser, mode, opt, readPickle>>

(* Variant of GetCfgFile with a parser that forgets the files before.     *)
GetCfgFileFreshParser(j) ==
    /\ jpc[j] = "cfg"
    /\ i[j] <= Len(cfgList[j])
    /\ LET f == cfgList[j][i[j]] IN
         IF f = "missing"
           THEN /\ jpc' = [jpc EXCEPT ![j] = "exit"]
                /\ UNCHANGED <<i, parser, mode>>
           ELSE /\ i' = [i EXCEPT ![j] = i[j] + 1]
                /\ IF f = "absent"
                     THEN UNCHANGED <<parser, mode>>
                     ELSE /\ parser' = [parser EXCEPT ![j] = f]
                          /\ mode' = [mode EXCEPT ![j] = ParseCfgFile(f)]
                /\ UNCHANGED jpc
    /\ UNCHANGED <<callerMode, saveGlobal, files, listed, cleaned, cfgList, cmd,
                   key, opt, readPickle>>

(* GetCfgGlobals reads the files one by one with GetCfgFile: a --cfg file *)
(* that does not exist ends the job (PrintAndExit); an absent default or  *)
(* instance file is passed over; otherwise the class-wide parser reads it *)
(* on top of the files before, and ParseCfgFile sets config.mode.         *)
GetCfgFile(j) ==
    /\ jpc[j] = "cfg"
    /\ i[j] <= Len(cfgList[j])
    /\ LET f == cfgList[j][i[j]] IN
         IF f = "missing"
           THEN /\ jpc' = [jpc EXCEPT ![j] = "exit"]
                /\ UNCHANGED <<i, parser, mode>>
           ELSE /\ i' = [i EXCEPT ![j] = i[j] + 1]
                /\ IF f = "absent"
                     THEN UNCHANGED <<parser, mode>>
                     ELSE LET p == IF f \in Vals THEN f ELSE parser[j] IN
                            /\ parser' = [parser EXCEPT ![j] = p]
                            /\ mode' = [mode EXCEPT ![j] = ParseCfgFile(p)]
                /\ UNCHANGED jpc
    /\ UNCHANGED <<callerMode, saveGlobal, files, listed, cleaned, cfgList, cmd,
                   key, opt, readPickle>>

(* The configuration files are read: GetCfgGlobals goes on with the       *)
(* pickle file.                                                            *)
CfgFilesRead(j) ==
    /\ jpc[j] = "cfg"
    /\ i[j] > Len(cfgList[j])
    /\ jpc' = [jpc EXCEPT ![j] = "read"]
    /\ UNCHANGED <<callerMode, saveGlobal, files, listed, cleaned, cfgList, cmd,
                   key, i, parser, mode, opt, readPickle>>

(* Variant of CopyToOptions that leaves the options object alone.         *)
CopyToOptionsNever(j, m) == UNCHANGED opt

(* The end of ReadGlobalVars: a value still at its default in options is  *)
(* set from config when config's is not the default.                      *)
CopyToOptions(j, m) ==
    opt' = [opt EXCEPT ![j] = IF opt[j] = "" /\ m /= "" THEN m ELSE opt[j]]

(* ReadGlobalVars with options.global_file: os.path.isfile decides        *)
(* whether the pickle file is read at all.                                *)
ReadGlobalVars(j) ==
    /\ jpc[j] = "read"
    /\ IF files[key[j]] = "dumped"
         THEN /\ jpc' = [jpc EXCEPT ![j] = "load"]
              /\ UNCHANGED opt
         ELSE /\ jpc' = [jpc EXCEPT ![j] = "set"]
              /\ CopyToOptions(j, mode[j])
    /\ UNCHANGED <<callerMode, saveGlobal, files, listed, cleaned, cfgList, cmd,
                   key, i, parser, mode, readPickle>>

(* open() of the pickle file, which PrintAndExit ends when the file has   *)
(* gone since isfile; the pickled globals replace what the configuration *)
(* files gave.  With save_global the file stays.                          *)
LoadPickle(j) ==
    /\ jpc[j] = "load"
    /\ IF files[key[j]] = "none"
         THEN /\ jpc' = [jpc EXCEPT ![j] = "exit"]
              /\ UNCHANGED <<mode, opt, readPickle>>
         ELSE /\ mode' = [mode EXCEPT ![j] = callerMode]
              /\ readPickle' = [readPickle EXCEPT ![j] = TRUE]
              /\ IF saveGlobal
                   THEN jpc' = [jpc EXCEPT ![j] = "set"] /\ CopyToOptions(j, callerMode)
                   ELSE jpc' = [jpc EXCEPT ![j] = "remove"] /\ UNCHANGED opt
    /\ UNCHANGED <<callerMode, saveGlobal, files, listed, cleaned, cfgList, cmd,
                   key, i, parser>>

(* os.remove(pickle_f), which raises OSError, uncaught, when another      *)
(* process has removed the file in the meantime.                          *)
RemovePickle(j) ==
    /\ jpc[j] = "remove"
    /\ IF files[key[j]] = "none"
         THEN /\ jpc' = [jpc EXCEPT ![j] = "exit"]
              /\ UNCHANGED <<files, opt>>
         ELSE /\ files' = [files EXCEPT ![key[j]] = "none"]
              /\ jpc' = [jpc EXCEPT ![j] = "set"]
              /\ CopyToOptions(j, mode[j])
    /\ UNCHANGED <<callerMode, saveGlobal, listed, cleaned, cfgList, cmd, key,
                   i, parser, mode, readPickle>>

(* SetGlobalVars: an option given on the command line overrides config.   *)
SetGlobalVars(j) ==
    /\ jpc[j] = "set"
    /\ mode' = [mode EXCEPT ![j] = IF opt[j] /= "" THEN opt[j] ELSE mode[j]]
    /\ jpc' = [jpc EXCEPT ![j] = "done"]
    /\ UNCHANGED <<callerMode, saveGlobal, files, listed, cleaned, cfgList, cmd,
                   key, i, parser, opt, readPickle>>

(* RmGlobalFiles, from util.CleanupTraceEnd once the calling script has   *)
(* waited for its jobs: unless save_global (or --list), every file of     *)
(* global_file_list that still exists is removed.                         *)
RmGlobalFiles ==
    /\ ~cleaned
    /\ \A j \in Jobs : jpc[j] \in {"done", "exit"}
    /\ files' = IF saveGlobal THEN files
                ELSE [k \in Keys |-> IF k \in listed THEN "none" ELSE files[k]]
    /\ cleaned' = TRUE
    /\ UNCHANGED <<callerMode, saveGlobal, listed, cfgList, cmd, jobVars>>

Terminated == cleaned /\ UNCHANGED vars

Next ==
    \/ \E j \in Jobs : DumpGlobalVars(j) \/ StartJob(j) \/ GetCfgFile(j)
                       \/ CfgFilesRead(j)
                       \/ ReadGlobalVars(j) \/ LoadPickle(j) \/ RemovePickle(j)
                       \/ SetGlobalVars(j)
    \/ RmGlobalFiles
    \/ Terminated

Spec == Init /\ [][Next]_vars /\ WF_vars(Next)

-----------------------------------------------------------------------------
(* The last configuration file of the list that gives a mode.             *)
LastSet(s) ==
    LET n == SelectLastInSeq(s, LAMBDA f : f \in Vals)
    IN IF n = 0 THEN "" ELSE s[n]

(* GetCfgGlobals: the command line has the highest precedence, then the   *)
(* globals pickled by the calling script, then the configuration files,   *)
(* the later over the earlier (a file without the parameter does not      *)
(* clear it).  A job that found its pickle file ends with the calling     *)
(* script's mode unless it was given --mode.                              *)
Precedence ==
    \A j \in Jobs : jpc[j] = "done" =>
        mode[j] = IF cmd[j] /= "" THEN cmd[j]
                  ELSE IF readPickle[j] THEN callerMode
                  ELSE LastSet(cfgList[j])

(* "some locations in the code use the config object and others use the  *)
(* options object": once GetCfgGlobals returns, the two agree.            *)
OptionsAgree ==
    \A j \in Jobs : jpc[j] = "done" => opt[j] = mode[j]

(* RmGlobalFiles: once the calling script has cleaned up without          *)
(* save_global, no global.dat.<key> file is left behind, including the    *)
(* files of jobs that exited before reading theirs.                       *)
NoGlobalFileLeft ==
    (cleaned /\ ~saveGlobal) => \A k \in Keys : files[k] = "none"


(* DumpGlobalVars: "because some scripts are run concurrently, the pickle *)
(* file name must be unique for each instance" (config.py:399-401).  Every *)
(* job that runs to its end has read the globals the calling script        *)
(* pickled for it, not fallen back to its configuration files because     *)
(* another job read and removed a file of the same name first.            *)
NoJobLosesItsGlobals ==
    \A j \in Jobs : jpc[j] = "done" => readPickle[j]

=============================================================================
