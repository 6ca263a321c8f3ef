------------------------------ MODULE RunAllDir ------------------------------
(***************************************************************************)
(* util.RunAllDir(dir_string, method, no_glob=True, param) and its         *)
(* os.path.walk callback walk_callback: run a method on every pinball of a *)
(* directory tree, in decreasing order of icount, and report an error.     *)
(*                                                                         *)
(* os.path.walk calls walk_callback once per directory, the top directory  *)
(* first and then its subdirectories in listdir order.  The callback       *)
(* returns nothing, so the result travels in the global _util_result.      *)
(* Pinballs are model values; a pinball's icount is what GetMaxIcount      *)
(* computes from the inscount of its per-thread result files.             *)
(***************************************************************************)
EXTENDS Integers, Sequences, SequencesExt, FiniteSets

CONSTANTS
    Pinballs,   \* the pinballs (".address" files) of the tree
    Dirs,       \* the directories of the tree
    Top,        \* dir_string, the directory RunAllDir walks
    Icounts,    \* inscount values of a thread's result file
    MaxThreads, \* bound on the result files of one pinball
    Results     \* values the method can return

ASSUME Top \in Dirs /\ 0 \in Results /\ Icounts \subseteq Nat /\ MaxThreads \in Nat

NotFound == -1   \* FindResultString found no 'inscount:' in the file

(* The result files glob.glob finds for a pinball, in glob order: the     *)
(* inscount of each, or NotFound.                                          *)
ResultFiles == UNION {[1..n -> Icounts \cup {NotFound}] : n \in 0..MaxThreads}

VARIABLES
    order,      \* the order in which os.path.walk visits the directories
    loc,        \* the directory of each pinball
    results,    \* the result files of each pinball
    icount,     \* GetMaxIcount of each pinball
    filtered,   \* pinballs whose name contains options.replay_filter
    pc,         \* "walk" between callbacks, "callback" inside one, "method"
                \* during a method call, "done"
    w,          \* index in order of the directory being visited
    queue,      \* sorted_list: pinballs the callback has still to look at
    utilResult, \* the global _util_result
    calls,      \* history: the method calls made, with their results
    aborted,    \* history: directories left because an icount was 0
    ret         \* what RunAllDir returns

vars == <<order, loc, results, icount, filtered, pc, w, queue, utilResult, calls,
          aborted, ret>>

Dir == order[w]

FilesIn(d) == {p \in Pinballs : loc[p] = d}

(* decor.sort(reverse=True): the pinballs of d from the highest icount to *)
(* the lowest; ties are ordered by name, which the model leaves open.     *)
SortedLists(d) ==
    {q \in SetToSeqs(FilesIn(d)) :
        \A i, j \in 1..Len(q) : i < j => icount[q[i]] >= icount[q[j]]}

(* Variant of GetMaxIcount that goes on after a file without inscount.    *)
RECURSIVE MaxIcountNoBreakFrom(_, _)
MaxIcountNoBreakFrom(fs, m) ==
    IF fs = <<>> THEN m
    ELSE IF Head(fs) = NotFound THEN MaxIcountNoBreakFrom(Tail(fs), 0)
    ELSE MaxIcountNoBreakFrom(Tail(fs), IF Head(fs) > m THEN Head(fs) ELSE m)

GetMaxIcountNoBreak(fs) == MaxIcountNoBreakFrom(fs, 0)

(* GetMaxIcount's loop over the result files: the largest inscount so    *)
(* far, and 0 with a break at the first file without one.                  *)
RECURSIVE MaxIcountFrom(_, _)
MaxIcountFrom(fs, m) ==
    IF fs = <<>> THEN m
    ELSE IF Head(fs) = NotFound THEN 0
    ELSE MaxIcountFrom(Tail(fs), IF Head(fs) > m THEN Head(fs) ELSE m)

GetMaxIcount(fs) == MaxIcountFrom(fs, 0)

Init ==
    /\ order \in {o \in SetToSeqs(Dirs) : o[1] = Top}
    /\ loc \in [Pinballs -> Dirs]
    /\ results \in [Pinballs -> ResultFiles]
    /\ icount = [p \in Pinballs |-> GetMaxIcount(results[p])]
    /\ filtered \in SUBSET Pinballs
    /\ pc = "walk"
    /\ w = 1
    /\ queue = <<>>
    /\ utilResult = 0
    /\ calls = <<>>
    /\ aborted = {}
    /\ ret = 0

(* walk_callback entry: _util_result is set to 0, the icount of every     *)
(* pinball is read, and the callback returns with -1 at the first 0.      *)
(* Otherwise the sorted list is built.                                    *)
EnterDir ==
    /\ pc = "walk"
    /\ w <= Len(order)
    /\ IF \E p \in FilesIn(Dir) : icount[p] = 0
         THEN /\ utilResult' = -1
              /\ aborted' = aborted \cup {Dir}
              /\ w' = w + 1
              /\ UNCHANGED <<pc, queue>>
         ELSE /\ utilResult' = 0
              /\ \E q \in SortedLists(Dir) : queue' = q
              /\ pc' = "callback"
              /\ UNCHANGED <<w, aborted>>
    /\ UNCHANGED <<order, loc, results, icount, filtered, calls, ret>>

(* Variant of Visit that does not stop after a method returned an error.  *)
VisitNoStop ==
    /\ pc = "callback"
    /\ queue /= <<>>
    /\ IF Head(queue) \in filtered
         THEN queue' = Tail(queue) /\ UNCHANGED pc
         ELSE pc' = "method" /\ UNCHANGED queue
    /\ UNCHANGED <<order, loc, results, icount, filtered, w, utilResult, calls,
                   aborted, ret>>

(* One iteration of the loop over sorted_list: return if the previous     *)
(* method call failed; skip a pinball matching replay_filter; otherwise   *)
(* call the method on it ("method" until it returns).                    *)
Visit ==
    /\ pc = "callback"
    /\ queue /= <<>>
    /\ IF utilResult /= 0
         THEN /\ pc' = "walk"
              /\ w' = w + 1
              /\ queue' = <<>>
         ELSE /\ IF Head(queue) \in filtered
                   THEN queue' = Tail(queue) /\ UNCHANGED pc
                   ELSE pc' = "method" /\ UNCHANGED queue
              /\ UNCHANGED w
    /\ UNCHANGED <<order, loc, results, icount, filtered, utilResult, calls,
                   aborted, ret>>

(* _util_result = method(param, dirname, basename_file): the call returns *)
(* r, and the loop moves on to the next pinball.                          *)
MethodReturns(r) ==
    /\ pc = "method"
    /\ utilResult' = r
    /\ calls' = Append(calls, [pb |-> Head(queue), dir |-> Dir, res |-> r])
    /\ queue' = Tail(queue)
    /\ pc' = "callback"
    /\ UNCHANGED <<order, loc, results, icount, filtered, w, aborted, ret>>

(* The method of a standalone walk: any call returning a value of Results.*)
Method == \E r \in Results : MethodReturns(r)

(* The loop over sorted_list ends: the callback returns.                  *)
LeaveDir ==
    /\ pc = "callback"
    /\ queue = <<>>
    /\ pc' = "walk"
    /\ w' = w + 1
    /\ UNCHANGED <<order, loc, results, icount, filtered, queue, utilResult, calls,
                   aborted, ret>>

(* os.path.walk has returned: RunAllDir returns _util_result if it is not *)
(* 0, and 0 otherwise.                                                    *)
Finish ==
    /\ pc = "walk"
    /\ w > Len(order)
    /\ ret' = utilResult
    /\ pc' = "done"
    /\ UNCHANGED <<order, loc, results, icount, filtered, w, queue, utilResult, calls,
                   aborted>>

Returned == pc = "done" /\ UNCHANGED vars

Next == EnterDir \/ Visit \/ Method \/ LeaveDir \/ Finish \/ Returned

Spec == Init /\ [][Next]_vars /\ WF_vars(EnterDir \/ Visit \/ Method \/ LeaveDir \/ Finish)

-----------------------------------------------------------------------------
(* Properties *)

(* GetMaxIcount's docstring: the instruction count of the thread with the *)
(* most instructions, and 0 if an error occurs (a result file without an  *)
(* inscount line, or no result file at all).  walk_callback relies on     *)
(* this 0 to abandon the directory.                                       *)
MaxIcountMatches ==
    \A p \in Pinballs :
        icount[p] =
            IF results[p] = <<>> \/ NotFound \in ToSet(results[p]) THEN 0
            ELSE Max(ToSet(results[p]))

(* walk_callback checks _util_result before every method call: once the  *)
(* method failed on a pinball of a directory, it is never called again on *)
(* a pinball of that directory.                                           *)
NoCallAfterError ==
    \A i, j \in 1..Len(calls) :
        (i < j /\ calls[i].dir = calls[j].dir) => calls[i].res = 0

(* The comment at the end of RunAllDir: "If an error occurs, function     *)
(* already returned with the error code".  When RunAllDir returns 0, no   *)
(* directory was abandoned for a zero icount, every method call returned  *)
(* 0, and the method ran once on every pinball not filtered out.          *)
SuccessMeansAllProcessed ==
    (pc = "done" /\ ret = 0) =>
        /\ aborted = {}
        /\ \A i \in 1..Len(calls) : calls[i].res = 0
        /\ \A p \in Pinballs \ filtered :
              Cardinality({i \in 1..Len(calls) : calls[i].pb = p}) = 1

=============================================================================
