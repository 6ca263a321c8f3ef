------------------------------ MODULE RegionCSV ------------------------------
(***************************************************************************)
(* regions.py --csv_region: read a frequency-vector (BBV) file, a SimPoint *)
(* simpoints file and a weights file, and print the regions CSV file.      *)
(*                                                                         *)
(* The script is sequential and runs once, so the model is one step from  *)
(* the input files to what the script leaves behind: its exit status, the *)
(* descriptor lines it printed, and the two tables GetRegionBBV built.    *)
(* The inputs are abstracted to what the parsing and the arithmetic tell  *)
(* apart:                                                                  *)
(*   - a slice of the BBV file is the total of its counts, or NoPairs for  *)
(*     a "T:" line with no ":dim:count" pair;                              *)
(*   - a simpoints line is <<slice, cluster id>>;                          *)
(*   - a weights line is the cluster id it gives a weight to; the weight   *)
(*     itself is identified by that id, so a descriptor's weight names    *)
(*     the cluster it really belongs to;                                   *)
(*   - the "Block id:" section is the set of 0-based block ids it lists.  *)
(***************************************************************************)
EXTENDS Integers, Sequences, SequencesExt, FiniteSets, Functions

CONSTANTS
    MaxSlices,      \* most "T:" lines in a BBV file
    SliceTotals,    \* per-slice instruction totals a "T:" line can have
    ClusterIds,     \* cluster ids SimPoint can write
    MaxLines,       \* most lines in a simpoints or weights file
    MaxBlock        \* largest 0-based block id in the "Block id:" section

ASSUME MaxSlices \in Nat \ {0} /\ SliceTotals \subseteq Nat
ASSUME ClusterIds \subseteq Nat /\ MaxLines \in Nat \ {0} /\ MaxBlock \in Nat

NoPairs == -1

VARIABLES
    bbv,        \* the slices of the BBV file, in file order
    simp,       \* the lines of the simpoints file
    wfile,      \* the lines of the weights file
    blocks,     \* the block ids of the "Block id:" section
    pc,         \* "run" before the script runs, "exit" after
    status,     \* "ok", "regionsErr" (CheckRegions, exit -1), "indexError"
    out,        \* descriptor lines printed to stdout, in order
    cum,        \* cumulative_icount as GetRegionBBV returns it
    allBB       \* the block ids of all_bb as GetRegionBBV returns it

vars == <<bbv, simp, wfile, blocks, pc, status, out, cum, allBB>>

-----------------------------------------------------------------------------
(* Parsing.  re.match('(\d+).*(\d+)') and re.match('(0\.\d+).*(\d+)') are *)
(* greedy: ".*" swallows all but the last digit of the region field, so   *)
(* the region parsed is the cluster id modulo 10.  The fall-back pattern  *)
(* '(\d)\s(\d)' of a weight "1" (the weights file of a single cluster)    *)
(* takes the first digit of the region field instead.                     *)

LastDigit(r) == r % 10

RECURSIVE FirstDigit(_)
FirstDigit(r) == IF r < 10 THEN r ELSE FirstDigit(r \div 10)

(* Python's list.insert(i, x): x goes before index i, or at the end when  *)
(* i is past it.                                                          *)
PyInsert(l, i, x) == InsertAt(l, IF i < Len(l) THEN i + 1 ELSE Len(l) + 1, x)

(* GetSimpoints: slice_list built by insert at the parsed region, and     *)
(* simp_regions in file order.  An entry of slice_list is                 *)
(* <<slice, cluster id of its line>>.                                     *)
SimpStep(acc, line) ==
    LET r == LastDigit(line[2])
    IN  <<PyInsert(acc[1], r, line), Append(acc[2], r)>>

GetSimpoints(f) == FoldLeft(SimpStep, <<<<>>, <<>>>>, f)

(* GetWeights: weight_list built by insert at the parsed region, and      *)
(* weight_regions in file order.                                          *)
WeightRegion(f, c) == IF Len(f) = 1 THEN FirstDigit(c) ELSE LastDigit(c)

GetWeightsAppend(f) ==
    LET Step(acc, c) == <<Append(acc[1], c), Append(acc[2], WeightRegion(f, c))>>
    IN  FoldLeft(Step, <<<<>>, <<>>>>, f)

GetWeights(f) ==
    LET Step(acc, c) == LET r == WeightRegion(f, c)
                        IN  <<PyInsert(acc[1], r, c), Append(acc[2], r)>>
    IN  FoldLeft(Step, <<<<>>, <<>>>>, f)

-----------------------------------------------------------------------------
(* GetRegionBBV.  GetSlice returns [] for a "T:" line with no pairs, and  *)
(* the slice loop stops at the first [] it gets, so the slices after such *)
(* a line are never read.                                                 *)
ReadSlices(f) ==
    LET i == SelectInSeq(f, LAMBDA t : t = NoPairs)
    IN  IF i = 0 THEN f ELSE SubSeq(f, 1, i - 1)

(* One slice of the loop: a slice whose counts sum to 0 adds no entry.    *)
CumStepNoGuard(acc, t) == <<acc[1] + t, Append(acc[2], acc[1] + t)>>
CumStep(acc, t) ==
    IF t # 0 THEN <<acc[1] + t, Append(acc[2], acc[1] + t)>> ELSE acc

CumulativeIcount(f) == FoldLeft(CumStep, <<0, <<>>>>, ReadSlices(f))[2]

(* The missing-block repair loop, one iteration per call: l is all_bb     *)
(* (block ids only), ai is array_index and c is count.  all_bb[ai] is     *)
(* always in range: ai <= count, and ai reaches len only after an append. *)
RECURSIVE FillNoSkip(_, _, _, _)
FillNoSkip(l, ai, c, len) ==
    IF c > len THEN l
    ELSE IF l[ai + 1] # c THEN FillNoSkip(Append(l, ai), ai + 1, c + 1, len)
    ELSE FillNoSkip(l, ai + 1, c + 1, len)

RECURSIVE FillMissing(_, _, _, _)
FillMissing(l, ai, c, len) ==
    IF c > len THEN l
    ELSE IF l[ai + 1] # c THEN FillMissing(Append(l, ai), ai + 1, c + 2, len)
    ELSE FillMissing(l, ai + 1, c + 1, len)

(* all_bb after GetBlockIDs, the sort, the repair and the final sort.     *)
RepairBlocks(ids) ==
    IF ids = {} THEN <<>>
    ELSE LET s   == SetToSortSeq(ids, <)
             len == Len(s)
         IN  IF s[len] + 1 > len
             THEN SortSeq(FillMissing(s, 0, 0, len), <=)
             ELSE s

-----------------------------------------------------------------------------
(* CheckRegions: same number of regions and the same set of regions.      *)
CheckRegions(sr, wr) == Len(sr) = Len(wr) /\ ToSet(sr) = ToSet(wr)

(* The region loop of GenRegionCSV over zip(slice_list, weight_list).     *)
(* cumulative_icount is 0-based in the code and 1-based here.             *)
Descriptor(i, sl, wl, c) ==
    LET s == sl[i][1]
    IN  [region |-> i, slice |-> s, cluster |-> sl[i][2], weight |-> wl[i],
         start |-> IF s = 0 THEN 0 ELSE c[s] + 1, end |-> c[s + 1]]

(* An entry reads cumulative_icount[slice_num], an IndexError when the    *)
(* slice number is past the table.                                        *)
InTable(e, c) == e[1] < Len(c)

GenRegionCSV ==
    /\ pc = "run"
    /\ LET w   == GetWeights(wfile)
           sp  == GetSimpoints(simp)
           c   == CumulativeIcount(bbv)
           n   == IF Len(sp[1]) < Len(w[1]) THEN Len(sp[1]) ELSE Len(w[1])
           bad == {i \in 1..n : ~InTable(sp[1][i], c)}
           k   == IF bad = {} THEN n ELSE Min(bad) - 1
       IN  /\ cum' = c
           /\ allBB' = RepairBlocks(blocks)
           /\ \/ /\ ~CheckRegions(sp[2], w[2])
                 /\ status' = "regionsErr"
                 /\ out' = <<>>
              \/ /\ CheckRegions(sp[2], w[2])
                 /\ c = <<>>
                 /\ status' = "indexError"
                 /\ out' = <<>>
              \/ /\ CheckRegions(sp[2], w[2])
                 /\ c # <<>>
                 /\ status' = IF bad = {} THEN "ok" ELSE "indexError"
                 /\ out' = [i \in 1..k |-> Descriptor(i, sp[1], w[1], c)]
    /\ pc' = "exit"
    /\ UNCHANGED <<bbv, simp, wfile, blocks>>

(* The script has exited; nothing changes any more.                       *)
Exited == pc = "exit" /\ UNCHANGED vars

-----------------------------------------------------------------------------
(* The inputs the script can be given.  SimPoint writes each cluster once *)
(* per file, and picks as representative of each a different slice of the *)
(* BBV file.                                                               *)
BBVFiles == UNION {[1..n -> SliceTotals \cup {NoPairs}] : n \in 1..MaxSlices}

Lines(S) == UNION {{f \in [1..n -> S] : IsInjective(f)} : n \in 1..MaxLines}

SimpFiles(f) ==
    {l \in Lines((0..(Len(f) - 1)) \X ClusterIds) :
        /\ IsInjective([i \in DOMAIN l |-> l[i][1]])
        /\ IsInjective([i \in DOMAIN l |-> l[i][2]])}

Init ==
    /\ bbv \in BBVFiles
    /\ simp \in SimpFiles(bbv)
    /\ wfile \in Lines(ClusterIds)
    /\ blocks \in SUBSET (0..MaxBlock)
    /\ pc = "run"
    /\ status = "none"
    /\ out = <<>>
    /\ cum = <<>>
    /\ allBB = <<>>

Next == GenRegionCSV \/ Exited

Spec == Init /\ [][Next]_vars /\ WF_vars(GenRegionCSV)

-----------------------------------------------------------------------------
(* Reference definitions: what the slices and the blocks really are.      *)

SliceTotal(j) == IF bbv[j] = NoPairs THEN 0 ELSE bbv[j]

(* Icount at the end of 0-based slice s of the BBV file.                  *)
SliceEnd(s) == FoldLeft(LAMBDA a, j : a + SliceTotal(j), 0, [j \in 1..(s + 1) |-> j])

SliceStart(s) == IF s = 0 THEN 0 ELSE SliceEnd(s - 1) + 1

BlocksUpTo(ids) == [i \in 1..(Max(ids) + 1) |-> i - 1]

TypeOK ==
    /\ pc \in {"run", "exit"}
    /\ status \in {"none", "ok", "regionsErr", "indexError"}
    /\ out \in Seq([region : Nat, slice : Nat, cluster : ClusterIds,
                    weight : ClusterIds, start : Nat, end : Nat])
    /\ cum \in Seq(Nat \ {0})
    /\ allBB \in Seq(Nat)

(* Round trip (GenRegionCSV's region loop): when the script succeeds it   *)
(* has printed exactly one descriptor per line of the weights file,       *)
(* numbered 1, 2, ... in order, and each starts no later than it ends.    *)
RoundTrip ==
    status = "ok" =>
        /\ Len(out) = Len(wfile)
        /\ \A i \in 1..Len(out) : out[i].region = i /\ out[i].start <= out[i].end

(* GetSimpoints and GetWeights both place an entry with list.insert at    *)
(* the parsed region, so when the two files list the same clusters in the *)
(* same order (as SimPoint writes them) the weight zipped with a slice is *)
(* the weight of that slice's cluster.                                     *)
PairingWhenSameOrder ==
    (status = "ok" /\ [i \in DOMAIN simp |-> simp[i][2]] = wfile) =>
        \A i \in 1..Len(out) : out[i].weight = out[i].cluster

(* The missing-block repair of GetRegionBBV: when at most one block id    *)
(* below the largest is missing, all_bb ends up listing every block from  *)
(* 0 to the largest exactly once, so all_bb[b] is block b.                *)
RepairSingleGap ==
    (pc = "exit" /\ blocks # {} /\ Cardinality((0..Max(blocks)) \ blocks) <= 1) =>
        allBB = BlocksUpTo(blocks)

(* The region loop pairs each representative slice with the weight of its *)
(* own cluster whenever the two files name the same clusters (spec 4.2:   *)
(* slice-number-by-region-id and weight-by-region-id).                    *)
WeightPairing ==
    (status = "ok" /\ {simp[i][2] : i \in DOMAIN simp} = ToSet(wfile)) =>
        \A i \in 1..Len(out) : out[i].weight = out[i].cluster

(* The comments of GetRegionBBV and GenRegionCSV: cumulative_icount has   *)
(* one entry per slice, the total icount up to the end of that slice, so  *)
(* the descriptors of a successful run start and end at the icounts at    *)
(* which their representative slices begin and end.                       *)
SliceBoundaries ==
    status = "ok" =>
        \A i \in 1..Len(out) : /\ out[i].start = SliceStart(out[i].slice)
                              /\ out[i].end = SliceEnd(out[i].slice)

=============================================================================
