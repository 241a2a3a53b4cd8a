---------------------------- MODULE MetricsStore ----------------------------
(***************************************************************************)
(* The measured function units that runs of dflowmap share through the     *)
(* file system: Metrics.cc, create_outfiles and createMetrics of main.cc   *)
(* and the file helpers of Helper.cc.                                      *)
(*                                                                         *)
(* A location is the cache (.dflow_cache) or the customF directory of an   *)
(* output directory.  It holds netlists and a metrics file, fu.metrics:    *)
(* a header line naming the technology, then one record per unit.  A run   *)
(* prepares both locations (removing them first under -i), reads the files *)
(* into memory, and then, for each function unit of the program, takes the *)
(* record it has, or copies the unit from the cache, or calls the logic    *)
(* optimizer.  -m replaces the metrics file of the output directory by a   *)
(* file of the user, but not the place of the netlists.  Nothing is locked *)
(* and only the copying of netlists looks for errors: a run can be killed  *)
(* between any two steps, a full disk can cut a record or a netlist, and   *)
(* runs can overlap.  The optimizer is external: a run waits for it, and   *)
(* it writes its netlist whole unless it is killed with the run.           *)
(***************************************************************************)
EXTENDS Integers, FiniteSets

CONSTANTS
    Runs,       \* executions of the program, each happens at most once
    Units,      \* normalised names of function units
    Dirs,       \* output directories
    Cache,      \* the cache directory of the base directory
    UserFile,   \* the file of -m
    Techs,      \* values of ACT_TECH
    Begins,     \* <<t, h>>: the name t is a prefix of the name h
    Calibrated, \* technologies with a dflow_<family>.metrics file
    Values,     \* measurements the optimizer may report
    Options,    \* command lines
    Faults,     \* of {"kill", "full", "uncalibrated"}
    MaxActive,  \* bound: runs that overlap
    MaxUses,    \* bound: function units of a program
    Partial,    \* a netlist file that was truncated and not written in full
    None

Loc == Dirs \union {Cache}
Files == Loc \union {UserFile}
CommandLine == [dir : Dirs, tech : Techs, inval : BOOLEAN, user : BOOLEAN]

ASSUME ConstantsAssumption ==
    /\ Cache \notin Dirs /\ UserFile \notin Loc /\ UserFile # Cache
    /\ None \notin Files
    /\ Begins \subseteq Techs \X Techs
    /\ \A t \in Techs : <<t, t>> \in Begins
    /\ {"empty", "record"} \intersect Techs = {}
    /\ IsFiniteSet(Runs)
    /\ Options \subseteq CommandLine
    /\ None \notin CommandLine
    /\ MaxActive \in Nat /\ MaxUses \in Nat

(* What the optimizer produced: a netlist, and the numbers measured on it. *)
Result == [tech : Techs, val : Values]
Record == [unit : Units, res : Result]

(* first: the first line, which readMetricsFile skips once it has compared *)
(* it with ACT_TECH; bad: some later line has not four numbers.            *)
File == [first : Techs \union {"empty", "record"},
         recs  : SUBSET Record,
         bad   : BOOLEAN]
EmptyFile == [first |-> "empty", recs |-> {}, bad |-> FALSE]

ASSUME NoneAssumption ==
    /\ None \notin Result /\ None \notin Record /\ None \notin File
    /\ Partial \notin Result /\ Partial # None

VARIABLES
    exists,     \* the directories that exist
    file,       \* the metrics files, None where there is none
    nets,       \* the netlist of each unit in each location
    pc,         \* where each run is
    opt,        \* its command line
    left,       \* function units of its program still to be translated
    at,         \* the location it prepares
    have,       \* _have_metrics
    op,         \* opMetrics
    cached,     \* cachedMetrics
    cur,        \* the record of the unit in work
    used,       \* records the run has put into its output
    why,        \* why it exited with an error
    marks       \* history: what went wrong in a location since its removal

disk == <<exists, file, nets>>
memory == <<opt, left, at, have, op, cached, cur, used>>
vars == <<disk, memory, pc, why, marks>>

Preparing == {"wipe", "mkdir", "check", "create", "header"}
Reading == {"readStd", "readLocal", "readCache"}
Busy == {"fetching", "hit", "optimizing", "optimized", "storing", "copied",
         "recorded", "control"}
Working == {"translate"} \union Busy
ActiveAt == Preparing \union Reading \union Working
Ended == {"done", "failed", "dead"}
Kinds == {"wipe", "create", "cut", "mixed", "torn"}

Active(r) == pc[r] \in ActiveAt
Metrics(r) == IF opt[r].user THEN UserFile ELSE opt[r].dir
Known(recs) == {rec.unit : rec \in recs}

(* Mutation: the first line is skipped unread. *)
Accepts_Any(t, first) == TRUE

(* The header of a file is accepted if it starts with ACT_TECH. *)
Accepts(t, first) == first = "empty" \/ <<t, first>> \in Begins

(* Two records of one unit with different numbers. *)
Differ(recs) == \E a, b \in recs : a.unit = b.unit /\ a.res # b.res

Init ==
    /\ exists = {}
    /\ file \in [Files -> {None} \union
                          {[EmptyFile EXCEPT !.first = t] : t \in Techs}]
    /\ \A l \in Loc : file[l] = None
    /\ nets = [l \in Loc |-> [u \in Units |-> None]]
    /\ pc = [r \in Runs |-> "idle"]
    /\ opt = [r \in Runs |-> None]
    /\ left = [r \in Runs |-> 0]
    /\ at = [r \in Runs |-> None]
    /\ have = [r \in Runs |-> TRUE]
    /\ op = [r \in Runs |-> {}]
    /\ cached = [r \in Runs |-> {}]
    /\ cur = [r \in Runs |-> None]
    /\ used = [r \in Runs |-> {}]
    /\ why = [r \in Runs |-> "none"]
    /\ marks = {}

Goto(r, label) == pc' = [pc EXCEPT ![r] = label]

(* The process is gone: what it had in memory is lost. *)
Forget(r) ==
    /\ opt' = [opt EXCEPT ![r] = None]
    /\ left' = [left EXCEPT ![r] = 0]
    /\ at' = [at EXCEPT ![r] = None]
    /\ have' = [have EXCEPT ![r] = TRUE]
    /\ op' = [op EXCEPT ![r] = {}]
    /\ cached' = [cached EXCEPT ![r] = {}]
    /\ cur' = [cur EXCEPT ![r] = None]
    /\ used' = [used EXCEPT ![r] = {}]

(* exit(-1) and fatal_error. *)
Leave(r, reason) ==
    /\ Goto(r, "failed")
    /\ why' = [why EXCEPT ![r] = reason]
    /\ Forget(r)
    /\ UNCHANGED disk

Exit(r, reason) == Leave(r, reason) /\ UNCHANGED marks

-----------------------------------------------------------------------------
(* create_outfiles: the cache first, then customF of the output directory. *)

(* Mutations: -i removes the cache only; what is there is always removed.  *)
FirstLabel_CacheOnly(o, l) ==
    IF o.inval /\ l = Cache /\ l \in exists THEN "wipe" ELSE "mkdir"
FirstLabel_Always(o, l) == IF l \in exists THEN "wipe" ELSE "mkdir"

FirstLabel(o, l) == IF o.inval /\ l \in exists THEN "wipe" ELSE "mkdir"

Start(r) ==
    /\ pc[r] = "idle"
    /\ Cardinality({s \in Runs : Active(s)}) < MaxActive
    /\ \E o \in Options :
        /\ opt' = [opt EXCEPT ![r] = o]
        /\ Goto(r, FirstLabel(o, Cache))
    /\ \E n \in 0..MaxUses : left' = [left EXCEPT ![r] = n]
    /\ at' = [at EXCEPT ![r] = Cache]
    /\ UNCHANGED <<disk, have, op, cached, cur, used, why, marks>>

(* remove_all takes the entries away one by one, in the order in which the *)
(* directory lists them.                                                   *)
RemoveFile(r) ==
    /\ pc[r] = "wipe" /\ file[at[r]] # None
    /\ file' = [file EXCEPT ![at[r]] = None]
    /\ UNCHANGED <<exists, nets, memory, pc, why, marks>>

RemoveNetlist(r, u) ==
    /\ pc[r] = "wipe" /\ nets[at[r]][u] # None
    /\ nets' = [nets EXCEPT ![at[r]][u] = None]
    /\ UNCHANGED <<exists, file, memory, pc, why, marks>>

RemoveDirectory(r) ==
    /\ pc[r] = "wipe"
    /\ file[at[r]] = None /\ \A u \in Units : nets[at[r]][u] = None
    /\ exists' = exists \ {at[r]}
    /\ marks' = marks \ (Kinds \X {at[r]})
    /\ Goto(r, "mkdir")
    /\ UNCHANGED <<file, nets, memory, why>>

(* Another run has written into a directory that was already emptied:      *)
(* remove_all throws, and nobody catches.                                  *)
RemovalFails(r) ==
    /\ pc[r] = "wipe"
    /\ file[at[r]] # None \/ \E u \in Units : nets[at[r]][u] # None
    /\ \E s \in Runs \ {r} : Active(s)
    /\ Exit(r, "notempty")

CreateDirectory(r) ==
    /\ pc[r] = "mkdir"
    /\ exists' = exists \union {at[r]}
    /\ Goto(r, "check")
    /\ UNCHANGED <<file, nets, memory, why, marks>>

Prepared(r) ==
    IF at[r] = Cache
    THEN /\ at' = [at EXCEPT ![r] = opt[r].dir]
         /\ Goto(r, FirstLabel(opt[r], opt[r].dir))
    ELSE /\ at' = [at EXCEPT ![r] = None]
         /\ Goto(r, "readStd")

(* createMetricsFileIfNotExist: test, open for appending, write at close. *)
FindFile(r) ==
    /\ pc[r] = "check"
    /\ IF file[at[r]] = None
       THEN Goto(r, "create") /\ UNCHANGED at
       ELSE Prepared(r)
    /\ UNCHANGED <<disk, opt, left, have, op, cached, cur, used, why, marks>>

CreateFile(r) ==
    /\ pc[r] = "create"
    /\ file' = [file EXCEPT ![at[r]] = IF @ = None THEN EmptyFile ELSE @]
    /\ Goto(r, "header")
    /\ UNCHANGED <<exists, nets, memory, why, marks>>

WithHeader(f, t) ==
    CASE f = None -> None
      [] f # None /\ f.first = "empty" -> [f EXCEPT !.first = t]
      [] OTHER -> [f EXCEPT !.bad = TRUE]

WriteHeader(r) ==
    /\ pc[r] = "header"
    /\ file' = [file EXCEPT ![at[r]] = WithHeader(@, opt[r].tech)]
    /\ Prepared(r)
    /\ UNCHANGED <<exists, nets, opt, left, have, op, cached, cur, used, why, marks>>

-----------------------------------------------------------------------------
(* createMetrics and readMetricsFile.  A file that cannot be opened turns  *)
(* the metrics off and the others are read all the same.                   *)

ReadStd(r) ==
    /\ pc[r] = "readStd"
    /\ have' = [have EXCEPT ![r] = opt[r].tech \in Calibrated]
    /\ Goto(r, "readLocal")
    /\ UNCHANGED <<disk, opt, left, at, op, cached, cur, used, why, marks>>

(* The reasons to exit that reading the file f may give. *)
Objections(f, t) ==
    {w \in {"incompatible", "malformed", "different"} :
        /\ f # None
        /\ (w = "incompatible") <=> ~Accepts(t, f.first)
        /\ w = "malformed" => f.bad
        /\ w = "different" => Differ(f.recs)}

Contents(f) == IF f = None THEN {} ELSE f.recs

ReadLocal(r) ==
    /\ pc[r] = "readLocal"
    /\ Objections(file[Metrics(r)], opt[r].tech) = {}
    /\ have' = [have EXCEPT ![r] = @ /\ file[Metrics(r)] # None]
    /\ op' = [op EXCEPT ![r] = Contents(file[Metrics(r)])]
    /\ Goto(r, "readCache")
    /\ UNCHANGED <<disk, opt, left, at, cached, cur, used, why, marks>>

ReadCache(r) ==
    /\ pc[r] = "readCache"
    /\ Objections(file[Cache], opt[r].tech) = {}
    /\ have' = [have EXCEPT ![r] = @ /\ file[Cache] # None]
    /\ cached' = [cached EXCEPT ![r] = Contents(file[Cache])]
    /\ Goto(r, "translate")
    /\ marks' = IF opt[r].user THEN marks \union {<<"mixed", opt[r].dir>>} ELSE marks
    /\ UNCHANGED <<disk, opt, left, at, op, cur, used, why>>

RejectFile(r) ==
    \/ /\ pc[r] = "readLocal"
       /\ \E w \in Objections(file[Metrics(r)], opt[r].tech) : Exit(r, w)
    \/ /\ pc[r] = "readCache"
       /\ \E w \in Objections(file[Cache], opt[r].tech) : Exit(r, w)

-----------------------------------------------------------------------------
(* getOrGenFUMetric, for each function unit of the program in turn. *)

(* A record appended to a file without a header becomes its first line. *)
Appended(f, rec, there) ==
    CASE f = None /\ there -> [EmptyFile EXCEPT !.first = "record"]
      [] f = None /\ ~there -> None
      [] f # None /\ f.first = "empty" -> [f EXCEPT !.first = "record"]
      [] OTHER -> [f EXCEPT !.recs = @ \union {rec}]

(* The append is one write; on a full disk a piece of the line is written  *)
(* and nobody looks.                                                       *)
Append(r, l) ==
    LET there == l \in exists \union {UserFile} IN
    \/ /\ file' = [file EXCEPT ![l] = Appended(@, cur[r], there)]
       /\ UNCHANGED marks
    \/ /\ "full" \in Faults /\ file[l] # None
       /\ file' = [file EXCEPT ![l] = IF @.first = "empty"
                                      THEN [@ EXCEPT !.first = "record"]
                                      ELSE [@ EXCEPT !.bad = TRUE]]
       /\ marks' = marks \union {<<"cut", l>>}

(* Mutation: the walk over the program does not stop at its end. *)
NextUse_PastEnd(r) ==
    /\ pc[r] = "translate"
    /\ left' = [left EXCEPT ![r] = @ - 1]

(* The next function unit of the program. *)
NextUse(r) ==
    /\ pc[r] = "translate" /\ left[r] > 0
    /\ left' = [left EXCEPT ![r] = @ - 1]

(* printConf: without metrics no entry can be written. *)
NoMetrics(r) ==
    /\ pc[r] = "translate" /\ left[r] > 0 /\ ~have[r]
    /\ Exit(r, "nometrics")

FindUnit(r) ==
    /\ NextUse(r) /\ have[r]
    /\ \E rec \in op[r] : cur' = [cur EXCEPT ![r] = rec]
    /\ Goto(r, "control")
    /\ UNCHANGED <<disk, opt, at, have, op, cached, used, why, marks>>

(* copyFileToTargetDir opens the target, which truncates a file that is    *)
(* there, and then writes what it reads from the source.  A file that is   *)
(* open can still be read, or written to no effect, once another run has   *)
(* removed it; and beside another run the file of that name may be another *)
(* one, which keeps its contents.                                          *)
Readable(l, u) == IF nets[l][u] = None THEN Result \union {Partial} ELSE {nets[l][u]}

Written(r, old, new) ==
    IF old = None THEN {None}
    ELSE {new} \union {x \in {old} : \E s \in Runs \ {r} : Active(s)}

(* The netlist of unit u from one location is in the other. *)
Copied(r, u, from, to) ==
    \E read \in Readable(from, u) : \E now \in Written(r, nets[to][u], read) :
        nets' = [nets EXCEPT ![to][u] = now]

(* getCachedMetric: the netlist is copied, then the record. *)
CopyFromCache(r) ==
    /\ pc[r] = "translate" /\ left[r] > 0 /\ have[r]
    /\ \E rec \in cached[r] :
        /\ rec.unit \notin Known(op[r])
        /\ IF nets[Cache][rec.unit] = None \/ opt[r].dir \notin exists
           THEN Exit(r, "missing")
           ELSE /\ NextUse(r)
                /\ nets' = [nets EXCEPT ![opt[r].dir][rec.unit] = Partial]
                /\ cur' = [cur EXCEPT ![r] = rec]
                /\ Goto(r, "fetching")
                /\ UNCHANGED <<exists, file, opt, at, have, op, cached, used, why, marks>>

FinishFetch(r) ==
    /\ pc[r] = "fetching"
    /\ Copied(r, cur[r].unit, Cache, opt[r].dir)
    /\ Goto(r, "hit")
    /\ UNCHANGED <<exists, file, memory, why, marks>>

(* opMetrics did not learn of the unit at its first use, so it is copied   *)
(* again at the next: the file that is truncated then has its record.      *)
Stranded(r) ==
    /\ pc[r] = "fetching" /\ file[opt[r].dir] # None
    /\ cur[r].unit \in Known(file[opt[r].dir].recs)

Stopped(r) == IF Stranded(r) THEN marks \union {<<"torn", opt[r].dir>>} ELSE marks

(* Mutation: the error code of copy_file is not looked at. *)
CopyFails_Ignored(r) ==
    /\ "full" \in Faults /\ pc[r] \in {"fetching", "storing"}
    /\ Goto(r, IF pc[r] = "fetching" THEN "hit" ELSE "copied")
    /\ UNCHANGED <<disk, memory, why, marks>>

(* copy_file throws on a full disk, with the target cut. *)
CopyFails(r) ==
    /\ "full" \in Faults /\ pc[r] \in {"fetching", "storing"}
    /\ Leave(r, "nospace")
    /\ marks' = Stopped(r)

RecordHit(r) ==
    /\ pc[r] = "hit"
    /\ Append(r, Metrics(r))
    /\ Goto(r, "control")
    /\ UNCHANGED <<exists, nets, memory, why>>

(* The numbers of the control template are added to a record that was      *)
(* found, and the sum goes into the output.                                *)
UseRecord(r) ==
    /\ pc[r] = "control"
    /\ used' = [used EXCEPT ![r] = @ \union {cur[r]}]
    /\ cur' = [cur EXCEPT ![r] = None]
    /\ Goto(r, "translate")
    /\ UNCHANGED <<disk, opt, left, at, have, op, cached, why, marks>>

(* No template of the control is calibrated for the unit ("No function     *)
(* metrics?"): for a new unit, after its netlist has gone into the cache.  *)
NoTemplate(r) ==
    /\ "uncalibrated" \in Faults /\ pc[r] \in {"control", "copied"}
    /\ Exit(r, "nofunc")

(* Mutation: the cache is not asked first. *)
Unmeasured_CacheIgnored(r) == Units \ Known(op[r])

Unmeasured(r) == Units \ (Known(op[r]) \union Known(cached[r]))

(* callLogicOptimizer: the netlist is written into the output directory,   *)
(* copied into the cache, and recorded in both files.  A run that is       *)
(* killed at the optimizer has begun to write a netlist or has not.        *)
Optimize(r) ==
    /\ NextUse(r) /\ have[r]
    /\ \E u \in Unmeasured(r), v \in Values :
        /\ \/ UNCHANGED nets
           \/ /\ opt[r].dir \in exists
              /\ nets' = [nets EXCEPT ![opt[r].dir][u] = Partial]
        /\ cur' = [cur EXCEPT ![r] =
                      [unit |-> u, res |-> [tech |-> opt[r].tech, val |-> v]]]
    /\ Goto(r, "optimizing")
    /\ UNCHANGED <<exists, file, opt, at, have, op, cached, used, why, marks>>

FinishOptimize(r) ==
    /\ pc[r] = "optimizing"
    /\ nets' = IF opt[r].dir \in exists
               THEN [nets EXCEPT ![opt[r].dir][cur[r].unit] = cur[r].res]
               ELSE nets
    /\ Goto(r, "optimized")
    /\ UNCHANGED <<exists, file, memory, why, marks>>

CopyToCache(r) ==
    /\ pc[r] = "optimized"
    /\ IF nets[opt[r].dir][cur[r].unit] = None \/ Cache \notin exists
       THEN Exit(r, "missing")
       ELSE /\ nets' = [nets EXCEPT ![Cache][cur[r].unit] = Partial]
            /\ Goto(r, "storing")
            /\ UNCHANGED <<exists, file, memory, why, marks>>

FinishStore(r) ==
    /\ pc[r] = "storing"
    /\ Copied(r, cur[r].unit, opt[r].dir, Cache)
    /\ Goto(r, "copied")
    /\ UNCHANGED <<exists, file, memory, why, marks>>

RecordLocal(r) ==
    /\ pc[r] = "copied"
    /\ Append(r, Metrics(r))
    /\ Goto(r, "recorded")
    /\ UNCHANGED <<exists, nets, memory, why>>

(* Mutation: opMetrics does not learn of the new unit. *)
Learned_Not(recs, rec) == recs

(* updateMetrics for a unit that opMetrics does not have. *)
Learned(recs, rec) == recs \union {rec}

RecordInCache(r) ==
    /\ pc[r] = "recorded"
    /\ Append(r, Cache)
    /\ op' = [op EXCEPT ![r] = Learned(@, cur[r])]
    /\ used' = [used EXCEPT ![r] = @ \union {cur[r]}]
    /\ cur' = [cur EXCEPT ![r] = None]
    /\ Goto(r, "translate")
    /\ UNCHANGED <<exists, nets, opt, left, at, have, cached, why>>

Finish(r) ==
    /\ pc[r] = "translate" /\ left[r] = 0
    /\ Goto(r, "done")
    /\ Forget(r)
    /\ UNCHANGED <<disk, why, marks>>

(* A signal, or a crash of the machine, between two steps. *)
Kill(r) ==
    /\ "kill" \in Faults /\ Active(r)
    /\ Goto(r, "dead")
    /\ marks' = CASE pc[r] = "wipe" -> marks \union {<<"wipe", at[r]>>}
                  [] pc[r] = "header" -> marks \union {<<"create", at[r]>>}
                  [] OTHER -> Stopped(r)
    /\ Forget(r)
    /\ UNCHANGED <<disk, why>>

-----------------------------------------------------------------------------
Prepare(r) ==
    \/ RemoveFile(r)
    \/ \E u \in Units : RemoveNetlist(r, u)
    \/ RemoveDirectory(r)
    \/ RemovalFails(r)
    \/ CreateDirectory(r)
    \/ FindFile(r)
    \/ CreateFile(r)
    \/ WriteHeader(r)

Read(r) == ReadStd(r) \/ ReadLocal(r) \/ ReadCache(r) \/ RejectFile(r)

Translate(r) ==
    \/ NoMetrics(r)
    \/ FindUnit(r)
    \/ CopyFromCache(r)
    \/ FinishFetch(r)
    \/ CopyFails(r)
    \/ RecordHit(r)
    \/ UseRecord(r)
    \/ NoTemplate(r)
    \/ Optimize(r)
    \/ FinishOptimize(r)
    \/ CopyToCache(r)
    \/ FinishStore(r)
    \/ RecordLocal(r)
    \/ RecordInCache(r)
    \/ Finish(r)

Step(r) == Prepare(r) \/ Read(r) \/ Translate(r)

Next == \E r \in Runs : Start(r) \/ Step(r) \/ Kill(r)

Spec == Init /\ [][Next]_vars

-----------------------------------------------------------------------------
(* Types of the variables. *)
TypeOK ==
    /\ exists \subseteq Loc
    /\ file \in [Files -> File \union {None}]
    /\ nets \in [Loc -> [Units -> Result \union {Partial, None}]]
    /\ pc \in [Runs -> {"idle"} \union ActiveAt \union Ended]
    /\ opt \in [Runs -> CommandLine \union {None}]
    /\ left \in [Runs -> 0..MaxUses]
    /\ at \in [Runs -> Loc \union {None}]
    /\ have \in [Runs -> BOOLEAN]
    /\ op \in [Runs -> SUBSET Record]
    /\ cached \in [Runs -> SUBSET Record]
    /\ cur \in [Runs -> Record \union {None}]
    /\ used \in [Runs -> SUBSET Record]
    /\ why \in [Runs -> {"none", "incompatible", "malformed", "different",
                         "missing", "nometrics", "nofunc", "notempty", "nospace"}]
    /\ marks \subseteq Kinds \X Files

Sequential == MaxActive <= 1
Wiping(l) == \E r \in Runs : pc[r] = "wipe" /\ at[r] = l
Intact(l) ==
    /\ <<"wipe", l>> \notin marks
    /\ <<"mixed", l>> \notin marks
    /\ ~Wiping(l)

(* The netlist of a unit is being copied from the cache once more, over    *)
(* the one its record stands for, or such a copying was stopped: the code  *)
(* has no protection here.                                                 *)
Torn(l, u) ==
    \/ <<"torn", l>> \in marks
    \/ \E r \in Runs : pc[r] = "fetching" /\ opt[r].dir = l /\ cur[r].unit = u

(* The netlist of the record, or, where a second copying was cut short,    *)
(* the beginning of it: never the netlist of another measurement.          *)
HasNetlist(l, rec) ==
    \/ nets[l][rec.unit] = rec.res
    \/ nets[l][rec.unit] = Partial /\ Torn(l, rec.unit)

(* When runs do not overlap, the netlist beside a metrics file is the one  *)
(* its record was measured on, whatever run wrote either and wherever runs *)
(* were killed or their copies failed, unless a removal was interrupted or *)
(* -m put netlists into the directory whose records went elsewhere.  What  *)
(* can be cut is a netlist copied from the cache for a second time.        *)
RecordHasItsNetlist ==
    Sequential =>
        \A l \in Loc : file[l] # None /\ Intact(l) =>
            \A rec \in file[l].recs : HasNetlist(l, rec)

(* The circuit a run writes uses numbers measured on the netlists of its   *)
(* own output directory, of which none is cut but by a second copying.     *)
UsedHasNetlist ==
    Sequential =>
        \A r \in Runs : used[r] # {} /\ Intact(opt[r].dir) =>
            \A rec \in used[r] : HasNetlist(opt[r].dir, rec)

(* No command line with -i removes the location. *)
Kept(l) == \A o \in Options : o.inval => l \notin {Cache, o.dir}

(* Overlapping runs may mix their measurements, and one with -i may take   *)
(* the cache away under another, but in a directory that no run removes a  *)
(* record is never without a netlist: the netlist is always there first.   *)
NetlistBeforeRecord ==
    \A l \in Loc : Kept(l) /\ file[l] # None =>
        \A rec \in file[l].recs : nets[l][rec.unit] # None

(* No name of a technology begins another. *)
Unambiguous == \A p \in Begins : p[1] = p[2]

(* When runs do not overlap, a metric a run uses was measured in the       *)
(* technology it asks for, if the header lines can tell them apart.        *)
UsedForTech ==
    Sequential /\ Unambiguous =>
        \A r \in Runs : \A rec \in used[r] : rec.res.tech = opt[r].tech

(* -i repairs the store: a run that starts by removing the cache and its   *)
(* output directory never stops at what earlier runs left behind, but for  *)
(* lack of a template, of measurements or of space.                        *)
InvalidateRepairs ==
    [][Sequential =>
        \A r \in Runs : pc[r] # "failed" /\ pc'[r] = "failed" =>
            \/ ~opt[r].inval \/ opt[r].user
            \/ opt[r].tech \notin Calibrated
            \/ why'[r] \in {"nofunc", "nospace"}]_vars

CauseOf(r, w) ==
    LET reads == {Cache, Metrics(r)} IN
    CASE w = "incompatible" ->
            \E l \in reads : \/ <<"create", l>> \in marks
                             \/ <<"cut", l>> \in marks
                             \/ /\ file[l].first \in Techs
                                /\ <<opt[r].tech, file[l].first>> \notin Begins
      [] w = "malformed" -> \E l \in reads : <<"cut", l>> \in marks
      [] w = "missing" -> <<"wipe", Cache>> \in marks
      [] w = "nometrics" -> \/ opt[r].tech \notin Calibrated
                            \/ opt[r].user /\ file[UserFile] = None
      [] w = "nofunc" -> "uncalibrated" \in Faults
      [] w = "nospace" -> "full" \in Faults
      [] OTHER -> FALSE

(* When runs do not overlap, a run stops with an error only for a reason   *)
(* outside it: another technology, a file that is not there, a run killed  *)
(* between the creation of a file and its header or inside a removal, or a *)
(* full disk.  It never meets two different records of a unit.             *)
ErrorsHaveCauses ==
    [][Sequential =>
        \A r \in Runs : pc[r] # "failed" /\ pc'[r] = "failed" =>
            CauseOf(r, why'[r])]_vars

(* When runs do not overlap, the optimizer is not called for a unit that   *)
(* the cache has a record of.                                              *)
NoWastedOptimization ==
    [][Sequential =>
        \A r \in Runs : pc[r] = "translate" /\ pc'[r] = "optimizing" =>
            cur'[r].unit \notin Known(Contents(file[Cache]))]_vars

=============================================================================
