------------------------- MODULE MetricsStoreProofs -------------------------
(***************************************************************************)
(* For every set of runs, units, directories, technologies and command     *)
(* lines: the state keeps its type; where -i is not used, overlapping runs *)
(* never leave a record without a netlist; and when runs do not overlap,   *)
(* a record is beside the netlist it was measured on, no number is used    *)
(* for another technology, what the cache has is not optimized again, and  *)
(* a run only fails for a reason outside it, with -i for none left behind. *)
(*                                                                         *)
(* Where no -i goes a netlist is never removed, and every action that      *)
(* appends a record comes after the one that put the netlist there         *)
(* (Deposited).                                                            *)
(* Without overlap, what the active run has in memory is all that is on    *)
(* disk (Mirrored), so a netlist is only overwritten by itself or where    *)
(* no record is; and what is in the cache was read in one piece.  While it *)
(* is overwritten by itself it may be cut, and stays so when the copying   *)
(* is stopped: that it was goes into the marks before the run is gone      *)
(* (TornStep).  In the cache this never happens to a unit with a record.   *)
(* A file that is refused has the mark of the kill or the full disk that   *)
(* spoilt it (Excused), and marks go with the directory (Gone, Renewed).   *)
(***************************************************************************)
EXTENDS MetricsStore, FiniteSetTheorems, TLAPS

(* Types of the disk, of the memory of the runs, and of where they are. *)
DiskType ==
  /\ exists \subseteq Loc
  /\ file \in [Files -> File \union {None}]
  /\ nets \in [Loc -> [Units -> Result \union {Partial, None}]]
  /\ marks \subseteq Kinds \X Files

MemoryType ==
  /\ opt \in [Runs -> CommandLine \union {None}]
  /\ left \in [Runs -> 0..MaxUses]
  /\ at \in [Runs -> Loc \union {None}]
  /\ have \in [Runs -> BOOLEAN]
  /\ op \in [Runs -> SUBSET Record]
  /\ cached \in [Runs -> SUBSET Record]
  /\ cur \in [Runs -> Record \union {None}]
  /\ used \in [Runs -> SUBSET Record]

ControlType ==
  /\ pc \in [Runs -> {"idle"} \union ActiveAt \union Ended]
  /\ why \in [Runs -> {"none", "incompatible", "malformed", "different",
                       "missing", "nometrics", "nofunc", "notempty", "nospace"}]

(* What is known of a run by where it is. *)
Shape ==
  \A r \in Runs :
    /\ Active(r) => opt[r] \in Options
    /\ pc[r] \in Preparing => at[r] \in {Cache, opt[r].dir}
    /\ pc[r] \in Busy => cur[r] \in Record
    /\ pc[r] \notin Working => used[r] = {} /\ cached[r] = {}

TypeInv == DiskType /\ MemoryType /\ ControlType /\ Shape

-----------------------------------------------------------------------------
(* Runs that overlap, and locations no -i removes. *)

(* The netlist of the unit in work is where its record will go. *)
Deposited(r) ==
  /\ pc[r] \in {"fetching", "hit", "storing", "copied", "recorded"} /\ Kept(opt[r].dir) =>
       nets[opt[r].dir][cur[r].unit] # None
  /\ pc[r] \in {"storing", "copied", "recorded"} /\ Kept(Cache) =>
       nets[Cache][cur[r].unit] # None

OverlapInv ==
  /\ \A r \in Runs : (pc[r] = "wipe" => ~Kept(at[r])) /\ Deposited(r)
  /\ \A l \in Loc : Kept(l) /\ file[l] # None =>
       \A rec \in file[l].recs : nets[l][rec.unit] # None

-----------------------------------------------------------------------------
(* Runs that do not overlap. *)

OneActive == \A r, s \in Runs : Active(r) /\ Active(s) => r = s

(* The directories a run has made are there. *)
Made(r) ==
  /\ pc[r] \in {"check", "create", "header"} => at[r] \in exists
  /\ pc[r] \in Preparing /\ at[r] # Cache => Cache \in exists
  /\ pc[r] \in Reading \union Working => Cache \in exists /\ opt[r].dir \in exists

(* The numbers of the records are those of the netlists of the location. *)
Matches(recs, l) == \A rec \in recs : HasNetlist(l, rec)

(* A removal that was interrupted leaves records without netlists, but     *)
(* never with another one.                                                 *)
NoWrongNetlist ==
  \A l \in Loc : file[l] # None /\ <<"mixed", l>> \notin marks =>
    \A rec \in file[l].recs : nets[l][rec.unit] = None \/ HasNetlist(l, rec)

(* What a run has in memory, and what is on disk. *)
Mirrored(r) ==
  LET known == op[r] \union cached[r] IN
  /\ pc[r] \in {"readCache"} \union Working =>
       /\ Contents(file[Metrics(r)]) \subseteq
            known \union (IF pc[r] = "recorded" THEN {cur[r]} ELSE {})
       /\ Intact(opt[r].dir) /\ ~opt[r].user => Matches(op[r], opt[r].dir)
  /\ pc[r] \in Working =>
       /\ opt[r].user => <<"mixed", opt[r].dir>> \in marks
       /\ Contents(file[Cache]) \subseteq known
       /\ cached[r] \subseteq Contents(file[Cache])
       /\ ~Differ(cached[r])
       /\ used[r] \subseteq known
       /\ Intact(opt[r].dir) => Matches(used[r], opt[r].dir)

(* The unit in work. *)
InWork(r) ==
  LET u == cur[r].unit
      dir == opt[r].dir
      new == u \notin Known(op[r] \union cached[r])
  IN
  /\ pc[r] \in {"fetching", "hit"} => cur[r] \in cached[r] /\ u \notin Known(op[r])
  /\ pc[r] = "fetching" => nets[Cache][u] = cur[r].res /\ nets[dir][u] # None
  /\ pc[r] = "control" => cur[r] \in op[r] \union cached[r]
  /\ pc[r] = "control" /\ Intact(dir) => Matches({cur[r]}, dir)
  /\ pc[r] \in {"hit", "optimized", "storing", "copied", "recorded"} =>
       nets[dir][u] = cur[r].res
  /\ pc[r] = "storing" => nets[Cache][u] # None
  /\ pc[r] \in {"copied", "recorded"} => nets[Cache][u] = cur[r].res
  /\ pc[r] \in {"optimizing", "optimized", "storing", "copied", "recorded"} => new

StoreInv ==
  Sequential =>
    /\ OneActive
    /\ <<"mixed", Cache>> \notin marks /\ <<"torn", Cache>> \notin marks
    /\ NoWrongNetlist
    /\ RecordHasItsNetlist
    /\ \A r \in Runs : Made(r) /\ Mirrored(r) /\ InWork(r)

-----------------------------------------------------------------------------
(* A run that ends leaves nothing in memory. *)
LEMMA ForgetType ==
  ASSUME TypeInv, NEW r \in Runs, Forget(r), pc' = [pc EXCEPT ![r] = "failed"]
                                          \/ pc' = [pc EXCEPT ![r] = "dead"]
                                          \/ pc' = [pc EXCEPT ![r] = "done"]
  PROVE  MemoryType' /\ Shape'
<1> USE ConstantsAssumption
<1>1. MemoryType'
  BY DEF TypeInv, MemoryType, Forget
<1>2. Shape'
  BY DEF TypeInv, MemoryType, ControlType, Forget, Shape, Active, ActiveAt, Preparing,
       Reading, Working, Busy
<1> QED
  BY <1>1, <1>2

(* An exit keeps the types. *)
LEMMA LeaveType ==
  ASSUME TypeInv, NEW r \in Runs,
         NEW w \in {"incompatible", "malformed", "different",
                    "missing", "nometrics", "nofunc", "notempty", "nospace"},
         Leave(r, w), marks' \subseteq Kinds \X Files
  PROVE  TypeInv'
<1>1. MemoryType' /\ Shape'
  BY ForgetType DEF Leave, Goto
<1>2. DiskType'
  BY DEF TypeInv, DiskType, Leave, disk
<1>3. ControlType'
  BY DEF TypeInv, ControlType, Leave, Goto, Ended
<1> QED
  BY <1>1, <1>2, <1>3 DEF TypeInv

LEMMA ExitType ==
  ASSUME TypeInv, NEW r \in Runs,
         NEW w \in {"incompatible", "malformed", "different",
                    "missing", "nometrics", "nofunc", "notempty", "nospace"},
         Exit(r, w)
  PROVE  TypeInv'
BY LeaveType DEF Exit, TypeInv, DiskType

(* What a finished copy has put into the target.                           *)
LEMMA CopiedNets ==
  ASSUME TypeInv, NEW r \in Runs, NEW u \in Units, NEW from \in Loc, NEW to \in Loc,
         Copied(r, u, from, to)
  PROVE  /\ nets' \in [Loc -> [Units -> Result \union {Partial, None}]]
         /\ nets' = [nets EXCEPT ![to][u] = nets'[to][u]]
         /\ nets[to][u] # None => nets'[to][u] # None
         /\ nets[to][u] # None /\ nets[from][u] # None /\ (\A s \in Runs \ {r} : ~Active(s)) =>
              nets'[to][u] = nets[from][u]
<1> USE NoneAssumption
<1>n. nets \in [Loc -> [Units -> Result \union {Partial, None}]]
  BY DEF TypeInv, DiskType
<1>1. PICK read \in Readable(from, u) : \E now \in Written(r, nets[to][u], read) :
        nets' = [nets EXCEPT ![to][u] = now]
  BY DEF Copied
<1>2. PICK now \in Written(r, nets[to][u], read) : nets' = [nets EXCEPT ![to][u] = now]
  BY <1>1
<1>3. /\ read \in Result \union {Partial} /\ read # None
      /\ nets[from][u] # None => read = nets[from][u]
  BY <1>n, <1>1 DEF Readable
<1>4. /\ now \in {read, nets[to][u]}
      /\ nets[to][u] # None => now # None
      /\ nets[to][u] # None /\ (\A s \in Runs \ {r} : ~Active(s)) => now = read
  BY <1>2, <1>3 DEF Written
<1>5. nets'[to][u] = now
  BY <1>n, <1>2
<1> QED
  BY <1>n, <1>2, <1>3, <1>4, <1>5

(* The other steps of copying and of the optimizer.                        *)
Writes(r) == FinishFetch(r) \/ FinishOptimize(r) \/ FinishStore(r)

LEMMA WritesKeep ==
  ASSUME TypeInv, NEW r \in Runs, Writes(r)
  PROVE  /\ UNCHANGED <<exists, file, memory, why, marks>>
         /\ pc' = [pc EXCEPT ![r] = pc'[r]] /\ pc[r] \in Busy /\ pc'[r] \in Busy
         /\ \/ pc[r] = "fetching" /\ pc'[r] = "hit" /\ FinishFetch(r)
            \/ pc[r] = "optimizing" /\ pc'[r] = "optimized" /\ FinishOptimize(r)
            \/ pc[r] = "storing" /\ pc'[r] = "copied" /\ FinishStore(r)
BY DEF Writes, FinishFetch, FinishOptimize, FinishStore, Goto, Busy, TypeInv, ControlType

LEMMA InitType == Init => TypeInv
<1> SUFFICES ASSUME Init PROVE TypeInv
  OBVIOUS
<1> USE ConstantsAssumption
<1>1. DiskType
  <2>1. \A t \in Techs : [EmptyFile EXCEPT !.first = t] \in File
    BY DEF File, EmptyFile
  <2>2. file \in [Files -> File \union {None}]
    BY <2>1 DEF Init
  <2> QED
    BY <2>2 DEF Init, DiskType, Loc, Files
<1>2. MemoryType
  BY DEF Init, MemoryType
<1>3. ControlType
  BY DEF Init, ControlType
<1>4. Shape
  BY DEF Init, Shape, Active, ActiveAt, Preparing, Reading, Working, Busy
<1> QED
  BY <1>1, <1>2, <1>3, <1>4 DEF TypeInv

(* The step into the preparation of the next location, or out of it. *)
LEMMA PreparedType ==
  ASSUME TypeInv, NEW r \in Runs, pc[r] \in Preparing, Prepared(r)
  PROVE  /\ at' \in [Runs -> Loc \union {None}]
         /\ pc' \in [Runs -> {"idle"} \union ActiveAt \union Ended]
         /\ at' = [at EXCEPT ![r] = at'[r]]
         /\ pc' = [pc EXCEPT ![r] = pc'[r]]
         /\ \/ pc'[r] \in {"wipe", "mkdir"} /\ at'[r] = opt[r].dir /\ at[r] = Cache
            \/ pc'[r] = "readStd" /\ at'[r] = None /\ at[r] # Cache
         /\ pc'[r] = "wipe" => opt[r].inval
<1> USE ConstantsAssumption
<1>1. opt[r] \in CommandLine
  BY DEF TypeInv, Shape, Active, ActiveAt
<1>2. opt[r].dir \in Loc
  BY <1>1 DEF CommandLine, Loc
<1>3. CASE at[r] = Cache
  BY <1>2, <1>3 DEF TypeInv, MemoryType, ControlType, Prepared, Goto, FirstLabel, ActiveAt, Preparing
<1>4. CASE at[r] # Cache
  BY <1>4 DEF TypeInv, MemoryType, ControlType, Prepared, Goto, ActiveAt, Reading
<1> QED
  BY <1>3, <1>4

(* What an append leaves behind. *)
LEMMA AppendType ==
  ASSUME TypeInv, NEW r \in Runs, NEW l \in Files, cur[r] \in Record, Append(r, l)
  PROVE  /\ file' \in [Files -> File \union {None}]
         /\ file' = [file EXCEPT ![l] = file'[l]]
         /\ Contents(file'[l]) \subseteq Contents(file[l]) \union {cur[r]}
         /\ Contents(file[l]) \subseteq Contents(file'[l])
         /\ marks \subseteq marks'
         /\ marks' \subseteq marks \union {<<"cut", l>>}
         /\ marks' \subseteq Kinds \X Files
<1> USE ConstantsAssumption
<1>1. /\ EmptyFile \in File
      /\ [EmptyFile EXCEPT !.first = "record"] \in File
      /\ [EmptyFile EXCEPT !.first = "record"].recs = {}
  BY DEF EmptyFile, File
<1>2. ASSUME NEW f \in File
      PROVE  /\ [f EXCEPT !.first = "record"] \in File
             /\ [f EXCEPT !.first = "record"].recs = f.recs
             /\ [f EXCEPT !.bad = TRUE] \in File
             /\ [f EXCEPT !.bad = TRUE].recs = f.recs
             /\ [f EXCEPT !.recs = @ \union {cur[r]}] \in File
             /\ [f EXCEPT !.recs = @ \union {cur[r]}].recs = f.recs \union {cur[r]}
  BY <1>2 DEF File
<1>3. file[l] \in File \union {None}
  BY DEF TypeInv, DiskType
<1>4. CASE file' = [file EXCEPT ![l] = Appended(@, cur[r], l \in exists \union {UserFile})]
           /\ UNCHANGED marks
  <2>1. /\ Appended(file[l], cur[r], l \in exists \union {UserFile}) \in File \union {None}
        /\ Contents(Appended(file[l], cur[r], l \in exists \union {UserFile}))
             \subseteq Contents(file[l]) \union {cur[r]}
        /\ Contents(file[l]) \subseteq
             Contents(Appended(file[l], cur[r], l \in exists \union {UserFile}))
    BY <1>1, <1>2, <1>3, NoneAssumption DEF Appended, Contents
  <2> QED
    BY <1>4, <2>1 DEF TypeInv, DiskType
<1>5. CASE /\ file[l] # None
           /\ file' = [file EXCEPT ![l] = IF @.first = "empty"
                                         THEN [@ EXCEPT !.first = "record"]
                                         ELSE [@ EXCEPT !.bad = TRUE]]
           /\ marks' = marks \union {<<"cut", l>>}
  <2>1. /\ file'[l] \in File /\ file'[l].recs = file[l].recs
        /\ file' \in [Files -> File \union {None}]
        /\ file' = [file EXCEPT ![l] = file'[l]]
    BY <1>2, <1>3, <1>5 DEF TypeInv, DiskType
  <2>2. Contents(file'[l]) = Contents(file[l])
    BY <1>5, <2>1, NoneAssumption DEF Contents
  <2>3. marks' \subseteq Kinds \X Files
    BY <1>5 DEF TypeInv, DiskType, Kinds
  <2> QED
    BY <1>5, <2>1, <2>2, <2>3
<1> QED
  BY <1>4, <1>5 DEF Append

(* Every step keeps the types: one step of the proof per action. *)
LEMMA TypeStep == TypeInv /\ [Next]_vars => TypeInv'
<1> SUFFICES ASSUME TypeInv, [Next]_vars
             PROVE  TypeInv'
  OBVIOUS
<1> USE ConstantsAssumption
<1>u. CASE UNCHANGED vars
  BY <1>u DEF vars, disk, memory, TypeInv, DiskType, MemoryType, ControlType, Shape, Active
<1>o. \A r \in Runs : Active(r) => opt[r] \in CommandLine /\ opt[r].dir \in Loc
  BY DEF TypeInv, Shape, CommandLine, Loc
<1>a. \A r \in Runs : pc[r] \in Preparing => at[r] \in Loc
  BY <1>o DEF TypeInv, Shape, Loc, Active, ActiveAt
<1>1. ASSUME NEW r \in Runs, Start(r)
      PROVE  TypeInv'
  <2>1. PICK o \in Options : opt' = [opt EXCEPT ![r] = o] /\ Goto(r, FirstLabel(o, Cache))
    BY <1>1 DEF Start
  <2>2. FirstLabel(o, Cache) \in {"wipe", "mkdir"}
    BY DEF FirstLabel
  <2>3. DiskType'
    BY <1>1 DEF Start, disk, TypeInv, DiskType
  <2>4. MemoryType'
    BY <1>1, <2>1 DEF Start, TypeInv, MemoryType, Loc
  <2>5. ControlType'
    BY <1>1, <2>1, <2>2 DEF Start, Goto, TypeInv, ControlType, ActiveAt, Preparing
  <2>6. Shape'
    BY <1>1, <2>1, <2>2 DEF Start, Goto, TypeInv, MemoryType, ControlType, Shape, Active,
         ActiveAt, Preparing, Reading, Working, Busy
  <2> QED
    BY <2>3, <2>4, <2>5, <2>6 DEF TypeInv
<1>2. ASSUME NEW r \in Runs, RemoveFile(r)
      PROVE  TypeInv'
  BY <1>2, <1>a DEF RemoveFile, memory, TypeInv, DiskType, MemoryType, ControlType, Shape, Active
<1>3. ASSUME NEW r \in Runs, NEW u \in Units, RemoveNetlist(r, u)
      PROVE  TypeInv'
  BY <1>3, <1>a DEF RemoveNetlist, memory, TypeInv, DiskType, MemoryType, ControlType, Shape, Active
<1>4. ASSUME NEW r \in Runs, RemoveDirectory(r)
      PROVE  TypeInv'
  BY <1>4, <1>a DEF RemoveDirectory, Goto, memory, TypeInv, DiskType, MemoryType, ControlType,
       Shape, Active, ActiveAt, Preparing, Reading, Working, Busy
<1>5. ASSUME NEW r \in Runs, RemovalFails(r)
      PROVE  TypeInv'
  BY <1>5, ExitType DEF RemovalFails
<1>6. ASSUME NEW r \in Runs, CreateDirectory(r)
      PROVE  TypeInv'
  BY <1>6, <1>a DEF CreateDirectory, Goto, memory, TypeInv, DiskType, MemoryType, ControlType,
       Shape, Active, ActiveAt, Preparing, Reading, Working, Busy
<1>7. ASSUME NEW r \in Runs, FindFile(r)
      PROVE  TypeInv'
  <2>1. CASE file[at[r]] = None
    BY <1>7, <2>1 DEF FindFile, Goto, disk, TypeInv, DiskType, MemoryType, ControlType,
         Shape, Active, ActiveAt, Preparing, Reading, Working, Busy
  <2>2. CASE file[at[r]] # None
    <3>1. pc[r] \in Preparing /\ Prepared(r)
      BY <1>7, <2>2 DEF FindFile, Preparing
    <3> QED
      BY <1>7, <3>1, PreparedType DEF FindFile, disk, TypeInv, DiskType, MemoryType, ControlType,
           Shape, Active, ActiveAt, Preparing, Reading, Working, Busy
  <2> QED
    BY <2>1, <2>2
<1>8. ASSUME NEW r \in Runs, CreateFile(r)
      PROVE  TypeInv'
  <2>1. EmptyFile \in File
    BY DEF EmptyFile, File
  <2> QED
    BY <1>8, <1>a, <2>1 DEF CreateFile, Goto, memory, TypeInv, DiskType, MemoryType, ControlType,
         Shape, Active, ActiveAt, Preparing, Reading, Working, Busy
<1>9. ASSUME NEW r \in Runs, WriteHeader(r)
      PROVE  TypeInv'
  <2>1. pc[r] \in Preparing /\ Prepared(r) /\ at[r] \in Loc /\ at[r] \in Files
    BY <1>9, <1>a DEF WriteHeader, Preparing, Files
  <2>2. opt[r].tech \in Techs
    BY <1>o, <2>1 DEF Active, ActiveAt, CommandLine
  <2>3. ASSUME NEW f \in File \union {None}
        PROVE  WithHeader(f, opt[r].tech) \in File \union {None}
    BY <2>2, <2>3 DEF WithHeader, File
  <2>4. DiskType'
    BY <1>9, <2>1, <2>3 DEF WriteHeader, TypeInv, DiskType
  <2> QED
    BY <1>9, <2>1, <2>4, PreparedType DEF WriteHeader, TypeInv, MemoryType, ControlType,
         Shape, Active, ActiveAt, Preparing, Reading, Working, Busy
<1>10. ASSUME NEW r \in Runs, ReadStd(r)
       PROVE  TypeInv'
  BY <1>10 DEF ReadStd, Goto, disk, TypeInv, DiskType, MemoryType, ControlType,
       Shape, Active, ActiveAt, Preparing, Reading, Working, Busy
<1>r. \A l \in Files : Contents(file[l]) \subseteq Record
  BY DEF TypeInv, DiskType, Contents, File
<1>m. \A r \in Runs : Active(r) => Metrics(r) \in Files
  BY <1>o DEF Metrics, Files
<1>11. ASSUME NEW r \in Runs, ReadLocal(r)
       PROVE  TypeInv'
  <2>1. op' \in [Runs -> SUBSET Record]
    BY <1>11, <1>r, <1>m DEF ReadLocal, Active, ActiveAt, Reading, TypeInv, MemoryType
  <2>2. have' \in [Runs -> BOOLEAN]
    BY <1>11 DEF ReadLocal, TypeInv, MemoryType
  <2> QED
    BY <1>11, <2>1, <2>2 DEF ReadLocal, Goto, disk, TypeInv, DiskType, MemoryType, ControlType,
       Shape, Active, ActiveAt, Preparing, Reading, Working, Busy
<1>12. ASSUME NEW r \in Runs, ReadCache(r)
       PROVE  TypeInv'
  <2>1. cached' \in [Runs -> SUBSET Record]
    BY <1>12, <1>r DEF ReadCache, Files, Loc, TypeInv, MemoryType
  <2>2. have' \in [Runs -> BOOLEAN]
    BY <1>12 DEF ReadCache, TypeInv, MemoryType
  <2>3. DiskType'
    BY <1>12, <1>o DEF ReadCache, disk, TypeInv, DiskType, Kinds, Files, Active, ActiveAt, Reading
  <2> QED
    BY <1>12, <2>1, <2>2, <2>3 DEF ReadCache, Goto, TypeInv, MemoryType, ControlType,
       Shape, Active, ActiveAt, Preparing, Reading, Working, Busy
<1>13. ASSUME NEW r \in Runs, RejectFile(r)
       PROVE  TypeInv'
  <2>1. PICK w \in {"incompatible", "malformed", "different"} : Exit(r, w)
    BY <1>13 DEF RejectFile, Objections
  <2> QED
    BY <2>1, ExitType
<1>14. ASSUME NEW r \in Runs, NoMetrics(r)
       PROVE  TypeInv'
  BY <1>14, ExitType DEF NoMetrics
<1>n. \A r \in Runs : NextUse(r) => /\ left' \in [Runs -> 0..MaxUses]
                                  /\ pc[r] = "translate" /\ Active(r)
  BY DEF NextUse, TypeInv, MemoryType, Active, ActiveAt, Working
<1>15. ASSUME NEW r \in Runs, FindUnit(r)
       PROVE  TypeInv'
  <2>1. PICK rec \in op[r] : cur' = [cur EXCEPT ![r] = rec]
    BY <1>15 DEF FindUnit
  <2>2. rec \in Record
    BY DEF TypeInv, MemoryType
  <2> QED
    BY <1>15, <1>n, <2>1, <2>2 DEF FindUnit, Goto, disk, TypeInv, DiskType, MemoryType, ControlType,
       Shape, Active, ActiveAt, Preparing, Reading, Working, Busy
<1>16. ASSUME NEW r \in Runs, CopyFromCache(r)
       PROVE  TypeInv'
  <2>1. CASE Exit(r, "missing")
    BY <2>1, ExitType
  <2>2. CASE ~Exit(r, "missing")
    <3>1. PICK rec \in cached[r] :
            /\ NextUse(r)
            /\ nets' = [nets EXCEPT ![opt[r].dir][rec.unit] = Partial]
            /\ cur' = [cur EXCEPT ![r] = rec]
            /\ Goto(r, "fetching")
            /\ UNCHANGED <<exists, file, opt, at, have, op, cached, used, why, marks>>
      BY <1>16, <2>2 DEF CopyFromCache
    <3>2. rec \in Record /\ rec.unit \in Units
      BY DEF TypeInv, MemoryType, Record
    <3>4. nets' \in [Loc -> [Units -> Result \union {Partial, None}]]
      BY <1>n, <1>o, <3>1, <3>2 DEF TypeInv, DiskType
    <3> QED
      BY <1>n, <3>1, <3>2, <3>4 DEF Goto, TypeInv, DiskType, MemoryType, ControlType,
           Shape, Active, ActiveAt, Preparing, Reading, Working, Busy
  <2> QED
    BY <2>1, <2>2
<1>17. ASSUME NEW r \in Runs, RecordHit(r)
       PROVE  TypeInv'
  <2>1. /\ file' \in [Files -> File \union {None}]
        /\ marks' \subseteq Kinds \X Files
    BY <1>17, <1>m, AppendType DEF RecordHit, TypeInv, Shape, Active, ActiveAt, Working, Busy
  <2> QED
    BY <1>17, <2>1 DEF RecordHit, Goto, memory, TypeInv, DiskType, MemoryType, ControlType,
       Shape, Active, ActiveAt, Preparing, Reading, Working, Busy
<1>18. ASSUME NEW r \in Runs, UseRecord(r)
       PROVE  TypeInv'
  <2>1. cur[r] \in Record
    BY <1>18 DEF UseRecord, TypeInv, Shape, Busy
  <2> QED
    BY <1>18, <2>1 DEF UseRecord, Goto, disk, TypeInv, DiskType, MemoryType, ControlType,
       Shape, Active, ActiveAt, Preparing, Reading, Working, Busy
<1>19. ASSUME NEW r \in Runs, NoTemplate(r)
       PROVE  TypeInv'
  BY <1>19, ExitType DEF NoTemplate
<1>20. ASSUME NEW r \in Runs, Optimize(r)
       PROVE  TypeInv'
  <2>1. PICK u \in Unmeasured(r), v \in Values :
          /\ UNCHANGED nets \/ nets' = [nets EXCEPT ![opt[r].dir][u] = Partial]
          /\ cur' = [cur EXCEPT ![r] =
                        [unit |-> u, res |-> [tech |-> opt[r].tech, val |-> v]]]
    BY <1>20 DEF Optimize
  <2> DEFINE res == [tech |-> opt[r].tech, val |-> v]
  <2>2. u \in Units /\ opt[r].tech \in Techs /\ opt[r].dir \in Loc
    BY <1>20, <1>n, <1>o DEF Unmeasured, Optimize, CommandLine
  <2>3. res \in Result /\ [unit |-> u, res |-> res] \in Record
    BY <2>2 DEF Result, Record
  <2> HIDE DEF res
  <2>4. nets' \in [Loc -> [Units -> Result \union {Partial, None}]]
    BY <2>1, <2>2 DEF TypeInv, DiskType
  <2>5. cur' \in [Runs -> Record \union {None}] /\ cur' = [cur EXCEPT ![r] = cur'[r]]
         /\ cur'[r] \in Record
    BY <2>1, <2>3 DEF res, TypeInv, MemoryType
  <2> QED
    BY <1>20, <1>n, <2>4, <2>5 DEF Optimize, Goto, TypeInv, DiskType, MemoryType, ControlType,
       Shape, Active, ActiveAt, Preparing, Reading, Working, Busy
<1>21. ASSUME NEW r \in Runs, CopyToCache(r)
       PROVE  TypeInv'
  <2>1. CASE Exit(r, "missing")
    BY <2>1, ExitType
  <2>2. CASE ~Exit(r, "missing")
    <3>1. nets' = [nets EXCEPT ![Cache][cur[r].unit] = Partial]
      BY <1>21, <2>2 DEF CopyToCache
    <3>2. nets' \in [Loc -> [Units -> Result \union {Partial, None}]]
      BY <3>1 DEF TypeInv, DiskType
    <3> QED
      BY <1>21, <2>2, <3>2 DEF CopyToCache, Goto, memory, TypeInv, DiskType, MemoryType,
           ControlType, Shape, Active, ActiveAt, Preparing, Reading, Working, Busy
  <2> QED
    BY <2>1, <2>2
<1>22. ASSUME NEW r \in Runs, RecordLocal(r)
       PROVE  TypeInv'
  <2>1. /\ file' \in [Files -> File \union {None}]
        /\ marks' \subseteq Kinds \X Files
    BY <1>22, <1>m, AppendType DEF RecordLocal, TypeInv, Shape, Active, ActiveAt, Working, Busy
  <2> QED
    BY <1>22, <2>1 DEF RecordLocal, Goto, memory, TypeInv, DiskType, MemoryType, ControlType,
       Shape, Active, ActiveAt, Preparing, Reading, Working, Busy
<1>23. ASSUME NEW r \in Runs, RecordInCache(r)
       PROVE  TypeInv'
  <2>1. cur[r] \in Record
    BY <1>23 DEF RecordInCache, TypeInv, Shape, Busy
  <2>2. /\ file' \in [Files -> File \union {None}]
        /\ marks' \subseteq Kinds \X Files
    BY <1>23, <2>1, AppendType DEF RecordInCache, Files, Loc
  <2> QED
    BY <1>23, <2>1, <2>2 DEF RecordInCache, Learned, Goto, TypeInv, DiskType, MemoryType,
       ControlType, Shape, Active, ActiveAt, Preparing, Reading, Working, Busy
<1>24. ASSUME NEW r \in Runs, Finish(r)
       PROVE  TypeInv'
  <2>1. MemoryType' /\ Shape'
    BY <1>24, ForgetType DEF Finish, Goto
  <2> QED
    BY <1>24, <2>1 DEF Finish, Goto, disk, TypeInv, DiskType, ControlType, Ended
<1>s. \A r \in Runs : Stopped(r) \subseteq Kinds \X Files
  <2>1. ASSUME NEW r \in Runs, Stranded(r)
        PROVE  opt[r].dir \in Files
    BY <1>o, <2>1 DEF Stranded, Active, ActiveAt, Working, Busy, Files
  <2> QED
    BY <2>1 DEF Stopped, Kinds, TypeInv, DiskType
<1>25. ASSUME NEW r \in Runs, Kill(r)
       PROVE  TypeInv'
  <2>1. MemoryType' /\ Shape'
    BY <1>25, ForgetType DEF Kill, Goto
  <2>2. marks' \subseteq Kinds \X Files
    BY <1>25, <1>a, <1>s DEF Kill, Kinds, Files, TypeInv, DiskType, Preparing
  <2> QED
    BY <1>25, <2>1, <2>2 DEF Kill, Goto, disk, TypeInv, DiskType, ControlType, Ended
<1>26. ASSUME NEW r \in Runs, CopyFails(r)
       PROVE  TypeInv'
  BY <1>26, <1>s, LeaveType DEF CopyFails
<1>27. ASSUME NEW r \in Runs, Writes(r)
       PROVE  TypeInv'
  <2>1. /\ pc[r] \in Busy /\ pc'[r] \in Busy /\ pc' = [pc EXCEPT ![r] = pc'[r]]
        /\ UNCHANGED <<exists, file, memory, why, marks>>
    BY <1>27, WritesKeep
  <2>2. cur[r] \in Record /\ cur[r].unit \in Units /\ cur[r].res \in Result
        /\ opt[r].dir \in Loc /\ Cache \in Loc
    BY <1>o, <2>1 DEF TypeInv, Shape, Active, ActiveAt, Working, Record, Loc
  <2>3. nets' \in [Loc -> [Units -> Result \union {Partial, None}]]
    <3>1. CASE FinishFetch(r) \/ FinishStore(r)
      BY <2>2, <3>1, CopiedNets DEF FinishFetch, FinishStore
    <3>2. CASE FinishOptimize(r)
      BY <2>2, <3>2 DEF FinishOptimize, TypeInv, DiskType
    <3> QED
      BY <1>27, <3>1, <3>2 DEF Writes
  <2> QED
    BY <2>1, <2>2, <2>3 DEF memory, TypeInv, DiskType, MemoryType, ControlType, Shape, Active,
         ActiveAt, Preparing, Reading, Working, Busy
<1> QED
  BY <1>u, <1>1, <1>2, <1>3, <1>4, <1>5, <1>6, <1>7, <1>8, <1>9, <1>10, <1>11, <1>12, <1>13,
     <1>14, <1>15, <1>16, <1>17, <1>18, <1>19, <1>20, <1>21, <1>22, <1>23, <1>24, <1>25, <1>26,
     <1>27 DEF Next, Step, Prepare, Read, Translate, Writes

(* Every variable keeps its type in every run of the program. *)
THEOREM TypeInvTheorem == Spec => []TypeInv
<1> QED
  BY InitType, TypeStep, PTL DEF Spec

(* The state of the store and of the runs keeps its type. *)
THEOREM TypeOKTheorem == Spec => []TypeOK
<1>1. TypeInv => TypeOK
  BY DEF TypeInv, TypeOK, DiskType, MemoryType, ControlType
<1> QED
  BY <1>1, TypeInvTheorem, PTL

-----------------------------------------------------------------------------
(* What a step of one run does to the others, to the files, to the         *)
(* netlists and to where the run is.                                       *)

Moves(r) == Start(r) \/ Step(r) \/ Kill(r)

(* What a run has in memory is its own. *)
LEMMA OthersStay ==
  ASSUME TypeInv, NEW r \in Runs, Moves(r), NEW s \in Runs, s # r
  PROVE  /\ pc'[s] = pc[s] /\ opt'[s] = opt[s] /\ at'[s] = at[s]
         /\ op'[s] = op[s] /\ cached'[s] = cached[s]
         /\ cur'[s] = cur[s] /\ used'[s] = used[s]
<1>1. CASE Start(r)
  BY <1>1 DEF Start, Goto, TypeInv, MemoryType, ControlType
<1>2. CASE Prepare(r)
  BY <1>2 DEF Prepare, RemoveFile, RemoveNetlist, RemoveDirectory, RemovalFails, CreateDirectory,
       FindFile, CreateFile, WriteHeader, Prepared, Exit, Leave, Forget, memory, Goto, TypeInv,
       MemoryType, ControlType
<1>3. CASE Read(r)
  BY <1>3 DEF Read, ReadStd, ReadLocal, ReadCache, RejectFile, Exit, Leave, Forget, Goto, TypeInv,
       MemoryType, ControlType
<1>4. CASE Translate(r)
  <2>1. CASE NoMetrics(r) \/ RecordHit(r) \/ UseRecord(r)
    BY <2>1 DEF NoMetrics, RecordHit, UseRecord, Exit, Leave, Forget, memory, Goto, TypeInv,
         MemoryType, ControlType
  <2>2. CASE FindUnit(r)
    BY <2>2 DEF FindUnit, NextUse, Goto, TypeInv, MemoryType, ControlType
  <2>3. CASE CopyFromCache(r)
    BY <2>3 DEF CopyFromCache, NextUse, Exit, Leave, Forget, Goto, TypeInv, MemoryType, ControlType
  <2>4. CASE NoTemplate(r) \/ RecordLocal(r) \/ RecordInCache(r) \/ Finish(r)
    BY <2>4 DEF NoTemplate, RecordLocal, RecordInCache, Finish, Exit, Leave, Forget, memory, Goto,
         TypeInv, MemoryType, ControlType
  <2>5. CASE Optimize(r)
    BY <2>5 DEF Optimize, NextUse, Goto, TypeInv, MemoryType, ControlType
  <2>6. CASE CopyToCache(r)
    BY <2>6 DEF CopyToCache, Exit, Leave, Forget, memory, Goto, TypeInv, MemoryType, ControlType
  <2>7. CASE Writes(r)
    BY <2>7, WritesKeep DEF memory, TypeInv, ControlType
  <2>8. CASE CopyFails(r)
    BY <2>8 DEF CopyFails, Leave, Forget, Goto, TypeInv, MemoryType, ControlType
  <2> QED
    BY <1>4, <2>1, <2>2, <2>3, <2>4, <2>5, <2>6, <2>7, <2>8 DEF Translate, Writes
<1>5. CASE Kill(r)
  BY <1>5 DEF Kill, Forget, Goto, TypeInv, MemoryType, ControlType
<1> QED
  BY <1>1, <1>2, <1>3, <1>4, <1>5 DEF Moves, Step

(* Each place of a run that has read its files is reached by few actions.  *)
LEMMA Flow ==
  ASSUME TypeInv, NEW r \in Runs, Moves(r), pc'[r] \in {"readCache"} \union Working
  PROVE  \/ pc'[r] = "readCache" /\ ReadLocal(r)
         \/ pc'[r] = "translate" /\ (ReadCache(r) \/ UseRecord(r) \/ RecordInCache(r))
         \/ pc'[r] = "fetching" /\ CopyFromCache(r)
         \/ pc'[r] = "hit" /\ FinishFetch(r)
         \/ pc'[r] = "optimizing" /\ Optimize(r)
         \/ pc'[r] = "optimized" /\ FinishOptimize(r)
         \/ pc'[r] = "storing" /\ CopyToCache(r)
         \/ pc'[r] = "copied" /\ FinishStore(r)
         \/ pc'[r] = "recorded" /\ RecordLocal(r)
         \/ pc'[r] = "control" /\ (FindUnit(r) \/ RecordHit(r))
<1>p. pc \in [Runs -> {"idle"} \union ActiveAt \union Ended]
  BY DEF TypeInv, ControlType
<1>1. CASE Start(r)
  BY <1>1, <1>p DEF Start, FirstLabel, Goto, Working, Busy
<1>2. CASE Prepare(r)
  BY <1>2, <1>p DEF Prepare, RemoveFile, RemoveNetlist, RemoveDirectory, RemovalFails,
       CreateDirectory, FindFile, CreateFile, WriteHeader, Prepared, FirstLabel, Exit, Leave, Goto,
       Working, Busy
<1>3. CASE Read(r)
  BY <1>3, <1>p DEF Read, ReadStd, ReadLocal, ReadCache, RejectFile, Exit, Leave, Goto, Working, Busy
<1>4. CASE NoMetrics(r) \/ NoTemplate(r) \/ UseRecord(r) \/ RecordInCache(r) \/ Finish(r)
  BY <1>4, <1>p DEF NoMetrics, NoTemplate, UseRecord, RecordInCache, Finish, Exit, Leave, Goto,
       Working, Busy
<1>5. CASE CopyFromCache(r)
  BY <1>5, <1>p DEF CopyFromCache, Exit, Leave, Goto, Working, Busy
<1>6. CASE Optimize(r)
  BY <1>6, <1>p DEF Optimize, Goto
<1>7. CASE CopyToCache(r)
  BY <1>7, <1>p DEF CopyToCache, Exit, Leave, Goto, Working, Busy
<1>8. CASE RecordLocal(r)
  BY <1>8, <1>p DEF RecordLocal, Goto
<1>9. CASE FindUnit(r) \/ RecordHit(r)
  BY <1>9, <1>p DEF FindUnit, RecordHit, Goto
<1>10. CASE Kill(r) \/ CopyFails(r)
  BY <1>10, <1>p DEF Kill, CopyFails, Leave, Goto, Working, Busy
<1>11. CASE Writes(r)
  BY <1>11, WritesKeep
<1> QED
  BY <1>1, <1>2, <1>3, <1>4, <1>5, <1>6, <1>7, <1>8, <1>9, <1>10, <1>11
     DEF Moves, Step, Translate, Writes

(* A copy that has begun is finished, fails or is killed.                  *)
LEMMA FromFetching ==
  ASSUME TypeInv, NEW r \in Runs, Moves(r), pc[r] = "fetching"
  PROVE  \/ FinishFetch(r) /\ pc'[r] = "hit"
         \/ /\ CopyFails(r) \/ Kill(r)
            /\ pc'[r] \notin ActiveAt /\ marks' = Stopped(r)
<1>1. ~Start(r) /\ ~Read(r) /\ ~Prepare(r)
  BY DEF Start, Read, ReadStd, ReadLocal, ReadCache, RejectFile, Prepare, RemoveFile, RemoveNetlist,
     RemoveDirectory, RemovalFails, CreateDirectory, FindFile, CreateFile, WriteHeader
<1>2. FinishFetch(r) \/ CopyFails(r) \/ Kill(r)
  BY <1>1 DEF Moves, Step, Translate, NoMetrics, FindUnit, CopyFromCache, RecordHit, UseRecord,
     NoTemplate, Optimize, FinishOptimize, CopyToCache, FinishStore, RecordLocal, RecordInCache,
     Finish, NextUse
<1>3. FinishFetch(r) => pc'[r] = "hit"
  BY DEF FinishFetch, Goto, TypeInv, ControlType
<1>4. CopyFails(r) \/ Kill(r) => pc'[r] \notin ActiveAt /\ marks' = Stopped(r)
  BY DEF CopyFails, Kill, Leave, Goto, TypeInv, ControlType, ActiveAt, Preparing, Reading, Working,
     Busy
<1> QED
  BY <1>2, <1>3, <1>4

(* The record a step of the run appends to a metrics file. *)
Adds(r, l) ==
  IF \/ pc[r] \in {"hit", "copied"} /\ l = Metrics(r)
     \/ pc[r] = "recorded" /\ l = Cache
  THEN {cur[r]} ELSE {}

LEMMA FileStep ==
  ASSUME TypeInv, NEW r \in Runs, Moves(r), NEW l \in Files
  PROVE  Contents(file'[l]) \subseteq Contents(file[l]) \union Adds(r, l)
<1> USE ConstantsAssumption
<1>f. file \in [Files -> File \union {None}]
  BY DEF TypeInv, DiskType
<1>c. Contents(None) = {}
  BY DEF Contents
<1>1. CASE UNCHANGED file
  BY <1>1
<1>2. CASE RemoveFile(r)
  BY <1>2, <1>f, <1>c DEF RemoveFile
<1>3. CASE CreateFile(r)
  <2>1. Contents(EmptyFile) = {}
    BY DEF Contents, EmptyFile
  <2>2. file' = [file EXCEPT ![at[r]] = IF @ = None THEN EmptyFile ELSE @]
    BY <1>3 DEF CreateFile
  <2>3. file'[l] \in {file[l], EmptyFile}
    BY <1>f, <2>2
  <2> QED
    BY <2>1, <2>3
<1>4. CASE WriteHeader(r)
  <2>1. ASSUME NEW f \in File \union {None}
        PROVE  Contents(WithHeader(f, opt[r].tech)) \subseteq Contents(f)
    BY <2>1 DEF WithHeader, Contents, File
  <2>2. file' = [file EXCEPT ![at[r]] = WithHeader(@, opt[r].tech)]
    BY <1>4 DEF WriteHeader
  <2> QED
    BY <1>f, <2>1, <2>2
<1>5. CASE RecordHit(r) \/ RecordLocal(r)
  <2>1. /\ cur[r] \in Record /\ Metrics(r) \in Files /\ Append(r, Metrics(r))
        /\ Adds(r, Metrics(r)) = {cur[r]}
    BY <1>5 DEF RecordHit, RecordLocal, TypeInv, Shape, Active, ActiveAt, Working, Busy, Adds,
         Metrics, Files, CommandLine, Loc
  <2> QED
    BY <1>f, <2>1, AppendType
<1>6. CASE RecordInCache(r)
  <2>1. cur[r] \in Record /\ Cache \in Files /\ Append(r, Cache) /\ Adds(r, Cache) = {cur[r]}
    BY <1>6 DEF RecordInCache, TypeInv, Shape, Busy, Adds, Files, Loc
  <2> QED
    BY <1>f, <2>1, AppendType
<1>7. CASE Start(r) \/ Read(r) \/ Kill(r)
  BY <1>7, <1>1 DEF Start, Read, ReadStd, ReadLocal, ReadCache, RejectFile, Kill, Exit, Leave, disk
<1>8. CASE RemoveDirectory(r) \/ RemovalFails(r) \/ CreateDirectory(r) \/ FindFile(r)
           \/ \E u \in Units : RemoveNetlist(r, u)
  BY <1>8, <1>1 DEF RemoveNetlist, RemoveDirectory, RemovalFails, CreateDirectory, FindFile,
       Exit, Leave, disk
<1>9. CASE NoMetrics(r) \/ FindUnit(r) \/ CopyFromCache(r) \/ UseRecord(r) \/ NoTemplate(r)
           \/ Optimize(r) \/ CopyToCache(r) \/ Finish(r) \/ CopyFails(r)
  BY <1>9, <1>1 DEF NoMetrics, FindUnit, CopyFromCache, UseRecord, NoTemplate, Optimize,
       CopyToCache, Finish, CopyFails, Exit, Leave, disk
<1>10. CASE Writes(r)
  BY <1>10, <1>1, WritesKeep
<1> QED
  BY <1>2, <1>3, <1>4, <1>5, <1>6, <1>7, <1>8, <1>9, <1>10
     DEF Moves, Step, Prepare, Translate, Writes

(* The ways in which a netlist changes. *)
Wiped(r, l, u) == pc[r] = "wipe" /\ pc'[r] = "wipe" /\ l = at[r] /\ nets'[l][u] = None
Fetching(r, l, u) ==
  /\ pc[r] = "translate" /\ pc'[r] = "fetching" /\ l = opt[r].dir
  /\ cur'[r] \in cached[r] /\ cur'[r].unit = u /\ u \notin Known(op[r])
  /\ nets'[l][u] = Partial
Fetched(r, l, u) ==
  /\ pc[r] = "fetching" /\ pc'[r] = "hit" /\ l = opt[r].dir /\ cur[r].unit = u
  /\ Copied(r, u, Cache, l)
Optimizing(r, l, u) ==
  /\ pc[r] = "translate" /\ pc'[r] = "optimizing" /\ l = opt[r].dir
  /\ u \in Unmeasured(r) /\ cur'[r].unit = u
  /\ nets'[l][u] = Partial
Optimized(r, l, u) ==
  /\ pc[r] = "optimizing" /\ pc'[r] = "optimized" /\ l = opt[r].dir /\ cur[r].unit = u
  /\ nets'[l][u] = cur[r].res
Storing(r, l, u) ==
  /\ pc[r] = "optimized" /\ pc'[r] = "storing" /\ l = Cache /\ cur[r].unit = u
  /\ nets'[l][u] = Partial
Stored(r, l, u) ==
  /\ pc[r] = "storing" /\ pc'[r] = "copied" /\ l = Cache /\ cur[r].unit = u
  /\ Copied(r, u, opt[r].dir, l)

LEMMA NetsStep ==
  ASSUME TypeInv, NEW r \in Runs, Moves(r), NEW l \in Loc, NEW u \in Units
  PROVE  \/ nets'[l][u] = nets[l][u]
         \/ Wiped(r, l, u)
         \/ Fetching(r, l, u) \/ Optimizing(r, l, u) \/ Storing(r, l, u)
         \/ Fetched(r, l, u) \/ Optimized(r, l, u) \/ Stored(r, l, u)
<1> USE ConstantsAssumption
<1>n. nets \in [Loc -> [Units -> Result \union {Partial, None}]] /\ Cache \in Loc
  BY DEF TypeInv, DiskType, Loc
<1>o. pc[r] = "translate" \/ pc[r] \in Busy => opt[r] \in CommandLine /\ opt[r].dir \in Loc
  BY DEF TypeInv, Shape, Active, ActiveAt, Working, CommandLine, Loc
<1>1. CASE UNCHANGED nets
  BY <1>1
<1>2. CASE \E x \in Units : RemoveNetlist(r, x)
  <2>1. PICK x \in Units : /\ pc[r] = "wipe" /\ pc' = pc
                           /\ nets' = [nets EXCEPT ![at[r]][x] = None]
    BY <1>2 DEF RemoveNetlist
  <2>2. CASE l = at[r] /\ u = x
    BY <1>n, <2>1, <2>2 DEF Wiped
  <2>3. CASE ~(l = at[r] /\ u = x)
    BY <1>n, <2>1, <2>3
  <2> QED
    BY <2>2, <2>3
<1>3. CASE CopyFromCache(r)
  <2>1. CASE Exit(r, "missing")
    BY <2>1, <1>1 DEF Exit, Leave, disk
  <2>2. CASE ~Exit(r, "missing")
    <3>1. PICK rec \in cached[r] :
            /\ pc[r] = "translate" /\ rec.unit \notin Known(op[r])
            /\ nets' = [nets EXCEPT ![opt[r].dir][rec.unit] = Partial]
            /\ cur' = [cur EXCEPT ![r] = rec]
            /\ pc' = [pc EXCEPT ![r] = "fetching"]
      BY <1>3, <2>2 DEF CopyFromCache, NextUse, Goto
    <3>2. CASE l = opt[r].dir /\ u = rec.unit
      <4>1. cur'[r] = rec /\ pc'[r] = "fetching"
        BY <3>1 DEF TypeInv, MemoryType, ControlType
      <4>2. nets'[l][u] = Partial
        BY <1>n, <1>o, <3>1, <3>2
      <4> QED
        BY <3>1, <3>2, <4>1, <4>2 DEF Fetching
    <3>3. CASE ~(l = opt[r].dir /\ u = rec.unit)
      BY <1>n, <3>1, <3>3
    <3> QED
      BY <3>2, <3>3
  <2> QED
    BY <2>1, <2>2
<1>4. CASE Optimize(r)
  <2>1. PICK x \in Unmeasured(r), v \in Values :
          /\ UNCHANGED nets \/ nets' = [nets EXCEPT ![opt[r].dir][x] = Partial]
          /\ cur' = [cur EXCEPT ![r] =
                        [unit |-> x, res |-> [tech |-> opt[r].tech, val |-> v]]]
    BY <1>4 DEF Optimize
  <2>2. /\ pc[r] = "translate" /\ pc'[r] = "optimizing" /\ cur'[r].unit = x
    BY <1>4, <2>1 DEF Optimize, NextUse, Goto, TypeInv, MemoryType, ControlType
  <2>3. CASE l = opt[r].dir /\ u = x /\ ~UNCHANGED nets
    <3>1. nets'[l][u] = Partial
      BY <1>n, <2>1, <2>3
    <3> QED
      BY <2>2, <2>3, <3>1 DEF Optimizing
  <2>4. CASE ~(l = opt[r].dir /\ u = x /\ ~UNCHANGED nets)
    BY <1>n, <2>1, <2>4
  <2> QED
    BY <2>3, <2>4
<1>5. CASE CopyToCache(r)
  <2>1. CASE Exit(r, "missing")
    BY <2>1, <1>1 DEF Exit, Leave, disk
  <2>2. CASE ~Exit(r, "missing")
    <3>1. /\ pc[r] = "optimized" /\ pc'[r] = "storing"
          /\ nets' = [nets EXCEPT ![Cache][cur[r].unit] = Partial]
      BY <1>5, <2>2 DEF CopyToCache, Goto, TypeInv, ControlType
    <3>2. CASE l = Cache /\ u = cur[r].unit
      <4>1. nets'[l][u] = Partial
        BY <1>n, <3>1, <3>2
      <4> QED
        BY <3>1, <3>2, <4>1 DEF Storing
    <3>3. CASE ~(l = Cache /\ u = cur[r].unit)
      BY <1>n, <3>1, <3>3
    <3> QED
      BY <3>2, <3>3
  <2> QED
    BY <2>1, <2>2
<1>9. CASE Writes(r)
  <2>1. cur[r].unit \in Units /\ opt[r].dir \in Loc
    BY <1>9, <1>o, WritesKeep DEF TypeInv, Shape, Record
  <2>2. CASE FinishFetch(r)
    <3>1. Copied(r, cur[r].unit, Cache, opt[r].dir)
      BY <2>2 DEF FinishFetch
    <3>2. nets'[l][u] = nets[l][u] \/ (l = opt[r].dir /\ u = cur[r].unit)
      BY <1>n, <2>1, <3>1, CopiedNets
    <3>3. pc[r] = "fetching" /\ pc'[r] = "hit"
      BY <2>2 DEF FinishFetch, Goto, TypeInv, ControlType
    <3> QED
      BY <3>1, <3>2, <3>3 DEF Fetched
  <2>3. CASE FinishStore(r)
    <3>1. Copied(r, cur[r].unit, opt[r].dir, Cache)
      BY <2>3 DEF FinishStore
    <3>2. nets'[l][u] = nets[l][u] \/ (l = Cache /\ u = cur[r].unit)
      BY <1>n, <2>1, <3>1, CopiedNets
    <3>3. pc[r] = "storing" /\ pc'[r] = "copied"
      BY <2>3 DEF FinishStore, Goto, TypeInv, ControlType
    <3> QED
      BY <3>1, <3>2, <3>3 DEF Stored
  <2>4. CASE FinishOptimize(r)
    <3>1. pc[r] = "optimizing" /\ pc'[r] = "optimized"
      BY <2>4 DEF FinishOptimize, Goto, TypeInv, ControlType
    <3>2. \/ UNCHANGED nets
          \/ nets' = [nets EXCEPT ![opt[r].dir][cur[r].unit] = cur[r].res]
      BY <2>4 DEF FinishOptimize
    <3> QED
      BY <1>n, <2>1, <3>1, <3>2 DEF Optimized
  <2> QED
    BY <1>9, <2>2, <2>3, <2>4 DEF Writes
<1>10. CASE CopyFails(r)
  BY <1>10, <1>1 DEF CopyFails, Leave, disk
<1>6. CASE Start(r) \/ Read(r) \/ Kill(r)
  BY <1>6, <1>1 DEF Start, Read, ReadStd, ReadLocal, ReadCache, RejectFile, Kill, Exit, Leave, disk
<1>7. CASE RemoveFile(r) \/ RemoveDirectory(r) \/ RemovalFails(r) \/ CreateDirectory(r)
           \/ FindFile(r) \/ CreateFile(r) \/ WriteHeader(r)
  BY <1>7, <1>1 DEF RemoveFile, RemoveDirectory, RemovalFails, CreateDirectory, FindFile,
       CreateFile, WriteHeader, Exit, Leave, disk
<1>8. CASE NoMetrics(r) \/ FindUnit(r) \/ RecordHit(r) \/ UseRecord(r) \/ NoTemplate(r)
           \/ RecordLocal(r) \/ RecordInCache(r) \/ Finish(r)
  BY <1>8, <1>1 DEF NoMetrics, FindUnit, RecordHit, UseRecord, NoTemplate, RecordLocal,
       RecordInCache, Finish, Exit, Leave, disk
<1> QED
  BY <1>2, <1>3, <1>4, <1>5, <1>6, <1>7, <1>8, <1>9, <1>10
     DEF Moves, Step, Prepare, Translate, Writes

-----------------------------------------------------------------------------
(* Runs that overlap, and locations no -i removes. *)

LEMMA InitOverlap == Init => OverlapInv
<1> SUFFICES ASSUME Init PROVE OverlapInv
  OBVIOUS
<1> QED
  BY DEF Init, OverlapInv, Deposited, Loc, Files

(* Only a location that -i may name is removed. *)
LEMMA WipesUnkept ==
  ASSUME TypeInv, OverlapInv, NEW r \in Runs, Moves(r), NEW s \in Runs, pc'[s] = "wipe"
  PROVE  ~Kept(at'[s])
<1>p. /\ pc \in [Runs -> {"idle"} \union ActiveAt \union Ended]
      /\ at \in [Runs -> Loc \union {None}]
      /\ pc[s] = "wipe" => ~Kept(at[s])
  BY DEF TypeInv, MemoryType, ControlType, OverlapInv
<1>0. CASE s # r
  BY <1>0, <1>p, OthersStay
<1>1. CASE s = r
  <2>1. CASE Start(r)
    BY <2>1, <1>1, <1>p DEF Start, FirstLabel, Goto, Kept
  <2>2. CASE (FindFile(r) /\ file[at[r]] # None) \/ WriteHeader(r)
    <3>1. pc[r] \in Preparing /\ Prepared(r) /\ opt[r] \in Options
      BY <2>2 DEF FindFile, WriteHeader, Preparing, TypeInv, Shape, Active, ActiveAt
    <3>2. at'[r] = opt[r].dir /\ opt[r].inval
      BY <1>1, <3>1, PreparedType
    <3> QED
      BY <1>1, <3>1, <3>2 DEF Kept
  <2>3. CASE FindFile(r) /\ file[at[r]] = None
    BY <2>3, <1>1, <1>p DEF FindFile, Goto
  <2>4. CASE RemoveFile(r) \/ (\E u \in Units : RemoveNetlist(r, u))
    BY <2>4, <1>1, <1>p DEF RemoveFile, RemoveNetlist, memory
  <2>5. CASE RemoveDirectory(r) \/ RemovalFails(r) \/ CreateDirectory(r) \/ CreateFile(r)
    BY <2>5, <1>1, <1>p DEF RemoveDirectory, RemovalFails, CreateDirectory, CreateFile, Exit, Leave,
         Goto
  <2>6. CASE Read(r)
    BY <2>6, <1>1, <1>p DEF Read, ReadStd, ReadLocal, ReadCache, RejectFile, Exit, Leave, Goto
  <2>7. CASE Translate(r)
    BY <2>7, <1>1, <1>p DEF Translate, NoMetrics, FindUnit, CopyFromCache, FinishFetch, CopyFails,
         RecordHit, UseRecord,
         NoTemplate, Optimize, FinishOptimize, CopyToCache, FinishStore, RecordLocal,
         RecordInCache, Finish, NextUse, Exit, Leave, Goto
  <2>8. CASE Kill(r)
    BY <2>8, <1>1, <1>p DEF Kill, Goto
  <2> QED
    BY <2>1, <2>2, <2>3, <2>4, <2>5, <2>6, <2>7, <2>8 DEF Moves, Step, Prepare
<1> QED
  BY <1>0, <1>1

(* Where nothing is removed a netlist stays, in this form or another. *)
LEMMA NetlistsStay ==
  ASSUME TypeInv, OverlapInv, NEW r \in Runs, Moves(r),
         NEW l \in Loc, Kept(l), NEW u \in Units, nets[l][u] # None
  PROVE  nets'[l][u] # None
<1>1. ~Wiped(r, l, u)
  BY DEF OverlapInv, Wiped
<1>2. CASE Fetched(r, l, u)
  BY <1>2, CopiedNets DEF Fetched, Loc
<1>3. CASE Stored(r, l, u)
  <2>1. opt[r].dir \in Loc
    BY <1>3, ConstantsAssumption DEF Stored, TypeInv, Shape, Active, ActiveAt, Working, Busy,
         CommandLine, Loc
  <2> QED
    BY <1>3, <2>1, CopiedNets DEF Stored
<1>4. CASE Optimized(r, l, u)
  <2>1. cur[r] \in Record
    BY <1>4 DEF Optimized, TypeInv, Shape, Busy
  <2> QED
    BY <1>4, <2>1, NoneAssumption DEF Optimized, Record
<1>5. CASE Fetching(r, l, u) \/ Optimizing(r, l, u) \/ Storing(r, l, u)
  BY <1>5, NoneAssumption DEF Fetching, Optimizing, Storing
<1> QED
  BY <1>1, <1>2, <1>3, <1>4, <1>5, NetsStep

LEMMA OverlapStep == TypeInv /\ OverlapInv /\ [Next]_vars => OverlapInv'
<1> SUFFICES ASSUME TypeInv, OverlapInv, [Next]_vars
             PROVE  /\ \A r \in Runs : (pc'[r] = "wipe" => ~Kept(at'[r])) /\ Deposited(r)'
                    /\ \A l \in Loc : Kept(l) => \A rec \in Contents(file'[l]) :
                         nets'[l][rec.unit] # None
  BY DEF OverlapInv, Contents, Kept
<1> USE ConstantsAssumption
<1>h. \A l \in Loc : Kept(l) => \A rec \in Contents(file[l]) : nets[l][rec.unit] # None
  BY DEF OverlapInv, Contents
<1>u. CASE UNCHANGED vars
  <2>1. \A r \in Runs : (pc'[r] = "wipe" => ~Kept(at'[r])) /\ Deposited(r)'
    BY <1>u DEF vars, disk, memory, OverlapInv, Deposited, Kept
  <2> QED
    BY <1>u, <1>h, <2>1 DEF vars, disk
<1>n. ASSUME NEW r \in Runs, Moves(r)
      PROVE  /\ \A s \in Runs : (pc'[s] = "wipe" => ~Kept(at'[s])) /\ Deposited(s)'
             /\ \A l \in Loc : Kept(l) =>
                  \A rec \in Contents(file'[l]) : nets'[l][rec.unit] # None
  <2>c. ASSUME NEW s \in Runs, pc[s] \in Busy
        PROVE  /\ cur[s] \in Record /\ cur[s].unit \in Units
               /\ opt[s].dir \in Loc /\ opt[s].dir # Cache /\ Cache \in Loc
    BY <2>c DEF TypeInv, Shape, Active, ActiveAt, Working, CommandLine, Loc, Record
  <2>1. ASSUME NEW s \in Runs
        PROVE  Deposited(s)'
    <3>1. CASE s # r
      <4>1. pc'[s] = pc[s] /\ cur'[s] = cur[s] /\ opt'[s] = opt[s]
        BY <1>n, <3>1, OthersStay
      <4> QED
        BY <1>n, <2>c, <4>1, NetlistsStay DEF OverlapInv, Deposited, Busy, Kept
    <3>2. CASE s = r /\ pc'[r] = "fetching" /\ CopyFromCache(r)
      <4>1. PICK rec \in cached[r] :
              /\ pc[r] = "translate"
              /\ nets' = [nets EXCEPT ![opt[r].dir][rec.unit] = Partial]
              /\ cur' = [cur EXCEPT ![r] = rec]
              /\ opt' = opt
        <5>1. ~Exit(r, "missing")
          BY <3>2 DEF Exit, Leave, Goto, TypeInv, ControlType
        <5> QED
          BY <3>2, <5>1 DEF CopyFromCache, NextUse
      <4>2. rec \in Record /\ rec.unit \in Units /\ cur'[r] = rec
        BY <4>1 DEF TypeInv, MemoryType, Record
      <4>3. opt[r].dir \in Loc
        BY <4>1 DEF TypeInv, Shape, Active, ActiveAt, Working, CommandLine, Loc
      <4>4. nets'[opt[r].dir][rec.unit] = Partial
        BY <4>1, <4>2, <4>3 DEF TypeInv, DiskType
      <4> QED
        BY <3>2, <4>1, <4>2, <4>4, NoneAssumption DEF Deposited, Kept
    <3>3. CASE s = r /\ pc'[r] = "storing" /\ CopyToCache(r)
      <4>1. /\ pc[r] = "optimized"
            /\ nets[opt[r].dir][cur[r].unit] # None
            /\ nets' = [nets EXCEPT ![Cache][cur[r].unit] = Partial]
            /\ opt' = opt /\ cur' = cur
        <5>1. ~Exit(r, "missing")
          BY <3>3 DEF Exit, Leave, Goto, TypeInv, ControlType
        <5> QED
          BY <3>3, <5>1 DEF CopyToCache, memory
      <4>2. cur[r].unit \in Units /\ opt[r].dir \in Loc /\ Cache \in Loc
        BY <2>c, <4>1 DEF Busy
      <4>3. nets'[Cache][cur[r].unit] = Partial
        BY <4>1, <4>2 DEF TypeInv, DiskType
      <4>4. Kept(opt[r].dir) => nets'[opt[r].dir][cur[r].unit] # None
        BY <1>n, <4>1, <4>2, NetlistsStay
      <4> QED
        BY <3>3, <4>1, <4>3, <4>4, NoneAssumption DEF Deposited, Kept
    <3>4. CASE s = r /\ pc'[r] = "recorded" /\ RecordLocal(r)
      BY <3>4 DEF RecordLocal, memory, OverlapInv, Deposited, Kept
    <3>5. CASE s = r /\ (FinishFetch(r) \/ FinishStore(r))
      <4>1. /\ \/ pc[r] = "fetching" /\ pc'[r] = "hit"
               \/ pc[r] = "storing" /\ pc'[r] = "copied"
            /\ opt' = opt /\ cur' = cur
        BY <3>5, WritesKeep DEF Writes, memory, FinishFetch, FinishStore
      <4>2. cur[r].unit \in Units /\ opt[r].dir \in Loc /\ Cache \in Loc
        BY <2>c, <4>1 DEF Busy
      <4>3. /\ Kept(opt[r].dir) => nets'[opt[r].dir][cur[r].unit] # None
            /\ pc[r] = "storing" /\ Kept(Cache) => nets'[Cache][cur[r].unit] # None
        BY <1>n, <4>1, <4>2, NetlistsStay DEF OverlapInv, Deposited
      <4> QED
        BY <3>5, <4>1, <4>3 DEF Deposited, Kept
    <3>6. CASE s = r /\ pc'[r] \notin {"fetching", "hit", "storing", "copied", "recorded"}
      BY <3>6 DEF Deposited
    <3> QED
      BY <1>n, <3>1, <3>2, <3>3, <3>4, <3>5, <3>6, Flow DEF Working, Busy
  <2>2. ASSUME NEW l \in Loc, Kept(l), NEW rec \in Contents(file'[l])
        PROVE  nets'[l][rec.unit] # None
    <3>1. l \in Files
      BY DEF Files
    <3>2. CASE rec \in Contents(file[l])
      <4>1. nets[l][rec.unit] # None
        BY <1>h, <2>2, <3>2
      <4>2. rec.unit \in Units
        BY <3>1, <3>2 DEF TypeInv, DiskType, Contents, File, Record
      <4> QED
        BY <1>n, <2>2, <4>1, <4>2, NetlistsStay
    <3>3. CASE rec \in Adds(r, l)
      <4>1. pc[r] \in {"hit", "copied", "recorded"} /\ rec = cur[r]
            /\ l \in {Metrics(r), Cache}
        BY <3>3 DEF Adds
      <4>2. cur[r].unit \in Units /\ opt[r].dir \in Loc
        BY <2>c, <4>1 DEF Busy
      <4>3. nets[l][rec.unit] # None
        BY <2>2, <3>3, <4>1 DEF Adds, OverlapInv, Deposited, Metrics, Loc
      <4> QED
        BY <1>n, <2>2, <4>1, <4>2, <4>3, NetlistsStay
    <3> QED
      BY <1>n, <2>2, <3>1, <3>2, <3>3, FileStep
  <2> QED
    BY <1>n, <2>1, <2>2, WipesUnkept
<1> QED
  BY <1>u, <1>n DEF Next, Moves

(* Overlapping runs, killed anywhere, never leave a record without a       *)
(* netlist in a location that no command line removes.                     *)
THEOREM NetlistBeforeRecordTheorem == Spec => []NetlistBeforeRecord
<1>1. OverlapInv => NetlistBeforeRecord
  BY DEF OverlapInv, NetlistBeforeRecord
<1>2. Init => OverlapInv
  BY InitOverlap
<1>3. TypeInv /\ OverlapInv /\ [Next]_vars => OverlapInv'
  BY OverlapStep
<1> QED
  BY <1>1, <1>2, <1>3, TypeInvTheorem, PTL DEF Spec

-----------------------------------------------------------------------------
(* Runs that do not overlap. *)

LEMMA InitStore == Init => StoreInv
<1> SUFFICES ASSUME Init PROVE StoreInv
  OBVIOUS
<1>1. \A r \in Runs : ~Active(r) /\ pc[r] = "idle"
  BY DEF Init, Active, ActiveAt, Preparing, Reading, Working, Busy
<1>2. \A r \in Runs : Made(r) /\ Mirrored(r) /\ InWork(r)
  BY <1>1 DEF Made, Mirrored, InWork, Preparing, Reading, Working, Busy
<1>3. \A l \in Loc : file[l] = None
  BY DEF Init
<1> QED
  BY <1>1, <1>2, <1>3 DEF Init, StoreInv, OneActive, NoWrongNetlist, RecordHasItsNetlist

(* Only one run does anything. *)
LEMMA Alone ==
  ASSUME TypeInv, Sequential, OneActive, NEW r \in Runs, Moves(r), NEW s \in Runs, s # r
  PROVE  ~Active(s) /\ pc'[s] = pc[s]
<1> USE ConstantsAssumption
<1>1. CASE Start(r)
  <2> DEFINE A == {t \in Runs : Active(t)}
  <2>1. IsFiniteSet(A)
    BY FS_Subset
  <2>2. Cardinality(A) \in Nat /\ Cardinality(A) < MaxActive /\ MaxActive <= 1
    BY <1>1, <2>1, FS_CardinalityType DEF Start, Sequential
  <2>3. A = {}
    <3> HIDE DEF A
    <3>1. Cardinality(A) = 0
      BY <2>2
    <3> QED
      BY <2>1, <3>1, FS_EmptySet
  <2> QED
    BY <2>3, OthersStay
<1>2. CASE Step(r) \/ Kill(r)
  <2>1. Active(r)
    <3>1. CASE Prepare(r) \/ Read(r)
      BY <3>1 DEF Prepare, RemoveFile, RemoveNetlist, RemoveDirectory, RemovalFails,
           CreateDirectory, FindFile, CreateFile, WriteHeader, Read, ReadStd, ReadLocal, ReadCache,
           RejectFile, Active, ActiveAt, Preparing, Reading
    <3>2. CASE Translate(r)
      BY <3>2 DEF Translate, NoMetrics, FindUnit, CopyFromCache, FinishFetch, CopyFails, RecordHit,
           UseRecord, NoTemplate,
           Optimize, FinishOptimize, CopyToCache, FinishStore, RecordLocal, RecordInCache, Finish,
           NextUse, Active, ActiveAt, Working, Busy
    <3>3. CASE Kill(r)
      BY <3>3 DEF Kill
    <3> QED
      BY <1>2, <3>1, <3>2, <3>3 DEF Step
  <2> QED
    BY <2>1, OthersStay DEF OneActive
<1> QED
  BY <1>1, <1>2 DEF Moves

(* Marks go only with the directory; a directory gets mixed when a run     *)
(* with -m begins to translate, and torn when a copy is stopped.           *)
LEMMA MarksStep ==
  ASSUME TypeInv, NEW r \in Runs, Moves(r)
  PROVE  /\ \/ marks \subseteq marks'
            \/ RemoveDirectory(r) /\ marks' = marks \ (Kinds \X {at[r]})
         /\ \A l : <<"mixed", l>> \in marks' =>
              <<"mixed", l>> \in marks \/ (ReadCache(r) /\ l = opt[r].dir)
         /\ \A l : <<"torn", l>> \in marks' =>
              <<"torn", l>> \in marks \/ (pc[r] = "fetching" /\ l = opt[r].dir)
<1>1. CASE UNCHANGED marks
  BY <1>1
<1>2. CASE RemoveDirectory(r)
  BY <1>2 DEF RemoveDirectory
<1>3. CASE ReadCache(r)
  BY <1>3 DEF ReadCache
<1>4. CASE RecordHit(r) \/ RecordLocal(r) \/ RecordInCache(r)
  BY <1>4 DEF RecordHit, RecordLocal, RecordInCache, Append
<1>5. CASE Kill(r) \/ CopyFails(r)
  BY <1>5 DEF Kill, CopyFails, Stopped, Stranded
<1>6. CASE Start(r) \/ ReadStd(r) \/ ReadLocal(r) \/ RejectFile(r)
  BY <1>6, <1>1 DEF Start, ReadStd, ReadLocal, RejectFile, Exit, Leave
<1>7. CASE RemoveFile(r) \/ RemovalFails(r) \/ CreateDirectory(r) \/ FindFile(r) \/ CreateFile(r)
           \/ WriteHeader(r) \/ \E u \in Units : RemoveNetlist(r, u)
  BY <1>7, <1>1 DEF RemoveFile, RemovalFails, CreateDirectory, FindFile, CreateFile, WriteHeader,
       RemoveNetlist, Exit, Leave
<1>8. CASE NoMetrics(r) \/ FindUnit(r) \/ CopyFromCache(r) \/ UseRecord(r) \/ NoTemplate(r)
           \/ Optimize(r) \/ CopyToCache(r) \/ Finish(r)
  BY <1>8, <1>1 DEF NoMetrics, FindUnit, CopyFromCache, UseRecord, NoTemplate, Optimize,
       CopyToCache, Finish, Exit, Leave, memory
<1>9. CASE Writes(r)
  BY <1>9, <1>1, WritesKeep
<1> QED
  BY <1>2, <1>3, <1>4, <1>5, <1>6, <1>7, <1>8, <1>9
     DEF Moves, Step, Prepare, Read, Translate, Writes

(* A location becomes intact only by being removed. *)
LEMMA IntactStep ==
  ASSUME TypeInv, Sequential, OneActive, NEW r \in Runs, Moves(r), NEW l \in Loc, Intact(l)'
  PROVE  Intact(l) \/ (RemoveDirectory(r) /\ at[r] = l)
<1>1. CASE RemoveDirectory(r)
  <2>1. ASSUME at[r] # l
        PROVE  Intact(l)
    <3>1. <<"wipe", l>> \notin marks /\ <<"mixed", l>> \notin marks
      BY <1>1, <2>1 DEF RemoveDirectory, Intact
    <3>2. ASSUME NEW s \in Runs, pc[s] = "wipe", at[s] = l
          PROVE  FALSE
      BY <2>1, <3>2, Alone DEF Active, ActiveAt, Preparing
    <3> QED
      BY <3>1, <3>2 DEF Intact, Wiping
  <2> QED
    BY <1>1, <2>1
<1>2. CASE ~RemoveDirectory(r)
  <2>1. <<"wipe", l>> \notin marks /\ <<"mixed", l>> \notin marks
    BY <1>2, MarksStep DEF Intact
  <2>2. ASSUME NEW s \in Runs, pc[s] = "wipe", at[s] = l
        PROVE  FALSE
    <3>1. s = r
      BY <2>2, Alone DEF Active, ActiveAt, Preparing
    <3>2. CASE RemoveFile(r) \/ \E u \in Units : RemoveNetlist(r, u)
      BY <2>2, <3>1, <3>2 DEF RemoveFile, RemoveNetlist, memory, Intact, Wiping
    <3>3. CASE RemovalFails(r)
      BY <3>3, Alone DEF RemovalFails
    <3>4. CASE Kill(r)
      BY <2>2, <3>1, <3>4 DEF Kill, Intact
    <3>5. CASE Start(r) \/ CreateDirectory(r) \/ FindFile(r) \/ CreateFile(r) \/ WriteHeader(r)
               \/ Read(r) \/ Translate(r)
      BY <2>2, <3>1, <3>5 DEF Start, CreateDirectory, FindFile, CreateFile, WriteHeader,
           Read, ReadStd, ReadLocal, ReadCache, RejectFile,
           Translate, NoMetrics, FindUnit, CopyFromCache, FinishFetch, CopyFails, RecordHit,
           UseRecord, NoTemplate,
           Optimize, FinishOptimize, CopyToCache, FinishStore, RecordLocal, RecordInCache, Finish,
           NextUse
    <3> QED
      BY <1>2, <3>2, <3>3, <3>4, <3>5 DEF Moves, Step, Prepare
  <2> QED
    BY <2>1, <2>2 DEF Intact, Wiping
<1> QED
  BY <1>1, <1>2

(* The directories of the active run stay. *)
LEMMA MadeStep ==
  ASSUME TypeInv, NEW r \in Runs, Made(r), Moves(r)
  PROVE  Made(r)'
<1> USE ConstantsAssumption
<1>p. pc \in [Runs -> {"idle"} \union ActiveAt \union Ended] /\ exists \subseteq Loc
  BY DEF TypeInv, ControlType, DiskType
<1>a. at \in [Runs -> Loc \union {None}]
  BY DEF TypeInv, MemoryType
<1>1. CASE Start(r)
  BY <1>1, <1>p, <1>a DEF Start, FirstLabel, Goto, Made, Preparing, Reading, Working, Busy
<1>2. CASE RemoveFile(r) \/ \E u \in Units : RemoveNetlist(r, u)
  BY <1>2 DEF RemoveFile, RemoveNetlist, memory, Made, Preparing, Reading, Working, Busy
<1>3. CASE RemoveDirectory(r)
  BY <1>3, <1>p DEF RemoveDirectory, Goto, memory, Made, Preparing, Reading, Working, Busy
<1>4. CASE CreateDirectory(r)
  BY <1>4, <1>p DEF CreateDirectory, Goto, memory, Made, Preparing, Reading, Working, Busy
<1>5. CASE CreateFile(r)
  BY <1>5, <1>p DEF CreateFile, Goto, memory, Made, Preparing, Reading, Working, Busy
<1>6. CASE FindFile(r) /\ file[at[r]] = None
  BY <1>6, <1>p DEF FindFile, Goto, disk, Made, Preparing, Reading, Working, Busy
<1>7. CASE WriteHeader(r) \/ (FindFile(r) /\ file[at[r]] # None)
  <2>1. /\ pc[r] \in Preparing /\ Prepared(r) /\ at[r] \in {Cache, opt[r].dir}
        /\ at[r] \in exists /\ (at[r] # Cache => Cache \in exists)
        /\ exists' = exists /\ opt' = opt
    BY <1>7 DEF WriteHeader, FindFile, disk, Made, Preparing, TypeInv, Shape
  <2>2. pc'[r] \in {"wipe", "mkdir"} => Cache \in exists'
    BY <2>1, PreparedType
  <2>3. pc'[r] = "readStd" => Cache \in exists' /\ opt'[r].dir \in exists'
    BY <2>1, PreparedType
  <2> QED
    BY <2>1, <2>2, <2>3, PreparedType DEF Made, Preparing, Reading, Working, Busy
<1>8. CASE Read(r)
  BY <1>8, <1>p DEF Read, ReadStd, ReadLocal, ReadCache, RejectFile, Exit, Leave, Goto, disk, Made,
       Preparing, Reading, Working, Busy
<1>9. CASE NoMetrics(r) \/ NoTemplate(r) \/ Finish(r) \/ Kill(r) \/ RemovalFails(r) \/ CopyFails(r)
  BY <1>9, <1>p DEF NoMetrics, NoTemplate, Finish, Kill, RemovalFails, CopyFails, Exit, Leave, Goto,
       Made, Preparing, Reading, Working, Busy
<1>10. CASE FindUnit(r) \/ RecordHit(r) \/ UseRecord(r) \/ RecordLocal(r) \/ RecordInCache(r)
  BY <1>10, <1>p DEF FindUnit, RecordHit, UseRecord, RecordLocal, RecordInCache, NextUse, Goto,
       disk, memory, Made, Preparing, Reading, Working, Busy
<1>11. CASE CopyFromCache(r) \/ CopyToCache(r)
  <2>1. CASE Exit(r, "missing")
    BY <2>1, <1>p DEF Exit, Leave, Goto, Made, Preparing, Reading, Working, Busy
  <2>2. CASE ~Exit(r, "missing")
    <3>1. /\ pc[r] \in Working /\ exists' = exists /\ opt' = opt
          /\ pc'[r] \in {"fetching", "storing"}
      BY <1>11, <2>2, <1>p DEF CopyFromCache, CopyToCache, NextUse, Goto, memory, Working, Busy
    <3> QED
      BY <3>1 DEF Made, Preparing, Reading, Working, Busy
  <2> QED
    BY <2>1, <2>2
<1>12. CASE Optimize(r)
  BY <1>12, <1>p DEF Optimize, NextUse, Goto, Made, Preparing, Reading, Working, Busy
<1>13. CASE Writes(r)
  BY <1>13, WritesKeep DEF memory, Made, Preparing, Reading, Working, Busy
<1> QED
  BY <1>1, <1>2, <1>3, <1>4, <1>5, <1>6, <1>7, <1>8, <1>9, <1>10, <1>11, <1>12, <1>13
     DEF Moves, Step, Prepare, Translate, Writes

(* What a run that works is, in the words of the types. *)
LEMMA WorkingType ==
  ASSUME TypeInv, NEW r \in Runs, pc[r] \in Reading \union Working
  PROVE  /\ Active(r)
         /\ opt[r] \in CommandLine /\ opt[r].dir \in Loc /\ opt[r].dir # Cache
         /\ Cache \in Loc /\ Cache \in Files
         /\ Metrics(r) \in Files /\ Metrics(r) # Cache
         /\ ~opt[r].user => Metrics(r) = opt[r].dir
         /\ opt[r].user => Metrics(r) \notin Loc
         /\ \A rec \in op[r] \union cached[r] \union used[r] :
              rec \in Record /\ rec.unit \in Units /\ rec.res \in Result /\ rec.res # None
         /\ pc[r] \in Busy => cur[r] \in Record /\ cur[r].unit \in Units
                              /\ cur[r].res \in Result /\ cur[r].res # None
<1> USE ConstantsAssumption, NoneAssumption
<1>1. Active(r) /\ opt[r] \in CommandLine
  BY DEF TypeInv, Shape, Active, ActiveAt
<1>2. opt[r].dir \in Dirs
  BY <1>1 DEF CommandLine
<1>3. \A rec \in Record : rec.unit \in Units /\ rec.res \in Result /\ rec.res # None
  BY DEF Record
<1>4. op[r] \subseteq Record /\ cached[r] \subseteq Record /\ used[r] \subseteq Record
  BY DEF TypeInv, MemoryType
<1>5. pc[r] \in Busy => cur[r] \in Record
  BY DEF TypeInv, Shape
<1> QED
  BY <1>1, <1>2, <1>3, <1>4, <1>5 DEF Loc, Files, Metrics

(* A copy that is under way goes on, or ends, or leaves its mark.          *)
LEMMA TornStep ==
  ASSUME TypeInv, Sequential, OneActive, NEW r \in Runs, Moves(r), NEW l \in Loc,
         NEW u \in Units, Torn(l, u), ~(RemoveDirectory(r) /\ at[r] = l),
         pc[r] = "fetching" => \/ opt[r].dir # l \/ cur[r].unit # u
                               \/ pc'[r] # "hit" /\ u \in Known(Contents(file[l]))
  PROVE  Torn(l, u)'
<1>1. CASE <<"torn", l>> \in marks
  <2>1. <<"torn", l>> \in marks'
    BY <1>1, MarksStep
  <2> QED
    BY <2>1 DEF Torn
<1>2. CASE <<"torn", l>> \notin marks
  <2>1. PICK s \in Runs : pc[s] = "fetching" /\ opt[s].dir = l /\ cur[s].unit = u
    BY <1>2 DEF Torn
  <2>2. s = r
    BY <2>1, Alone DEF Active, ActiveAt, Working, Busy
  <2>3. marks' = Stopped(r) /\ u \in Known(Contents(file[l]))
    BY <2>1, <2>2, FromFetching
  <2>4. Stranded(r)
    BY <2>1, <2>2, <2>3 DEF Stranded, Contents, Known
  <2> QED
    BY <2>1, <2>2, <2>3, <2>4 DEF Stopped, Torn
<1> QED
  BY <1>1, <1>2

LEMMA NetlistKept ==
  ASSUME TypeInv, Sequential, OneActive, NEW r \in Runs, Moves(r), NEW l \in Loc, NEW rec,
         rec.unit \in Units, HasNetlist(l, rec), ~(RemoveDirectory(r) /\ at[r] = l),
         nets'[l][rec.unit] = nets[l][rec.unit],
         pc[r] = "fetching" => \/ opt[r].dir # l \/ cur[r].unit # rec.unit
                               \/ pc'[r] # "hit" /\ rec.unit \in Known(Contents(file[l]))
  PROVE  HasNetlist(l, rec)'
<1>1. CASE nets[l][rec.unit] = rec.res
  BY <1>1 DEF HasNetlist
<1>2. CASE nets[l][rec.unit] # rec.res
  <2>1. nets[l][rec.unit] = Partial /\ Torn(l, rec.unit)
    BY <1>2 DEF HasNetlist
  <2>2. Torn(l, rec.unit)'
    BY <2>1, TornStep
  <2> QED
    BY <2>1, <2>2 DEF HasNetlist
<1> QED
  BY <1>1, <1>2

(* Nothing in the cache is cut that has a record. *)
LEMMA CacheWhole ==
  ASSUME TypeInv, Sequential, StoreInv, NEW rec, HasNetlist(Cache, rec)
  PROVE  nets[Cache][rec.unit] = rec.res
<1>1. ~Torn(Cache, rec.unit)
  BY WorkingType DEF StoreInv, Torn, Working, Busy
<1> QED
  BY <1>1 DEF HasNetlist

(* What the only run has fetched is the netlist of the record in work.     *)
LEMMA FetchedNets ==
  ASSUME TypeInv, Sequential, StoreInv, NEW r \in Runs, Moves(r), FinishFetch(r)
  PROVE  /\ opt[r].dir \in Loc /\ opt[r].dir # Cache /\ cur[r].unit \in Units
         /\ nets' = [nets EXCEPT ![opt[r].dir][cur[r].unit] = cur[r].res]
         /\ nets'[opt[r].dir][cur[r].unit] = cur[r].res
<1>1. pc[r] = "fetching" /\ Copied(r, cur[r].unit, Cache, opt[r].dir)
  BY DEF FinishFetch
<1>2. /\ opt[r].dir \in Loc /\ opt[r].dir # Cache /\ Cache \in Loc /\ cur[r].unit \in Units
      /\ cur[r].res # None
  BY <1>1, WorkingType DEF Working, Busy
<1>3. nets[Cache][cur[r].unit] = cur[r].res /\ nets[opt[r].dir][cur[r].unit] # None
  BY <1>1 DEF StoreInv, InWork
<1>4. \A s \in Runs \ {r} : ~Active(s)
  BY Alone DEF StoreInv
<1> DEFINE d == opt[r].dir
<1> DEFINE u == cur[r].unit
<1>5. nets[Cache][u] # None /\ nets[d][u] # None
  BY <1>2, <1>3
<1>6. d \in Loc /\ u \in Units /\ Cache \in Loc /\ Copied(r, u, Cache, d)
  BY <1>1, <1>2
<1> HIDE DEF d, u
<1>7. nets' = [nets EXCEPT ![d][u] = nets'[d][u]] /\ nets'[d][u] = nets[Cache][u]
  BY <1>4, <1>5, <1>6, CopiedNets
<1>8. nets[Cache][u] = cur[r].res
  BY <1>3 DEF u
<1>9. nets' = [nets EXCEPT ![d][u] = cur[r].res] /\ nets'[d][u] = cur[r].res
  BY <1>7, <1>8
<1> QED
  BY <1>2, <1>9 DEF d, u

(* Records and netlists of one location after a step of the only run. *)
LEMMA MatchStep ==
  ASSUME TypeInv, Sequential, StoreInv, NEW r \in Runs, Moves(r), NEW l \in Loc,
         NEW rec \in Contents(file'[l]), <<"mixed", l>> \notin marks'
  PROVE  /\ nets'[l][rec.unit] = None \/ HasNetlist(l, rec)'
         /\ Intact(l)' => HasNetlist(l, rec)'
<1> USE ConstantsAssumption
<1>i. /\ OneActive /\ NoWrongNetlist /\ RecordHasItsNetlist
      /\ Made(r) /\ Mirrored(r) /\ InWork(r) /\ <<"mixed", Cache>> \notin marks
  BY DEF StoreInv
<1>l. l \in Files
  BY DEF Files
<1>1. CASE RemoveDirectory(r) /\ at[r] = l
  <2>1. file'[l] = None
    BY <1>1 DEF RemoveDirectory
  <2> QED
    BY <2>1 DEF Contents
<1>2. CASE ~(RemoveDirectory(r) /\ at[r] = l)
  <2>m. <<"mixed", l>> \notin marks
    BY <1>2, MarksStep DEF RemoveDirectory
  <2>i. Intact(l)' => Intact(l)
    BY <1>2, <1>i, IntactStep
  <2>1. CASE rec \in Contents(file[l])
    <3>1. /\ file[l] # None /\ rec \in file[l].recs
          /\ nets[l][rec.unit] = None \/ HasNetlist(l, rec)
          /\ Intact(l) => HasNetlist(l, rec)
      BY <2>1, <2>m, <1>i DEF Contents, NoWrongNetlist, RecordHasItsNetlist
    <3>2. rec.unit \in Units /\ rec.unit \in Known(Contents(file[l]))
      BY <1>l, <2>1, <3>1, NoneAssumption DEF TypeInv, DiskType, File, Record, Known
    <3>d. ASSUME pc[r] \in Working, pc[r] # "recorded", l = opt[r].dir
          PROVE  rec \in op[r] \union cached[r]
      <4>1. ~opt[r].user /\ Metrics(r) = l
        BY <1>i, <2>m, <3>d, WorkingType DEF Mirrored
      <4> QED
        BY <1>i, <2>1, <3>d, <4>1 DEF Mirrored
    <3>e. ASSUME pc[r] \in Working, l = Cache
          PROVE  rec \in op[r] \union cached[r]
      BY <1>i, <2>1, <3>e DEF Mirrored
    <3>f. CASE pc[r] = "fetching" /\ pc'[r] = "hit" /\ l = opt[r].dir /\ cur[r].unit = rec.unit
      <4>1. FinishFetch(r)
        BY <3>f, Flow DEF Working, Busy
      <4>2. rec \in cached[r] /\ cur[r] \in cached[r]
        BY <1>i, <3>d, <3>f DEF InWork, Known, Working, Busy
      <4>3. cur[r].res = rec.res
        BY <1>i, <3>f, <4>2 DEF Mirrored, Differ, Working, Busy
      <4> QED
        BY <3>f, <4>1, <4>3, FetchedNets DEF HasNetlist
    <3>3. CASE /\ nets'[l][rec.unit] = nets[l][rec.unit]
               /\ ~(/\ pc[r] = "fetching" /\ pc'[r] = "hit"
                    /\ l = opt[r].dir /\ cur[r].unit = rec.unit)
      <4>1. HasNetlist(l, rec) => HasNetlist(l, rec)'
        BY <1>2, <1>i, <3>2, <3>3, NetlistKept
      <4> QED
        BY <2>i, <3>1, <3>3, <4>1
    <3>4. CASE Wiped(r, l, rec.unit)
      <4>1. at' = at
        BY <3>4 DEF Wiped, Moves, Start, Step, Prepare, RemoveFile, RemoveNetlist,
             RemoveDirectory, RemovalFails, CreateDirectory, FindFile, CreateFile, WriteHeader,
             Read, ReadStd, ReadLocal, ReadCache, RejectFile, Translate, NoMetrics, FindUnit,
             CopyFromCache, FinishFetch, CopyFails, RecordHit, UseRecord, NoTemplate, Optimize,
             FinishOptimize, CopyToCache, FinishStore, RecordLocal, RecordInCache, Finish,
             NextUse, Kill, Exit, Leave, Goto, memory, TypeInv, ControlType
      <4> QED
        BY <3>4, <4>1 DEF Wiped, Intact, Wiping
    <3>5. CASE Fetching(r, l, rec.unit)
      <4>1. CopyFromCache(r) /\ opt' = opt
        <5>1. CopyFromCache(r) /\ ~Exit(r, "missing")
          BY <3>5, Flow DEF Fetching, Working, Busy, Exit, Leave, Goto, TypeInv, ControlType
        <5> QED
          BY <5>1 DEF CopyFromCache
      <4> QED
        BY <3>5, <4>1 DEF Fetching, HasNetlist, Torn
    <3>6. CASE Optimizing(r, l, rec.unit)
      BY <3>6, <3>d DEF Optimizing, Working, Unmeasured, Known
    <3>7. CASE Optimized(r, l, rec.unit)
      BY <1>i, <3>7, <3>d DEF Optimized, Working, Busy, InWork, Known
    <3>8. CASE Storing(r, l, rec.unit) \/ Stored(r, l, rec.unit)
      BY <1>i, <3>8, <3>e DEF Storing, Stored, Working, Busy, InWork, Known
    <3>9. CASE Fetched(r, l, rec.unit)
      BY <3>f, <3>9 DEF Fetched
    <3> QED
      BY <3>2, <3>f, <3>3, <3>4, <3>5, <3>6, <3>7, <3>8, <3>9, NetsStep
  <2>2. CASE rec \in Adds(r, l)
    <3>1. pc[r] \in {"hit", "copied", "recorded"} /\ rec = cur[r] /\ l \in {Metrics(r), Cache}
      BY <2>2 DEF Adds
    <3>2. pc[r] \in Working /\ pc[r] \in Busy
      BY <3>1 DEF Working, Busy
    <3>3. nets[l][rec.unit] = rec.res
      BY <1>i, <2>2, <3>1, <3>2, WorkingType DEF Adds, InWork
    <3>4. nets'[l][rec.unit] = nets[l][rec.unit]
      BY <3>1, <3>2, WorkingType, NetsStep
         DEF Wiped, Fetching, Fetched, Optimizing, Optimized, Storing, Stored
    <3> QED
      BY <3>3, <3>4 DEF HasNetlist
  <2> QED
    BY <1>l, <2>1, <2>2, FileStep
<1> QED
  BY <1>1, <1>2

(* What the only run has in memory is still what is on disk. *)
LEMMA MemoryStep ==
  ASSUME TypeInv, Sequential, StoreInv, NEW r \in Runs, Moves(r)
  PROVE  Mirrored(r)' /\ InWork(r)'
<1> USE ConstantsAssumption
<1> DEFINE dir == opt[r].dir
<1>i. /\ OneActive /\ NoWrongNetlist /\ RecordHasItsNetlist
      /\ Made(r) /\ Mirrored(r) /\ InWork(r)
  BY DEF StoreInv
<1>p. pc \in [Runs -> {"idle"} \union ActiveAt \union Ended]
  BY DEF TypeInv, ControlType
<1>m. /\ opt \in [Runs -> CommandLine \union {None}]
      /\ op \in [Runs -> SUBSET Record] /\ cached \in [Runs -> SUBSET Record]
      /\ cur \in [Runs -> Record \union {None}] /\ used \in [Runs -> SUBSET Record]
  BY DEF TypeInv, MemoryType
<1>d. /\ file \in [Files -> File \union {None}]
      /\ nets \in [Loc -> [Units -> Result \union {Partial, None}]]
  BY DEF TypeInv, DiskType
<1>t. pc[r] \in Reading \union Working => \A l \in Loc : Intact(l)' => Intact(l)
  BY <1>i, IntactStep DEF RemoveDirectory, Reading, Working, Busy
<1>k. ASSUME pc[r] \in Reading \union Working, opt'[r] = opt[r], NEW x, x.unit \in Units,
             HasNetlist(dir, x), nets'[dir][x.unit] = nets[dir][x.unit],
             pc[r] = "fetching" => cur[r].unit # x.unit
      PROVE  HasNetlist(dir, x)'
  <2>1. ~RemoveDirectory(r) /\ dir \in Loc
    BY <1>k, WorkingType DEF RemoveDirectory, Reading, Working, Busy
  <2> QED
    BY <1>k, <1>i, <2>1, NetlistKept
<1>b. ASSUME pc[r] \in Reading \union Working, pc[r] # "fetching", opt'[r] = opt[r], nets' = nets,
             NEW S, \A x \in S : x.unit \in Units, Matches(S, dir)
      PROVE  \A x \in S : HasNetlist(dir, x)'
  BY <1>b, <1>k DEF Matches
<1>1. CASE pc'[r] \notin {"readCache"} \union Working
  BY <1>1 DEF Mirrored, InWork, Working, Busy
<1>2. CASE pc'[r] = "readCache" /\ ReadLocal(r)
  <2>1. /\ pc[r] = "readLocal" /\ pc[r] \in Reading
        /\ op'[r] = Contents(file[Metrics(r)])
        /\ UNCHANGED <<disk, opt, marks>>
    BY <1>2, <1>m DEF ReadLocal, Reading
  <2>2. ASSUME Intact(dir)', ~opt[r].user
        PROVE  \A x \in op'[r] : HasNetlist(dir, x)'
    <3>1. Intact(dir) /\ Metrics(r) = dir /\ dir \in Loc /\ dir \in Files
      BY <1>t, <2>1, <2>2, WorkingType
    <3>2. Matches(op'[r], dir)
      BY <1>i, <2>1, <3>1 DEF Matches, RecordHasItsNetlist, Contents
    <3>3. \A x \in op'[r] : x.unit \in Units
      BY <1>d, <2>1, <3>1 DEF Contents, File, Record
    <3> QED
      BY <1>b, <2>1, <3>2, <3>3 DEF disk, Reading
  <2>3. InWork(r)'
    BY <1>2 DEF InWork
  <2>4. Mirrored(r)'
    BY <1>2, <2>1, <2>2 DEF Mirrored, Matches, Metrics, Working, Busy, disk
  <2> QED
    BY <2>3, <2>4
<1>3. CASE pc'[r] = "translate" /\ ReadCache(r)
  <2>1. /\ pc[r] = "readCache" /\ pc[r] \in Reading /\ pc[r] \notin Working
        /\ cached'[r] = Contents(file[Cache])
        /\ marks' = IF opt[r].user THEN marks \union {<<"mixed", dir>>} ELSE marks
        /\ UNCHANGED <<disk, opt, op, used>>
    BY <1>3, <1>m DEF ReadCache, Reading, Working, Busy
  <2>2. ~Differ(Contents(file[Cache]))
    <3>1. CASE file[Cache] = None
      BY <3>1 DEF Differ, Contents
    <3>2. CASE file[Cache] # None
      <4>1. Accepts(opt[r].tech, file[Cache].first)
        BY <1>3, <3>2 DEF ReadCache, Objections
      <4> QED
        BY <1>3, <3>2, <4>1 DEF ReadCache, Objections, Contents
    <3> QED
      BY <3>1, <3>2
  <2>3. used[r] = {}
    BY <2>1 DEF TypeInv, Shape
  <2>4. InWork(r)'
    BY <1>3 DEF InWork
  <2>5. /\ Contents(file[Metrics(r)]) \subseteq op[r] \union cached'[r]
        /\ (Intact(dir)' /\ ~opt[r].user) => \A x \in op[r] : HasNetlist(dir, x)'
    <3>1. cached[r] = {}
      BY <2>1 DEF TypeInv, Shape
    <3>2. Contents(file[Metrics(r)]) \subseteq op[r]
      BY <1>i, <2>1, <3>1 DEF Mirrored
    <3>3. Intact(dir)' => Intact(dir)
      BY <1>t, <2>1, WorkingType
    <3>4. (Intact(dir) /\ ~opt[r].user) => Matches(op[r], dir)
      BY <1>i, <2>1 DEF Mirrored
    <3>5. \A x \in op[r] : x.unit \in Units
      BY <2>1, WorkingType
    <3>6. Matches(op[r], dir) => \A x \in op[r] : HasNetlist(dir, x)'
      BY <1>b, <2>1, <3>5 DEF disk, Reading
    <3> QED
      BY <3>2, <3>3, <3>4, <3>6
  <2>6. Mirrored(r)'
    BY <1>3, <2>1, <2>2, <2>3, <2>5 DEF Mirrored, Matches, Metrics, Working, Busy, disk
  <2> QED
    BY <2>4, <2>6
<1>4. CASE pc'[r] = "translate" /\ UseRecord(r)
  <2>1. /\ pc[r] = "control" /\ pc[r] \in Working /\ pc[r] \in Busy
        /\ used'[r] = used[r] \union {cur[r]}
        /\ UNCHANGED <<disk, opt, op, cached, marks>>
    BY <1>4, <1>m DEF UseRecord, Working, Busy
  <2>2. InWork(r)'
    BY <1>4 DEF InWork
  <2>3. cur[r] \in op[r] \union cached[r] /\ (Intact(dir) => Matches({cur[r]}, dir))
    BY <1>i, <2>1 DEF InWork
  <2>4. Intact(dir)' => Intact(dir)
    BY <1>t, <2>1, WorkingType
  <2>5. /\ Intact(dir)' /\ ~opt[r].user => \A x \in op'[r] : HasNetlist(dir, x)'
        /\ Intact(dir)' => \A x \in used'[r] : HasNetlist(dir, x)'
    <3>1. \A x \in op[r] \union used'[r] : x.unit \in Units
      BY <2>1, WorkingType
    <3>2. Intact(dir)' => Matches(used'[r], dir)
      BY <1>i, <2>1, <2>3, <2>4 DEF Mirrored, Matches
    <3>3. Intact(dir)' /\ ~opt[r].user => Matches(op[r], dir)
      BY <1>i, <2>1, <2>4 DEF Mirrored
    <3> QED
      BY <1>b, <2>1, <3>1, <3>2, <3>3 DEF disk
  <2>6. Mirrored(r)'
    BY <1>4, <1>i, <2>1, <2>3, <2>5 DEF Mirrored, Matches, Metrics, Working, disk
  <2> QED
    BY <2>2, <2>6
<1>5. CASE pc'[r] = "translate" /\ RecordInCache(r)
  <2>1. /\ pc[r] = "recorded" /\ pc[r] \in Working /\ pc[r] \in Busy
        /\ Append(r, Cache)
        /\ op'[r] = op[r] \union {cur[r]} /\ used'[r] = used[r] \union {cur[r]}
        /\ UNCHANGED <<nets, opt, cached>>
    BY <1>5, <1>m DEF RecordInCache, Learned, Working, Busy
  <2>2. /\ Contents(file'[Cache]) \subseteq Contents(file[Cache]) \union {cur[r]}
        /\ Contents(file[Cache]) \subseteq Contents(file'[Cache])
        /\ file'[Metrics(r)] = file[Metrics(r)]
    BY <1>d, <2>1, AppendType, WorkingType
  <2>3. InWork(r)'
    BY <1>5 DEF InWork
  <2>4. HasNetlist(dir, cur[r]) /\ cur[r].unit \in Units
    BY <1>i, <2>1, WorkingType DEF InWork, HasNetlist
  <2>5. Intact(dir)' => Intact(dir)
    BY <1>t, <2>1, WorkingType
  <2>6. /\ Intact(dir)' /\ ~opt[r].user => \A x \in op'[r] : HasNetlist(dir, x)'
        /\ Intact(dir)' => \A x \in used'[r] : HasNetlist(dir, x)'
    <3>1. \A x \in op'[r] \union used'[r] : x.unit \in Units
      BY <2>1, <2>4, WorkingType
    <3>2. /\ Intact(dir)' => Matches(used'[r], dir)
          /\ Intact(dir)' /\ ~opt[r].user => Matches(op'[r], dir)
      BY <1>i, <2>1, <2>4, <2>5 DEF Mirrored, Matches
    <3> QED
      BY <1>b, <2>1, <3>1, <3>2
  <2>7. opt[r].user => <<"mixed", dir>> \in marks'
    BY <1>i, <2>1, MarksStep DEF Mirrored, RemoveDirectory
  <2>8. Mirrored(r)'
    BY <1>5, <1>i, <2>1, <2>2, <2>6, <2>7 DEF Mirrored, Matches, Metrics, Working
  <2> QED
    BY <2>3, <2>8
<1>6. CASE pc'[r] = "fetching" /\ CopyFromCache(r)
  <2>1. PICK rec \in cached[r] :
          /\ pc[r] = "translate" /\ pc[r] \in Working
          /\ rec.unit \notin Known(op[r]) /\ nets[Cache][rec.unit] # None
          /\ nets' = [nets EXCEPT ![dir][rec.unit] = Partial]
          /\ cur' = [cur EXCEPT ![r] = rec]
          /\ UNCHANGED <<exists, file, opt, op, cached, used, marks>>
    <3>1. ~Exit(r, "missing")
      BY <1>6, <1>p DEF Exit, Leave, Goto
    <3> QED
      BY <1>6, <3>1 DEF CopyFromCache, NextUse, Working
  <2>2. dir \in Loc /\ dir # Cache /\ Cache \in Loc /\ rec.unit \in Units /\ cur'[r] = rec
    BY <1>m, <2>1, WorkingType
  <2>3. nets[Cache][rec.unit] = rec.res
    <3>1. nets[Cache][rec.unit] = None \/ HasNetlist(Cache, rec)
      BY <1>i, <2>1, <2>2 DEF StoreInv, Mirrored, NoWrongNetlist, Contents
    <3> QED
      BY <2>1, <3>1, CacheWhole
  <2>4. /\ nets'[dir][rec.unit] = Partial /\ Partial # None
        /\ nets'[Cache][rec.unit] = rec.res
        /\ \A u \in Units \ {rec.unit} : nets'[dir][u] = nets[dir][u]
    BY <1>d, <2>1, <2>2, <2>3, NoneAssumption
  <2>5. InWork(r)'
    BY <1>6, <2>1, <2>2, <2>4 DEF InWork
  <2>6. Intact(dir)' => Intact(dir)
    BY <1>t, <2>1, <2>2
  <2>7. \A x \in op[r] : x.unit \in Units \ {rec.unit}
    BY <2>1, WorkingType DEF Known
  <2>8. ASSUME NEW x, x.unit \in Units, HasNetlist(dir, x)
        PROVE  HasNetlist(dir, x)'
    <3>1. CASE x.unit = rec.unit
      BY <1>6, <2>1, <2>2, <2>4, <3>1 DEF HasNetlist, Torn
    <3>2. CASE x.unit # rec.unit
      BY <1>k, <2>1, <2>4, <2>8, <3>2
    <3> QED
      BY <3>1, <3>2
  <2>9. /\ Intact(dir)' /\ ~opt[r].user => \A x \in op[r] : HasNetlist(dir, x)'
        /\ Intact(dir)' => \A x \in used[r] : HasNetlist(dir, x)'
    BY <1>i, <2>1, <2>6, <2>8, WorkingType DEF Mirrored, Matches
  <2>10. Mirrored(r)'
    BY <1>6, <1>i, <2>1, <2>9 DEF Mirrored, Matches, Metrics, Working, Busy
  <2> QED
    BY <2>5, <2>10
<1>7. CASE pc'[r] = "hit" /\ FinishFetch(r)
  <2>1. /\ pc[r] = "fetching" /\ pc[r] \in Working /\ pc[r] \in Busy
        /\ UNCHANGED <<exists, file, opt, op, cached, cur, used, marks>>
    BY <1>7 DEF FinishFetch, memory, Working, Busy
  <2>2. /\ dir \in Loc /\ dir # Cache /\ cur[r].unit \in Units
        /\ nets'[dir][cur[r].unit] = cur[r].res
        /\ \A u \in Units \ {cur[r].unit} : nets'[dir][u] = nets[dir][u]
    <3>1. /\ dir \in Loc /\ dir # Cache /\ cur[r].unit \in Units
          /\ nets' = [nets EXCEPT ![dir][cur[r].unit] = cur[r].res]
          /\ nets'[dir][cur[r].unit] = cur[r].res
      BY <1>7, FetchedNets
    <3>2. \A u \in Units \ {cur[r].unit} : nets'[dir][u] = nets[dir][u]
      BY <1>d, <3>1
    <3> QED
      BY <3>1, <3>2
  <2>3. InWork(r)'
    BY <1>7, <1>i, <2>1, <2>2 DEF InWork
  <2>4. Intact(dir)' => Intact(dir)
    BY <1>t, <2>1, <2>2
  <2>5. /\ cur[r] \in cached[r]
        /\ \A x \in op[r] : x.unit \in Units \ {cur[r].unit}
    BY <1>i, <2>1, WorkingType DEF InWork, Known
  <2>6. ASSUME NEW x \in used[r], x.unit = cur[r].unit
        PROVE  x.res = cur[r].res
    <3>1. x \in cached[r]
      BY <1>i, <2>1, <2>5, <2>6 DEF Mirrored, Known
    <3> QED
      BY <1>i, <2>1, <2>5, <2>6, <3>1 DEF Mirrored, Differ
  <2>7. ASSUME NEW x \in op[r] \union used[r], HasNetlist(dir, x)
        PROVE  HasNetlist(dir, x)'
    <3>1. CASE x.unit = cur[r].unit
      <4>1. nets'[dir][x.unit] = x.res
        BY <2>2, <2>5, <2>6, <2>7, <3>1
      <4> QED
        BY <2>1, <4>1 DEF HasNetlist
    <3>2. CASE x.unit # cur[r].unit
      <4>1. x.unit \in Units
        BY <2>1, WorkingType
      <4> QED
        BY <1>k, <2>1, <2>2, <2>7, <3>2, <4>1
    <3> QED
      BY <3>1, <3>2
  <2>8. /\ Intact(dir)' /\ ~opt[r].user => \A x \in op[r] : HasNetlist(dir, x)'
        /\ Intact(dir)' => \A x \in used[r] : HasNetlist(dir, x)'
    BY <1>i, <2>1, <2>4, <2>7 DEF Mirrored, Matches
  <2>9. Mirrored(r)'
    BY <1>7, <1>i, <2>1, <2>8 DEF Mirrored, Matches, Metrics, Working, Busy
  <2> QED
    BY <2>3, <2>9
<1>8. CASE pc'[r] = "optimizing" /\ Optimize(r)
  <2>1. PICK u \in Unmeasured(r), v \in Values :
          /\ nets' = nets \/ nets' = [nets EXCEPT ![dir][u] = Partial]
          /\ cur' = [cur EXCEPT ![r] =
                        [unit |-> u, res |-> [tech |-> opt[r].tech, val |-> v]]]
    BY <1>8 DEF Optimize
  <2>2. /\ pc[r] = "translate" /\ pc[r] \in Working
        /\ UNCHANGED <<exists, file, opt, op, cached, used, marks>>
    BY <1>8 DEF Optimize, NextUse, Working
  <2>3. dir \in Loc /\ u \in Units /\ u \notin Known(op[r] \union cached[r])
    BY <2>2, WorkingType DEF Unmeasured, Known
  <2>4. cur'[r].unit = u
    BY <1>m, <2>1
  <2>5. \A x \in Units \ {u} : nets'[dir][x] = nets[dir][x]
    BY <1>d, <2>1, <2>3
  <2>6. InWork(r)'
    BY <1>8, <2>2, <2>3, <2>4 DEF InWork
  <2>7. Intact(dir)' => Intact(dir)
    BY <1>t, <2>2, <2>3
  <2>8. \A x \in op[r] \union used[r] : x.unit \in Units \ {u}
    BY <1>i, <2>2, <2>3, WorkingType DEF Known, Mirrored
  <2>9. \A x \in op[r] \union used[r] : HasNetlist(dir, x) => HasNetlist(dir, x)'
    BY <1>k, <2>2, <2>5, <2>8
  <2>10. /\ Intact(dir)' /\ ~opt[r].user => \A x \in op[r] : HasNetlist(dir, x)'
         /\ Intact(dir)' => \A x \in used[r] : HasNetlist(dir, x)'
    BY <1>i, <2>2, <2>7, <2>9 DEF Mirrored, Matches
  <2>11. Mirrored(r)'
    BY <1>8, <1>i, <2>2, <2>10 DEF Mirrored, Matches, Metrics, Working, Busy
  <2> QED
    BY <2>6, <2>11
<1>12. CASE pc'[r] = "optimized" /\ FinishOptimize(r)
  <2>1. /\ pc[r] = "optimizing" /\ pc[r] \in Working /\ pc[r] \in Busy
        /\ UNCHANGED <<exists, file, opt, op, cached, cur, used, marks>>
    BY <1>12 DEF FinishOptimize, memory, Working, Busy
  <2>2. /\ dir \in Loc /\ dir # Cache /\ cur[r].unit \in Units /\ dir \in exists
        /\ cur[r].unit \notin Known(op[r] \union cached[r])
    BY <1>i, <2>1, WorkingType DEF Made, InWork
  <2>3. nets' = [nets EXCEPT ![dir][cur[r].unit] = cur[r].res]
    BY <1>12, <2>2 DEF FinishOptimize
  <2>4. /\ nets'[dir][cur[r].unit] = cur[r].res
        /\ \A x \in Units \ {cur[r].unit} : nets'[dir][x] = nets[dir][x]
    BY <1>d, <2>2, <2>3
  <2>5. InWork(r)'
    BY <1>12, <2>1, <2>2, <2>4 DEF InWork
  <2>6. Intact(dir)' => Intact(dir)
    BY <1>t, <2>1, <2>2
  <2>7. \A x \in op[r] \union used[r] : x.unit \in Units \ {cur[r].unit}
    BY <1>i, <2>1, <2>2, WorkingType DEF Known, Mirrored
  <2>8. \A x \in op[r] \union used[r] : HasNetlist(dir, x) => HasNetlist(dir, x)'
    BY <1>k, <2>1, <2>4, <2>7
  <2>9. /\ Intact(dir)' /\ ~opt[r].user => \A x \in op[r] : HasNetlist(dir, x)'
        /\ Intact(dir)' => \A x \in used[r] : HasNetlist(dir, x)'
    BY <1>i, <2>1, <2>6, <2>8 DEF Mirrored, Matches
  <2>10. Mirrored(r)'
    BY <1>12, <1>i, <2>1, <2>9 DEF Mirrored, Matches, Metrics, Working, Busy
  <2> QED
    BY <2>5, <2>10
<1>13. CASE pc'[r] = "storing" /\ CopyToCache(r)
  <2>1. /\ pc[r] = "optimized" /\ pc[r] \in Working /\ pc[r] \in Busy
        /\ nets' = [nets EXCEPT ![Cache][cur[r].unit] = Partial]
        /\ UNCHANGED <<exists, file, opt, op, cached, cur, used, marks>>
    <3>1. ~Exit(r, "missing")
      BY <1>13, <1>p DEF Exit, Leave, Goto
    <3> QED
      BY <1>13, <3>1 DEF CopyToCache, memory, Working, Busy
  <2>2. dir \in Loc /\ dir # Cache /\ Cache \in Loc /\ cur[r].unit \in Units
    BY <2>1, WorkingType
  <2>3. nets'[dir] = nets[dir] /\ nets'[Cache][cur[r].unit] # None
    BY <1>d, <2>1, <2>2, NoneAssumption
  <2>4. InWork(r)'
    BY <1>13, <1>i, <2>1, <2>3 DEF InWork
  <2>5. Mirrored(r)'
    <3>1. Intact(dir)' => Intact(dir)
      BY <1>t, <2>1, <2>2
    <3>2. \A x \in op[r] \union used[r] : HasNetlist(dir, x) => HasNetlist(dir, x)'
      BY <1>k, <2>1, <2>3, WorkingType
    <3>3. /\ Intact(dir)' /\ ~opt[r].user => \A x \in op[r] : HasNetlist(dir, x)'
          /\ Intact(dir)' => \A x \in used[r] : HasNetlist(dir, x)'
      BY <1>i, <2>1, <3>1, <3>2 DEF Mirrored, Matches
    <3> QED
      BY <1>13, <1>i, <2>1, <3>3 DEF Mirrored, Matches, Metrics, Working, Busy
  <2> QED
    BY <2>4, <2>5
<1>14. CASE pc'[r] = "copied" /\ FinishStore(r)
  <2>1. /\ pc[r] = "storing" /\ pc[r] \in Working /\ pc[r] \in Busy
        /\ Copied(r, cur[r].unit, dir, Cache)
        /\ UNCHANGED <<exists, file, opt, op, cached, cur, used, marks>>
    BY <1>14 DEF FinishStore, memory, Working, Busy
  <2>2. /\ dir \in Loc /\ dir # Cache /\ Cache \in Loc /\ cur[r].unit \in Units
        /\ cur[r].res # None
    BY <2>1, WorkingType
  <2>3. nets'[dir] = nets[dir] /\ nets'[Cache][cur[r].unit] = cur[r].res
    <3>1. nets[dir][cur[r].unit] = cur[r].res /\ nets[Cache][cur[r].unit] # None
      BY <1>i, <2>1 DEF InWork
    <3>2. \A t \in Runs \ {r} : ~Active(t)
      BY <1>i, Alone
    <3>3. /\ nets' = [nets EXCEPT ![Cache][cur[r].unit] = nets'[Cache][cur[r].unit]]
          /\ nets'[Cache][cur[r].unit] = nets[dir][cur[r].unit]
      BY <2>1, <2>2, <3>1, <3>2, CopiedNets
    <3>4. nets'[dir] = nets[dir]
      BY <1>d, <2>2, <3>3
    <3> QED
      BY <3>1, <3>3, <3>4
  <2>4. InWork(r)'
    BY <1>14, <1>i, <2>1, <2>3 DEF InWork
  <2>5. Mirrored(r)'
    <3>1. Intact(dir)' => Intact(dir)
      BY <1>t, <2>1, <2>2
    <3>2. \A x \in op[r] \union used[r] : HasNetlist(dir, x) => HasNetlist(dir, x)'
      BY <1>k, <2>1, <2>3, WorkingType
    <3>3. /\ Intact(dir)' /\ ~opt[r].user => \A x \in op[r] : HasNetlist(dir, x)'
          /\ Intact(dir)' => \A x \in used[r] : HasNetlist(dir, x)'
      BY <1>i, <2>1, <3>1, <3>2 DEF Mirrored, Matches
    <3> QED
      BY <1>14, <1>i, <2>1, <3>3 DEF Mirrored, Matches, Metrics, Working, Busy
  <2> QED
    BY <2>4, <2>5
<1>9. CASE pc'[r] = "recorded" /\ RecordLocal(r)
  <2>1. /\ pc[r] = "copied" /\ pc[r] \in Working /\ pc[r] \in Busy
        /\ Append(r, Metrics(r))
        /\ UNCHANGED <<nets, opt, op, cached, cur, used>>
    BY <1>9 DEF RecordLocal, memory, Working, Busy
  <2>2. /\ Contents(file'[Metrics(r)]) \subseteq Contents(file[Metrics(r)]) \union {cur[r]}
        /\ file'[Cache] = file[Cache]
    BY <1>d, <2>1, AppendType, WorkingType
  <2>3. InWork(r)'
    BY <1>9, <1>i, <2>1 DEF InWork
  <2>4. Intact(dir)' => Intact(dir)
    BY <1>t, <2>1, WorkingType
  <2>5. /\ Intact(dir)' /\ ~opt[r].user => \A x \in op[r] : HasNetlist(dir, x)'
        /\ Intact(dir)' => \A x \in used[r] : HasNetlist(dir, x)'
    <3>1. \A x \in op[r] \union used[r] : x.unit \in Units
      BY <2>1, WorkingType
    <3>2. /\ Intact(dir)' /\ ~opt[r].user => Matches(op[r], dir)
          /\ Intact(dir)' => Matches(used[r], dir)
      BY <1>i, <2>1, <2>4 DEF Mirrored
    <3> QED
      BY <1>b, <2>1, <3>1, <3>2
  <2>6. opt[r].user => <<"mixed", dir>> \in marks'
    BY <1>i, <2>1, MarksStep DEF Mirrored, RemoveDirectory
  <2>7. Mirrored(r)'
    BY <1>9, <1>i, <2>1, <2>2, <2>5, <2>6 DEF Mirrored, Matches, Metrics, Working, Busy
  <2> QED
    BY <2>3, <2>7
<1>10. CASE pc'[r] = "control" /\ FindUnit(r)
  <2>1. PICK rec \in op[r] : cur' = [cur EXCEPT ![r] = rec]
    BY <1>10 DEF FindUnit
  <2>2. /\ pc[r] = "translate" /\ pc[r] \in Working
        /\ UNCHANGED <<disk, opt, op, cached, used, marks>>
    BY <1>10 DEF FindUnit, NextUse, Working
  <2>3. cur'[r] = rec
    BY <1>m, <2>1
  <2>4. Intact(dir)' => Intact(dir)
    BY <1>t, <2>2, WorkingType
  <2>5. /\ Intact(dir)' /\ ~opt[r].user => \A x \in op[r] : HasNetlist(dir, x)'
        /\ Intact(dir)' => \A x \in used[r] : HasNetlist(dir, x)'
    <3>1. \A x \in op[r] \union used[r] : x.unit \in Units
      BY <2>2, WorkingType
    <3>2. /\ Intact(dir)' /\ ~opt[r].user => Matches(op[r], dir)
          /\ Intact(dir)' => Matches(used[r], dir)
      BY <1>i, <2>2, <2>4 DEF Mirrored
    <3> QED
      BY <1>b, <2>2, <3>1, <3>2 DEF disk
  <2>6. Intact(dir)' => ~opt[r].user
    BY <1>i, <2>2, <2>4 DEF Mirrored, Intact
  <2>7. InWork(r)'
    BY <1>10, <2>1, <2>2, <2>3, <2>5, <2>6 DEF InWork, Matches
  <2>8. Mirrored(r)'
    BY <1>10, <1>i, <2>2, <2>5 DEF Mirrored, Matches, Metrics, Working, Busy, disk
  <2> QED
    BY <2>7, <2>8
<1>11. CASE pc'[r] = "control" /\ RecordHit(r)
  <2>1. /\ pc[r] = "hit" /\ pc[r] \in Working /\ pc[r] \in Busy
        /\ Append(r, Metrics(r))
        /\ UNCHANGED <<nets, opt, op, cached, cur, used>>
    BY <1>11 DEF RecordHit, memory, Working, Busy
  <2>2. /\ Contents(file'[Metrics(r)]) \subseteq Contents(file[Metrics(r)]) \union {cur[r]}
        /\ file'[Cache] = file[Cache]
    BY <1>d, <2>1, AppendType, WorkingType
  <2>3. cur[r] \in cached[r] /\ nets'[dir][cur[r].unit] = cur[r].res
    BY <1>i, <2>1 DEF InWork
  <2>4. InWork(r)'
    BY <1>11, <2>1, <2>3 DEF InWork, Matches, HasNetlist
  <2>5. Intact(dir)' => Intact(dir)
    BY <1>t, <2>1, WorkingType
  <2>6. /\ Intact(dir)' /\ ~opt[r].user => \A x \in op[r] : HasNetlist(dir, x)'
        /\ Intact(dir)' => \A x \in used[r] : HasNetlist(dir, x)'
    <3>1. \A x \in op[r] \union used[r] : x.unit \in Units
      BY <2>1, WorkingType
    <3>2. /\ Intact(dir)' /\ ~opt[r].user => Matches(op[r], dir)
          /\ Intact(dir)' => Matches(used[r], dir)
      BY <1>i, <2>1, <2>5 DEF Mirrored
    <3> QED
      BY <1>b, <2>1, <3>1, <3>2
  <2>7. opt[r].user => <<"mixed", dir>> \in marks'
    BY <1>i, <2>1, MarksStep DEF Mirrored, RemoveDirectory
  <2>8. Mirrored(r)'
    BY <1>11, <1>i, <2>1, <2>2, <2>3, <2>6, <2>7 DEF Mirrored, Matches, Metrics, Working, Busy
  <2> QED
    BY <2>4, <2>8
<1> QED
  BY <1>1, <1>2, <1>3, <1>4, <1>5, <1>6, <1>7, <1>8, <1>9, <1>10, <1>11, <1>12, <1>13, <1>14,
     Flow

(* Every step keeps the store. *)
LEMMA StoreStep == TypeInv /\ StoreInv /\ [Next]_vars => StoreInv'
<1> SUFFICES ASSUME TypeInv, StoreInv, [Next]_vars, Sequential
             PROVE  /\ OneActive'
                    /\ <<"mixed", Cache>> \notin marks' /\ <<"torn", Cache>> \notin marks'
                    /\ NoWrongNetlist' /\ RecordHasItsNetlist'
                    /\ \A r \in Runs : Made(r)' /\ Mirrored(r)' /\ InWork(r)'
  BY DEF StoreInv, Sequential
<1> USE ConstantsAssumption
<1>i. OneActive /\ \A r \in Runs : Made(r)
  BY DEF StoreInv
<1>u. CASE UNCHANGED vars
  <2>1. OneActive' /\ <<"mixed", Cache>> \notin marks' /\ <<"torn", Cache>> \notin marks'
    BY <1>u DEF vars, StoreInv, OneActive, Active
  <2>2. NoWrongNetlist' /\ RecordHasItsNetlist'
    BY <1>u DEF vars, disk, memory, StoreInv, NoWrongNetlist, RecordHasItsNetlist, Intact, Wiping,
         HasNetlist, Torn, Sequential
  <2>3. ASSUME NEW r \in Runs
        PROVE  Made(r)' /\ Mirrored(r)' /\ InWork(r)'
    <3>1. Made(r)'
      BY <1>i, <1>u DEF vars, disk, memory, Made
    <3>2. Mirrored(r)'
      BY <1>u DEF vars, disk, memory, StoreInv, Mirrored, Intact, Wiping, Matches, HasNetlist,
           Torn, Metrics
    <3>3. InWork(r)'
      BY <1>u DEF vars, disk, memory, StoreInv, InWork, Intact, Wiping, Matches, HasNetlist, Torn
    <3> QED
      BY <3>1, <3>2, <3>3
  <2> QED
    BY <2>1, <2>2, <2>3
<1>n. ASSUME NEW r \in Runs, Moves(r)
      PROVE  /\ OneActive'
             /\ <<"mixed", Cache>> \notin marks' /\ <<"torn", Cache>> \notin marks'
             /\ NoWrongNetlist' /\ RecordHasItsNetlist'
             /\ \A s \in Runs : Made(s)' /\ Mirrored(s)' /\ InWork(s)'
  <2>1. \A s \in Runs \ {r} : ~Active(s) /\ pc'[s] = pc[s]
    BY <1>i, <1>n, Alone
  <2>2. OneActive'
    BY <2>1 DEF OneActive, Active
  <2>3. <<"mixed", Cache>> \notin marks' /\ <<"torn", Cache>> \notin marks'
    <3>1. ASSUME ReadCache(r) \/ pc[r] = "fetching"
          PROVE  opt[r].dir # Cache
      BY <3>1, WorkingType DEF ReadCache, Reading, Working, Busy
    <3> QED
      BY <1>n, <3>1, MarksStep DEF StoreInv
  <2>4. NoWrongNetlist'
    BY <1>n, MatchStep DEF NoWrongNetlist, Contents
  <2>5. RecordHasItsNetlist'
    BY <1>n, MatchStep DEF RecordHasItsNetlist, Contents, Intact
  <2>6. ASSUME NEW s \in Runs \ {r}
        PROVE  Made(s)' /\ Mirrored(s)' /\ InWork(s)'
    BY <2>1 DEF Active, ActiveAt, Made, Mirrored, InWork, Preparing, Reading, Working, Busy
  <2>7. Made(r)' /\ Mirrored(r)' /\ InWork(r)'
    BY <1>i, <1>n, MadeStep, MemoryStep
  <2> QED
    BY <2>2, <2>3, <2>4, <2>5, <2>6, <2>7
<1> QED
  BY <1>u, <1>n DEF Next, Moves

LEMMA StoreInvTheorem == Spec => []StoreInv
<1> QED
  BY InitStore, StoreStep, TypeInvTheorem, PTL DEF Spec

(* When runs do not overlap, a record in a location that is intact stands  *)
(* beside the netlist it was measured on, which is cut only by a second    *)
(* copying from the cache that goes on or was stopped.                     *)
THEOREM RecordHasItsNetlistTheorem == Spec => []RecordHasItsNetlist
<1>1. StoreInv => RecordHasItsNetlist
  BY DEF StoreInv, RecordHasItsNetlist
<1> QED
  BY <1>1, StoreInvTheorem, PTL

(* When runs do not overlap, what a run puts into its output was measured  *)
(* on the netlists of its output directory, cut at most as above.          *)
THEOREM UsedHasNetlistTheorem == Spec => []UsedHasNetlist
<1>1. TypeInv /\ StoreInv => UsedHasNetlist
  BY DEF TypeInv, Shape, StoreInv, Mirrored, Matches, UsedHasNetlist
<1> QED
  BY <1>1, TypeInvTheorem, StoreInvTheorem, PTL

(* When runs do not overlap, a unit that the optimizer is called for has   *)
(* no record in the cache: what the run has read is all there is.          *)
THEOREM NoWastedOptimizationTheorem == Spec => NoWastedOptimization
<1> DEFINE Needed == Sequential =>
             \A r \in Runs : pc[r] = "translate" /\ pc'[r] = "optimizing" =>
               cur'[r].unit \notin Known(Contents(file[Cache]))
<1>1. TypeInv /\ StoreInv /\ [Next]_vars => [Needed]_vars
  <2> SUFFICES ASSUME TypeInv, StoreInv, Next, Sequential,
                      NEW r \in Runs, pc[r] = "translate", pc'[r] = "optimizing"
               PROVE  cur'[r].unit \notin Known(Contents(file[Cache]))
    OBVIOUS
  <2>1. PICK s \in Runs : Moves(s)
    BY DEF Next, Moves
  <2>2. s = r
    BY <2>1, OthersStay
  <2>3. Optimize(r)
    BY <2>1, <2>2, Flow DEF Working, Busy
  <2>4. PICK u \in Unmeasured(r), v \in Values :
          cur' = [cur EXCEPT ![r] = [unit |-> u, res |-> [tech |-> opt[r].tech, val |-> v]]]
    BY <2>3 DEF Optimize
  <2>5. cur'[r].unit = u
    BY <2>4 DEF TypeInv, MemoryType
  <2>6. Contents(file[Cache]) \subseteq op[r] \union cached[r]
    BY DEF StoreInv, Mirrored, Working
  <2> QED
    BY <2>4, <2>5, <2>6 DEF Unmeasured, Known
<1> QED
  BY <1>1, TypeInvTheorem, StoreInvTheorem, PTL DEF Spec, NoWastedOptimization

-----------------------------------------------------------------------------
(* The technology of records. *)

Measured(recs, t) == \A rec \in recs : rec.res.tech = t

(* A file whose header names a technology has records of it only; one      *)
(* whose first line was a record is read by nobody.                        *)
Sound(f) ==
  f # None => /\ f.first \in Techs => Measured(f.recs, f.first)
              /\ f.first = "empty" => f.recs = {}
OfTech(f, t) == f # None => f.first \in {t, "empty", "record"}

(* A run has read, and has in work, what was measured in its technology.   *)
RunOfTech(r) ==
  LET t == opt[r].tech IN
  /\ pc[r] \in {"readCache"} \union Working =>
       Measured(op[r], t) /\ OfTech(file[Metrics(r)], t)
  /\ pc[r] \in Working => Measured(cached[r] \union used[r], t) /\ OfTech(file[Cache], t)
  /\ pc[r] \in Busy => cur[r].res.tech = t

TechInv ==
  Sequential /\ Unambiguous =>
    /\ \A l \in Files : Sound(file[l])
    /\ \A r \in Runs : RunOfTech(r)

LEMMA InitTech == Init => TechInv
<1> SUFFICES ASSUME Init PROVE TechInv
  OBVIOUS
<1>1. \A l \in Files : Sound(file[l])
  <2>1. ASSUME NEW t \in Techs
        PROVE  [EmptyFile EXCEPT !.first = t].recs = {}
    BY DEF EmptyFile
  <2>2. ASSUME NEW l \in Files
        PROVE  file[l] = None \/ \E t \in Techs : file[l] = [EmptyFile EXCEPT !.first = t]
    BY <2>2 DEF Init
  <2> QED
    BY <2>1, <2>2 DEF Sound, Measured
<1>2. \A r \in Runs : RunOfTech(r)
  BY DEF Init, RunOfTech, Working, Busy
<1> QED
  BY <1>1, <1>2 DEF TechInv

(* What an append does to the first line and to the records behind it.     *)
LEMMA AppendTech ==
  ASSUME TypeInv, NEW r \in Runs, NEW l \in Files, NEW t \in Techs,
         cur[r].res.tech = t, Append(r, l), Sound(file[l]), OfTech(file[l], t)
  PROVE  Sound(file'[l]) /\ OfTech(file'[l], t)
<1> USE ConstantsAssumption
<1>f. file \in [Files -> File \union {None}]
  BY DEF TypeInv, DiskType
<1>1. /\ [EmptyFile EXCEPT !.first = "record"].first = "record"
      /\ "record" \notin Techs /\ "empty" \notin Techs
  BY DEF EmptyFile
<1>2. ASSUME NEW f \in File, Sound(f), OfTech(f, t)
      PROVE  /\ Sound([f EXCEPT !.first = "record"]) /\ OfTech([f EXCEPT !.first = "record"], t)
             /\ Sound([f EXCEPT !.bad = TRUE]) /\ OfTech([f EXCEPT !.bad = TRUE], t)
             /\ f.first # "empty" => /\ Sound([f EXCEPT !.recs = @ \union {cur[r]}])
                                     /\ OfTech([f EXCEPT !.recs = @ \union {cur[r]}], t)
  <2>1. f # None /\ f.first \in {t, "empty", "record"}
    BY <1>2, NoneAssumption DEF OfTech
  <2>2. ASSUME NEW g, g.first = "record"
        PROVE  Sound(g) /\ OfTech(g, t)
    BY <1>1, <2>2 DEF Sound, OfTech
  <2>3. ASSUME NEW g, g.first = f.first, g.recs = f.recs
        PROVE  Sound(g) /\ OfTech(g, t)
    BY <1>2, <2>1, <2>3 DEF Sound, OfTech
  <2>4. ASSUME NEW g, g.first = f.first, g.recs = f.recs \union {cur[r]}, f.first # "empty"
        PROVE  Sound(g) /\ OfTech(g, t)
    BY <1>1, <1>2, <2>1, <2>4 DEF Sound, OfTech, Measured
  <2>5. /\ [f EXCEPT !.first = "record"].first = "record"
        /\ [f EXCEPT !.bad = TRUE].first = f.first
        /\ [f EXCEPT !.bad = TRUE].recs = f.recs
        /\ [f EXCEPT !.recs = @ \union {cur[r]}].first = f.first
        /\ [f EXCEPT !.recs = @ \union {cur[r]}].recs = f.recs \union {cur[r]}
    BY DEF File
  <2> QED
    BY <2>2, <2>3, <2>4, <2>5
<1>3. CASE file' = [file EXCEPT ![l] = Appended(@, cur[r], l \in exists \union {UserFile})]
  <2>1. file'[l] = Appended(file[l], cur[r], l \in exists \union {UserFile})
    BY <1>f, <1>3
  <2>2. CASE file[l] = None
    BY <1>1, <2>1, <2>2 DEF Appended, Sound, OfTech
  <2>3. CASE file[l] # None
    <3>1. file[l] \in File
      BY <1>f, <2>3
    <3> QED
      BY <1>2, <2>1, <2>3, <3>1 DEF Appended
  <2> QED
    BY <2>2, <2>3
<1>4. CASE /\ file[l] # None
           /\ file' = [file EXCEPT ![l] = IF @.first = "empty"
                                         THEN [@ EXCEPT !.first = "record"]
                                         ELSE [@ EXCEPT !.bad = TRUE]]
  BY <1>f, <1>2, <1>4
<1> QED
  BY <1>3, <1>4 DEF Append

(* A step of the only run keeps the files sound, and those it has read of  *)
(* its technology.                                                         *)
LEMMA FilesTech ==
  ASSUME TypeInv, NEW r \in Runs, Moves(r), RunOfTech(r),
         \A l \in Files : Sound(file[l]), NEW l \in Files
  PROVE  /\ Sound(file'[l])
         /\ \A t : pc[r] \in Reading \union Working /\ t = opt[r].tech /\ OfTech(file[l], t) =>
              OfTech(file'[l], t)
<1> USE ConstantsAssumption
<1>f. file \in [Files -> File \union {None}]
  BY DEF TypeInv, DiskType
<1>1. CASE UNCHANGED file
  BY <1>1
<1>2. CASE RemoveFile(r) \/ CreateFile(r) \/ WriteHeader(r)
  <2>1. pc[r] \notin Reading \union Working /\ at[r] \in Files /\ opt[r].tech \in Techs
    BY <1>2 DEF RemoveFile, CreateFile, WriteHeader, Reading, Working, Busy, TypeInv, Shape,
         Active, ActiveAt, Preparing, Files, Loc, CommandLine
  <2>2. CASE RemoveFile(r)
    BY <1>f, <2>1, <2>2 DEF RemoveFile, Sound
  <2>3. CASE CreateFile(r)
    <3>1. Sound(EmptyFile)
      BY DEF Sound, EmptyFile
    <3>2. file' = [file EXCEPT ![at[r]] = IF @ = None THEN EmptyFile ELSE @]
      BY <2>3 DEF CreateFile
    <3>3. file'[l] \in {file[l], EmptyFile}
      BY <1>f, <3>2
    <3> QED
      BY <2>1, <3>1, <3>3
  <2>4. CASE WriteHeader(r)
    <3>1. ASSUME NEW f \in File \union {None}, Sound(f)
          PROVE  Sound(WithHeader(f, opt[r].tech))
      BY <2>1, <3>1 DEF Sound, WithHeader, Measured, File
    <3>2. file' = [file EXCEPT ![at[r]] = WithHeader(@, opt[r].tech)]
      BY <2>4 DEF WriteHeader
    <3> QED
      BY <1>f, <2>1, <3>1, <3>2
  <2> QED
    BY <1>2, <2>2, <2>3, <2>4
<1>3. CASE RecordHit(r) \/ RecordLocal(r) \/ RecordInCache(r)
  <2>1. /\ pc[r] \in Working /\ pc[r] \in Busy
        /\ \/ Append(r, Metrics(r))
           \/ Append(r, Cache)
    BY <1>3 DEF RecordHit, RecordLocal, RecordInCache, Working, Busy
  <2>2. opt[r].tech \in Techs /\ cur[r].res.tech = opt[r].tech
    BY <2>1, WorkingType DEF CommandLine, RunOfTech
  <2>3. /\ OfTech(file[Metrics(r)], opt[r].tech) /\ OfTech(file[Cache], opt[r].tech)
        /\ Metrics(r) \in Files /\ Cache \in Files
    BY <2>1, WorkingType DEF RunOfTech
  <2>4. ASSUME NEW k \in Files, Append(r, k), OfTech(file[k], opt[r].tech)
        PROVE  /\ Sound(file'[k]) /\ OfTech(file'[k], opt[r].tech)
               /\ l # k => file'[l] = file[l]
    <3>1. cur[r] \in Record
      BY <2>1, WorkingType
    <3>2. file' = [file EXCEPT ![k] = file'[k]]
      BY <2>4, <3>1, AppendType
    <3> QED
      BY <1>f, <2>2, <2>4, <3>2, AppendTech
  <2>5. PICK k \in {Metrics(r), Cache} : Append(r, k)
    BY <2>1
  <2> QED
    BY <2>3, <2>4, <2>5
<1>4. CASE Start(r) \/ Read(r) \/ Kill(r)
  BY <1>4, <1>1 DEF Start, Read, ReadStd, ReadLocal, ReadCache, RejectFile, Kill, Exit, Leave, disk
<1>5. CASE RemoveDirectory(r) \/ RemovalFails(r) \/ CreateDirectory(r) \/ FindFile(r)
           \/ \E u \in Units : RemoveNetlist(r, u)
  BY <1>5, <1>1 DEF RemoveNetlist, RemoveDirectory, RemovalFails, CreateDirectory, FindFile,
       Exit, Leave, disk
<1>6. CASE NoMetrics(r) \/ FindUnit(r) \/ CopyFromCache(r) \/ UseRecord(r) \/ NoTemplate(r)
           \/ Optimize(r) \/ CopyToCache(r) \/ Finish(r) \/ CopyFails(r)
  BY <1>6, <1>1 DEF NoMetrics, FindUnit, CopyFromCache, UseRecord, NoTemplate, Optimize,
       CopyToCache, Finish, CopyFails, Exit, Leave, disk
<1>7. CASE Writes(r)
  BY <1>7, <1>1, WritesKeep
<1> QED
  BY <1>2, <1>3, <1>4, <1>5, <1>6, <1>7 DEF Moves, Step, Prepare, Translate, Writes

(* A file that is accepted is of the technology, and so are its records.   *)
LEMMA AcceptedTech ==
  ASSUME Unambiguous, NEW f, NEW t \in Techs, Sound(f), Objections(f, t) = {}
  PROVE  OfTech(f, t) /\ Measured(Contents(f), t)
<1>1. CASE f = None
  BY <1>1 DEF OfTech, Measured, Contents
<1>2. CASE f # None
  <2>1. f.first = "empty" \/ <<t, f.first>> \in Begins
    BY <1>2 DEF Objections, Accepts
  <2>2. f.first = "empty" \/ f.first = t
    BY <2>1 DEF Unambiguous
  <2> QED
    BY <1>2, <2>2 DEF OfTech, Sound, Measured, Contents
<1> QED
  BY <1>1, <1>2

(* What the only run has in memory stays of its technology.                *)
LEMMA RunTech ==
  ASSUME TypeInv, Unambiguous, NEW r \in Runs, Moves(r), RunOfTech(r),
         \A l \in Files : Sound(file[l])
  PROVE  RunOfTech(r)'
<1> USE ConstantsAssumption
<1> DEFINE t == opt[r].tech
<1>m. /\ opt \in [Runs -> CommandLine \union {None}]
      /\ op \in [Runs -> SUBSET Record] /\ cached \in [Runs -> SUBSET Record]
      /\ cur \in [Runs -> Record \union {None}] /\ used \in [Runs -> SUBSET Record]
  BY DEF TypeInv, MemoryType
<1>k. pc[r] \in Reading \union Working => t \in Techs
  BY WorkingType DEF CommandLine
<1>d. /\ pc[r] \in {"readCache"} \union Working => OfTech(file'[Metrics(r)], t)
      /\ pc[r] \in Working => OfTech(file'[Cache], t)
  <2>1. pc[r] \in {"readCache"} \union Working =>
          pc[r] \in Reading \union Working /\ Metrics(r) \in Files /\ Cache \in Files
    BY WorkingType DEF Reading
  <2> QED
    BY <2>1, FilesTech DEF RunOfTech
<1>1. CASE pc'[r] \notin {"readCache"} \union Working
  BY <1>1 DEF RunOfTech, Working
<1>2. CASE pc'[r] = "readCache" /\ ReadLocal(r)
  <2>1. /\ pc[r] \in Reading /\ op'[r] = Contents(file[Metrics(r)])
        /\ Objections(file[Metrics(r)], t) = {}
        /\ UNCHANGED <<file, opt>>
    BY <1>2, <1>m DEF ReadLocal, Reading, disk
  <2>2. OfTech(file[Metrics(r)], t) /\ Measured(Contents(file[Metrics(r)]), t)
    BY <1>k, <2>1, WorkingType, AcceptedTech
  <2> QED
    BY <1>2, <2>1, <2>2 DEF RunOfTech, Metrics, Working, Busy
<1>3. CASE pc'[r] = "translate" /\ ReadCache(r)
  <2>1. /\ pc[r] = "readCache" /\ pc[r] \in Reading /\ pc[r] \notin Working
        /\ cached'[r] = Contents(file[Cache])
        /\ Objections(file[Cache], t) = {}
        /\ UNCHANGED <<file, opt, op, used>>
    BY <1>3, <1>m DEF ReadCache, Reading, Working, Busy, disk
  <2>2. OfTech(file[Cache], t) /\ Measured(Contents(file[Cache]), t)
    BY <1>k, <2>1, WorkingType, AcceptedTech
  <2>3. used[r] = {}
    BY <2>1 DEF TypeInv, Shape
  <2>4. Measured(op[r], t) /\ OfTech(file[Metrics(r)], t)
    BY <2>1 DEF RunOfTech
  <2>5. pc'[r] \notin Busy
    BY <1>3 DEF Busy
  <2> QED
    BY <2>1, <2>2, <2>3, <2>4, <2>5 DEF RunOfTech, Metrics, Measured
<1>4. CASE pc[r] \in Working /\ pc'[r] \in Working
  <2>1. /\ Measured(op[r], t) /\ Measured(cached[r], t) /\ Measured(used[r], t)
        /\ pc[r] \in Busy => cur[r].res.tech = t
    BY <1>4 DEF RunOfTech, Measured
  <2>2. ASSUME UNCHANGED opt, Measured(op'[r], t), Measured(cached'[r], t), Measured(used'[r], t),
               pc'[r] \in Busy => cur'[r].res.tech = t
        PROVE  RunOfTech(r)'
    BY <1>4, <1>d, <2>2 DEF RunOfTech, Metrics, Measured
  <2>3. CASE UseRecord(r) \/ RecordInCache(r)
    <3>1. /\ pc[r] \in Busy /\ pc'[r] \notin Busy
          /\ op'[r] \in {op[r], op[r] \union {cur[r]}}
          /\ used'[r] = used[r] \union {cur[r]}
          /\ UNCHANGED <<opt, cached>>
      BY <2>3, <1>m DEF UseRecord, RecordInCache, Learned, Goto, Busy, TypeInv, ControlType
    <3> QED
      BY <2>1, <2>2, <3>1 DEF Measured
  <2>4. CASE CopyFromCache(r) /\ pc'[r] = "fetching"
    <3>1. ~Exit(r, "missing")
      BY <2>4 DEF Exit, Leave, Goto, TypeInv, ControlType
    <3>2. PICK rec \in cached[r] : cur' = [cur EXCEPT ![r] = rec] /\ UNCHANGED <<opt, op, cached, used>>
      BY <2>4, <3>1 DEF CopyFromCache
    <3>3. cur'[r] = rec
      BY <1>m, <3>2
    <3> QED
      BY <2>1, <2>2, <3>2, <3>3 DEF Measured
  <2>5. CASE FindUnit(r)
    <3>1. PICK rec \in op[r] : cur' = [cur EXCEPT ![r] = rec]
      BY <2>5 DEF FindUnit
    <3>2. cur'[r] = rec
      BY <1>m, <3>1
    <3> QED
      BY <2>1, <2>2, <2>5, <3>2 DEF FindUnit, Measured
  <2>6. CASE Optimize(r)
    <3>1. PICK u \in Unmeasured(r), v \in Values :
            cur' = [cur EXCEPT ![r] = [unit |-> u, res |-> [tech |-> t, val |-> v]]]
      BY <2>6 DEF Optimize
    <3>2. cur'[r].res.tech = t
      BY <1>m, <3>1
    <3> QED
      BY <2>1, <2>2, <2>6, <3>2 DEF Optimize
  <2>7. CASE (CopyToCache(r) /\ pc'[r] = "storing") \/ RecordLocal(r) \/ RecordHit(r) \/ Writes(r)
    <3>1. pc[r] \in Busy /\ UNCHANGED <<opt, op, cached, cur, used>>
      <4>1. CopyToCache(r) /\ pc'[r] = "storing" => ~Exit(r, "missing")
        BY DEF Exit, Leave, Goto, TypeInv, ControlType
      <4> QED
        BY <2>7, <4>1, WritesKeep DEF CopyToCache, RecordLocal, RecordHit, memory, Busy
    <3> QED
      BY <2>1, <2>2, <3>1
  <2>8. CASE ReadCache(r)
    BY <1>4, <2>8 DEF ReadCache, Working, Busy
  <2> QED
    BY <1>4, <2>3, <2>4, <2>5, <2>6, <2>7, <2>8, Flow DEF Working, Busy, Writes
<1>5. CASE pc[r] \notin Working /\ pc'[r] \in Working /\ ~ReadCache(r)
  <2>1. pc[r] \in Working
    BY <1>5, Flow DEF Working, Busy, UseRecord, RecordInCache, CopyFromCache, FinishFetch, NextUse,
         Optimize, FinishOptimize, CopyToCache, FinishStore, RecordLocal, FindUnit, RecordHit
  <2> QED
    BY <1>5, <2>1
<1>6. pc'[r] = "readCache" => ReadLocal(r) /\ "readCache" \notin Working
  BY Flow DEF Working, Busy
<1>7. ReadCache(r) /\ pc'[r] \in Working => pc'[r] = "translate"
  BY DEF ReadCache, Goto, TypeInv, ControlType
<1> HIDE DEF t
<1> QED
  BY <1>1, <1>2, <1>3, <1>4, <1>5, <1>6, <1>7

LEMMA TechStep == TypeInv /\ StoreInv /\ TechInv /\ [Next]_vars => TechInv'
<1> SUFFICES ASSUME TypeInv, StoreInv, TechInv, [Next]_vars, Sequential, Unambiguous
             PROVE  (\A l \in Files : Sound(file'[l])) /\ (\A r \in Runs : RunOfTech(r)')
  BY DEF TechInv, Sequential, Unambiguous, Sound, Measured
<1>1. (\A l \in Files : Sound(file[l])) /\ (\A r \in Runs : RunOfTech(r))
  BY DEF TechInv
<1>2. CASE UNCHANGED vars
  BY <1>1, <1>2 DEF vars, disk, memory, Sound, RunOfTech, Metrics
<1>3. ASSUME NEW r \in Runs, Moves(r)
      PROVE  (\A l \in Files : Sound(file'[l])) /\ (\A s \in Runs : RunOfTech(s)')
  <2>1. \A s \in Runs \ {r} : ~Active(s) /\ pc'[s] = pc[s]
    BY <1>3, Alone DEF StoreInv
  <2>2. ASSUME NEW s \in Runs \ {r} PROVE RunOfTech(s)'
    BY <2>1 DEF Active, ActiveAt, RunOfTech, Reading, Working
  <2>3. ASSUME NEW l \in Files PROVE Sound(file'[l])
    BY <1>1, <1>3, FilesTech
  <2>4. RunOfTech(r)'
    BY <1>1, <1>3, RunTech
  <2> QED
    BY <2>2, <2>3, <2>4
<1> QED
  BY <1>2, <1>3 DEF Next, Moves

(* When runs do not overlap and no name of a technology begins another, no *)
(* number is used for another technology than it was measured in.          *)
THEOREM UsedForTechTheorem == Spec => []UsedForTech
<1>1. TypeInv /\ TechInv => UsedForTech
  <2> SUFFICES ASSUME TypeInv, TechInv, Sequential, Unambiguous, NEW r \in Runs,
                      NEW rec \in used[r]
               PROVE  rec.res.tech = opt[r].tech
    BY DEF UsedForTech
  <2>1. pc[r] \in Working
    BY DEF TypeInv, Shape
  <2> QED
    BY <2>1 DEF TechInv, RunOfTech, Measured
<1> QED
  BY <1>1, InitTech, TechStep, TypeInvTheorem, StoreInvTheorem, PTL DEF Spec

-----------------------------------------------------------------------------
(* Why runs fail. *)

(* A file without a header was left by a run that was killed before it     *)
(* wrote one, or is about to write it; a file with a record in its place   *)
(* was such a file; a broken line is due to a full disk.                   *)
Excused(l) ==
  file[l] # None =>
    /\ file[l].first = "empty" =>
         <<"create", l>> \in marks \/ \E r \in Runs : pc[r] = "header" /\ at[r] = l
    /\ file[l].first = "record" => <<"create", l>> \in marks \/ <<"cut", l>> \in marks
    /\ file[l].bad => <<"cut", l>> \in marks

Unmarked(l) == \A k \in Kinds : <<k, l>> \notin marks

(* Nothing is left of a directory that is not there. *)
Gone(l) == l \notin exists => file[l] = None /\ Unmarked(l)

(* The files a run has made are there. *)
Opened(r) ==
  /\ pc[r] = "wipe" => at[r] \in exists
  /\ pc[r] = "create" => file[at[r]] = None
  /\ pc[r] = "header" => file[at[r]] = EmptyFile
  /\ pc[r] \in Preparing /\ at[r] # Cache => file[Cache] # None
  /\ pc[r] \in Reading \union Working => file[Cache] # None /\ file[opt[r].dir] # None

(* A run has metrics unless the technology or the file of -m has none. *)
Supplied(r) ==
  /\ pc[r] = "readLocal" => (have[r] <=> opt[r].tech \in Calibrated)
  /\ pc[r] \in {"readCache"} \union Working =>
       (have[r] <=> opt[r].tech \in Calibrated /\ file[Metrics(r)] # None)
  /\ pc[r] \in Busy => have[r]

(* What a run with -i has removed has no history and, once there is a file *)
(* again, the header of the run.                                           *)
Headed(l, t) == file[l] # None /\ file[l].first = t

Renewed(r) ==
  Active(r) /\ opt[r].inval =>
    /\ pc[r] \in {"mkdir", "check", "create", "header"} => Unmarked(at[r])
    /\ pc[r] \in {"mkdir", "check"} => file[at[r]] = None
    /\ pc[r] \in Preparing /\ at[r] # Cache => Unmarked(Cache) /\ Headed(Cache, opt[r].tech)
    /\ pc[r] \in Reading =>
         \A l \in {Cache, opt[r].dir} : Unmarked(l) /\ Headed(l, opt[r].tech)
    /\ pc[r] \in Working => <<"wipe", Cache>> \notin marks

CauseInv ==
  Sequential =>
    /\ \A l \in Files : Excused(l) /\ ~Differ(Contents(file[l]))
    /\ \A l \in Loc : Gone(l)
    /\ \A r \in Runs : Opened(r) /\ Supplied(r) /\ Renewed(r)

LEMMA InitCause == Init => CauseInv
<1> SUFFICES ASSUME Init PROVE CauseInv
  OBVIOUS
<1> USE ConstantsAssumption, NoneAssumption
<1>1. ASSUME NEW l \in Files
      PROVE  Excused(l) /\ ~Differ(Contents(file[l]))
  <2>1. ASSUME NEW t \in Techs, file[l] = [EmptyFile EXCEPT !.first = t]
        PROVE  file[l].first = t /\ ~file[l].bad /\ file[l].recs = {}
    BY <2>1 DEF EmptyFile
  <2>2. file[l] = None \/ \E t \in Techs : file[l] = [EmptyFile EXCEPT !.first = t]
    BY DEF Init
  <2> QED
    BY <2>1, <2>2 DEF Excused, Differ, Contents
<1>2. \A l \in Loc : Gone(l)
  BY DEF Init, Gone, Unmarked
<1>3. \A r \in Runs : Opened(r) /\ Supplied(r) /\ Renewed(r)
  BY DEF Init, Opened, Supplied, Renewed, Active, ActiveAt, Preparing, Reading, Working, Busy
<1> QED
  BY <1>1, <1>2, <1>3 DEF CauseInv

(* A unit that is recorded in a file has no other record there.            *)
LEMMA NoneDiffers ==
  ASSUME TypeInv, StoreInv, Sequential, NEW r \in Runs, Moves(r), NEW l \in Files,
         ~Differ(Contents(file[l]))
  PROVE  ~Differ(Contents(file'[l]))
<1>i. Mirrored(r) /\ InWork(r)
  BY DEF StoreInv
<1>1. ASSUME NEW old \in Contents(file[l]), NEW new \in Adds(r, l), old.unit = new.unit
      PROVE  old.res = new.res
  <2>1. /\ pc[r] \in {"hit", "copied", "recorded"} /\ new = cur[r]
        /\ pc[r] \in {"hit", "copied"} => l = Metrics(r)
        /\ pc[r] = "recorded" => l = Cache
    BY <1>1 DEF Adds
  <2>2. pc[r] \in Working
    BY <2>1 DEF Working, Busy
  <2>3. old \in op[r] \union cached[r]
    BY <1>i, <1>1, <2>1, <2>2 DEF Mirrored
  <2>4. CASE pc[r] = "hit"
    <3>1. new \in cached[r] /\ old \in cached[r]
      BY <1>i, <1>1, <2>1, <2>3, <2>4 DEF InWork, Known
    <3> QED
      BY <1>i, <1>1, <2>2, <3>1 DEF Mirrored, Differ
  <2>5. CASE pc[r] \in {"copied", "recorded"}
    BY <1>i, <1>1, <2>1, <2>3, <2>5 DEF InWork, Known
  <2> QED
    BY <2>1, <2>4, <2>5
<1>2. \A x, y \in Adds(r, l) : x = y
  BY DEF Adds
<1>3. Contents(file'[l]) \subseteq Contents(file[l]) \union Adds(r, l)
  BY FileStep
<1> QED
  BY <1>1, <1>2, <1>3 DEF Differ

(* What an append does to the first line of a file and to its marks.       *)
Appends(r, k) ==
  /\ k \in {Metrics(r), Cache} /\ k \in Files /\ pc[r] \in Busy /\ pc'[r] \in Working
  /\ file[k] # None /\ file'[k] # None
  /\ file' = [file EXCEPT ![k] = file'[k]]
  /\ \/ file'[k].first = file[k].first
     \/ file[k].first = "empty" /\ file'[k].first = "record"
  /\ file'[k].bad => file[k].bad \/ <<"cut", k>> \in marks'
  /\ marks \subseteq marks' /\ marks' \subseteq marks \union {<<"cut", k>>}
  /\ UNCHANGED <<exists, opt, have>>

LEMMA AppendCause ==
  ASSUME TypeInv, CauseInv, Sequential, NEW r \in Runs,
         RecordHit(r) \/ RecordLocal(r) \/ RecordInCache(r)
  PROVE  \E k \in {Metrics(r), Cache} : Appends(r, k)
<1> USE ConstantsAssumption, NoneAssumption
<1>1. /\ pc[r] \in Busy /\ pc[r] \in Working /\ pc'[r] \in Working
      /\ UNCHANGED <<exists, opt, have>>
  BY DEF RecordHit, RecordLocal, RecordInCache, Goto, memory, Working, Busy, TypeInv, ControlType
<1>2. PICK k \in {Metrics(r), Cache} : Append(r, k)
  BY DEF RecordHit, RecordLocal, RecordInCache
<1>3. k \in Files /\ cur[r] \in Record
  BY <1>1, <1>2, WorkingType
<1>4. file[k] # None
  BY <1>1, <1>2 DEF CauseInv, Opened, Supplied
<1>5. file[k] \in File /\ file \in [Files -> File \union {None}]
  BY <1>3, <1>4 DEF TypeInv, DiskType
<1>6. /\ file' = [file EXCEPT ![k] = file'[k]]
      /\ marks \subseteq marks' /\ marks' \subseteq marks \union {<<"cut", k>>}
  BY <1>2, <1>3, AppendType
<1>7. PICK f \in File : f = file[k]
  BY <1>5
<1>8. ASSUME NEW g, \/ g = [f EXCEPT !.first = "record"] /\ f.first = "empty"
                    \/ g = [f EXCEPT !.recs = @ \union {cur[r]}]
                    \/ g = [f EXCEPT !.bad = TRUE] /\ <<"cut", k>> \in marks'
      PROVE  /\ g \in File
             /\ g.first = f.first \/ (f.first = "empty" /\ g.first = "record")
             /\ g.bad => f.bad \/ <<"cut", k>> \in marks'
  <2>1. CASE g = [f EXCEPT !.first = "record"] /\ f.first = "empty"
    BY <2>1 DEF File
  <2>2. CASE g = [f EXCEPT !.recs = @ \union {cur[r]}]
    BY <1>3, <2>2 DEF File
  <2>3. CASE g = [f EXCEPT !.bad = TRUE] /\ <<"cut", k>> \in marks'
    BY <2>3 DEF File
  <2> QED
    BY <1>8, <2>1, <2>2, <2>3
<1>9. \/ file'[k] = [f EXCEPT !.first = "record"] /\ f.first = "empty"
      \/ file'[k] = [f EXCEPT !.recs = @ \union {cur[r]}]
      \/ file'[k] = [f EXCEPT !.bad = TRUE] /\ <<"cut", k>> \in marks'
  <2>1. CASE file' = [file EXCEPT ![k] = Appended(@, cur[r], k \in exists \union {UserFile})]
    <3>1. file'[k] = Appended(f, cur[r], k \in exists \union {UserFile})
      BY <1>3, <1>5, <1>7, <2>1
    <3> QED
      BY <1>4, <1>7, <3>1 DEF Appended
  <2>2. CASE /\ file' = [file EXCEPT ![k] = IF @.first = "empty"
                                           THEN [@ EXCEPT !.first = "record"]
                                           ELSE [@ EXCEPT !.bad = TRUE]]
             /\ marks' = marks \union {<<"cut", k>>}
    BY <1>3, <1>5, <1>7, <2>2
  <2> QED
    BY <1>2, <2>1, <2>2 DEF Append
<1>10. /\ file'[k] \in File
       /\ file'[k].first = f.first \/ (f.first = "empty" /\ file'[k].first = "record")
       /\ file'[k].bad => f.bad \/ <<"cut", k>> \in marks'
  BY <1>8, <1>9
<1> QED
  BY <1>1, <1>2, <1>3, <1>4, <1>6, <1>7, <1>10 DEF Appends

(* The steps that touch the directories, the files or their marks.         *)
Quiet(r) == UNCHANGED <<exists, file, marks>> /\ pc[r] # "header"

LEMMA DiskStep ==
  ASSUME TypeInv, CauseInv, Sequential, NEW r \in Runs, Moves(r)
  PROVE  \/ Quiet(r)
         \/ \E k \in {Metrics(r), Cache} : Appends(r, k)
         \/ RemoveFile(r) \/ RemoveDirectory(r) \/ CreateDirectory(r) \/ CreateFile(r)
         \/ WriteHeader(r) \/ ReadCache(r) \/ Kill(r) \/ CopyFails(r)
<1>1. CASE RecordHit(r) \/ RecordLocal(r) \/ RecordInCache(r)
  BY <1>1, AppendCause
<1>2. CASE Start(r) \/ ReadStd(r) \/ ReadLocal(r) \/ RejectFile(r) \/ RemovalFails(r) \/ FindFile(r)
           \/ \E u \in Units : RemoveNetlist(r, u)
  BY <1>2 DEF Start, ReadStd, ReadLocal, RejectFile, RemovalFails, FindFile, RemoveNetlist, Exit, Leave,
       disk, Quiet
<1>3. CASE NoMetrics(r) \/ FindUnit(r) \/ CopyFromCache(r) \/ UseRecord(r) \/ NoTemplate(r)
           \/ Optimize(r) \/ CopyToCache(r) \/ Finish(r)
  BY <1>3 DEF NoMetrics, FindUnit, CopyFromCache, UseRecord, NoTemplate, NextUse,
       Optimize, CopyToCache, Finish, Exit, Leave, disk, Quiet
<1>4. CASE Writes(r)
  BY <1>4, WritesKeep DEF Quiet, Busy
<1> QED
  BY <1>1, <1>2, <1>3, <1>4 DEF Moves, Step, Prepare, Read, Translate, Writes

(* Every file that cannot be read keeps the mark of what has happened to it. *)
LEMMA ExcusedStep ==
  ASSUME TypeInv, StoreInv, CauseInv, Sequential, NEW r \in Runs, Moves(r), NEW l \in Files
  PROVE  Excused(l)'
<1> USE ConstantsAssumption, NoneAssumption
<1>i. Excused(l) /\ Opened(r) /\ OneActive /\ Made(r)
  BY DEF CauseInv, StoreInv
<1>f. file \in [Files -> File \union {None}]
  BY DEF TypeInv, DiskType
<1>a. ASSUME NEW s \in Runs, pc[s] = "header"
      PROVE  s = r
  BY <1>a, <1>i, Alone DEF Active, ActiveAt, Preparing
<1>q. ASSUME file'[l] = file[l], \A k \in Kinds : <<k, l>> \in marks => <<k, l>> \in marks',
             ~(pc[r] = "header" /\ at[r] = l)
      PROVE  Excused(l)'
  BY <1>q, <1>i, <1>a DEF Excused, Kinds
<1>1. CASE Quiet(r)
  BY <1>1, <1>q DEF Quiet
<1>2. ASSUME NEW k \in {Metrics(r), Cache}, Appends(r, k)
      PROVE  Excused(l)'
  <2>1. pc[r] # "header" /\ marks \subseteq marks'
    BY <1>2 DEF Appends, Busy
  <2>2. CASE l # k
    BY <1>f, <1>q, <1>2, <2>1, <2>2 DEF Appends
  <2>3. CASE l = k
    <3>1. file[l].first = "empty" => <<"create", l>> \in marks
      BY <1>i, <1>a, <1>2, <2>1, <2>3 DEF Excused, Appends
    <3> QED
      BY <1>i, <1>2, <2>1, <2>3, <3>1 DEF Excused, Appends
  <2> QED
    BY <2>2, <2>3
<1>3. CASE RemoveFile(r)
  <2>1. CASE l = at[r]
    BY <1>3, <1>f, <2>1 DEF RemoveFile, Excused
  <2>2. CASE l # at[r]
    BY <1>3, <1>f, <1>q, <2>2 DEF RemoveFile
  <2> QED
    BY <2>1, <2>2
<1>4. CASE RemoveDirectory(r)
  <2>1. CASE l = at[r]
    BY <1>4, <2>1 DEF RemoveDirectory, Excused
  <2>2. CASE l # at[r]
    <3>1. \A k \in Kinds : <<k, l>> \in marks => <<k, l>> \in marks'
      BY <1>4, <2>2 DEF RemoveDirectory
    <3> QED
      BY <1>4, <1>q, <3>1 DEF RemoveDirectory
  <2> QED
    BY <2>1, <2>2
<1>5. CASE CreateDirectory(r) \/ ReadCache(r)
  BY <1>5, <1>q DEF CreateDirectory, ReadCache, disk
<1>6. CASE CreateFile(r)
  <2>1. CASE l = at[r]
    <3>1. file'[l] = EmptyFile /\ pc'[r] = "header" /\ at'[r] = l
      BY <1>6, <1>f, <1>i, <2>1 DEF CreateFile, Opened, Goto, memory, TypeInv, ControlType
    <3>2. EmptyFile.first = "empty" /\ ~EmptyFile.bad
      BY DEF EmptyFile
    <3> QED
      BY <3>1, <3>2 DEF Excused
  <2>2. CASE l # at[r]
    BY <1>6, <1>f, <1>q, <2>2 DEF CreateFile
  <2> QED
    BY <2>1, <2>2
<1>7. CASE WriteHeader(r)
  <2>1. CASE l = at[r]
    <3>1. file[l] = EmptyFile /\ opt[r].tech \in Techs
      BY <1>7, <1>i, <2>1 DEF WriteHeader, Opened, TypeInv, Shape, Active, ActiveAt, Preparing,
           CommandLine
    <3>2. EmptyFile.first = "empty" /\ ~EmptyFile.bad /\ EmptyFile \in File
      BY DEF EmptyFile, File
    <3>3. file'[l] = [EmptyFile EXCEPT !.first = opt[r].tech]
      BY <1>7, <1>f, <2>1, <3>1, <3>2 DEF WriteHeader, WithHeader
    <3>4. file'[l].first = opt[r].tech /\ ~file'[l].bad
      BY <3>3 DEF EmptyFile
    <3> QED
      BY <3>1, <3>4 DEF Excused
  <2>2. CASE l # at[r]
    BY <1>7, <1>f, <1>q, <2>2 DEF WriteHeader
  <2> QED
    BY <2>1, <2>2
<1>8. CASE Kill(r) \/ CopyFails(r)
  <2>1. file'[l] = file[l] /\ marks \subseteq marks'
    BY <1>8 DEF Kill, CopyFails, Leave, Stopped, disk
  <2>2. CASE pc[r] = "header" /\ at[r] = l
    <3>1. <<"create", l>> \in marks'
      BY <1>8, <2>2 DEF Kill, CopyFails
    <3> QED
      BY <1>i, <2>1, <3>1 DEF Excused
  <2> QED
    BY <1>q, <2>1, <2>2
<1> QED
  BY <1>1, <1>2, <1>3, <1>4, <1>5, <1>6, <1>7, <1>8, DiskStep

(* A directory that was removed stays without files and without history.   *)
LEMMA GoneStep ==
  ASSUME TypeInv, StoreInv, CauseInv, Sequential, NEW r \in Runs, Moves(r), NEW l \in Loc
  PROVE  Gone(l)'
<1> USE ConstantsAssumption
<1>i. Gone(l) /\ Opened(r) /\ Made(r)
  BY DEF CauseInv, StoreInv
<1>f. file \in [Files -> File \union {None}] /\ l \in Files
  BY DEF TypeInv, DiskType, Files
<1>q. ASSUME l \in exists' \/ l \notin exists, file'[l] = file[l],
             l \notin exists => \A k \in Kinds : <<k, l>> \in marks' => <<k, l>> \in marks
      PROVE  Gone(l)'
  BY <1>q, <1>i DEF Gone, Unmarked
<1>1. CASE Quiet(r)
  BY <1>1, <1>q DEF Quiet
<1>2. ASSUME NEW k \in {Metrics(r), Cache}, Appends(r, k)
      PROVE  Gone(l)'
  BY <1>2, <1>i, <1>f DEF Appends, Gone, Unmarked
<1>3. CASE RemoveFile(r)
  BY <1>3, <1>i, <1>f DEF RemoveFile, Gone, Unmarked
<1>4. CASE RemoveDirectory(r)
  <2>1. CASE l = at[r]
    BY <1>4, <2>1 DEF RemoveDirectory, Gone, Unmarked
  <2>2. CASE l # at[r]
    BY <1>4, <1>q, <2>2 DEF RemoveDirectory
  <2> QED
    BY <2>1, <2>2
<1>5. CASE CreateDirectory(r)
  BY <1>5, <1>q DEF CreateDirectory
<1>6. CASE CreateFile(r) \/ WriteHeader(r)
  <2>1. at[r] \in exists /\ exists' = exists /\ marks' = marks
    BY <1>6, <1>i DEF CreateFile, WriteHeader, Made
  <2>2. l \notin exists => file'[l] = file[l]
    BY <1>6, <1>f, <2>1 DEF CreateFile, WriteHeader
  <2> QED
    BY <1>i, <2>1, <2>2 DEF Gone, Unmarked
<1>7. CASE ReadCache(r)
  <2>1. opt[r].dir \in exists /\ UNCHANGED <<exists, file>>
    BY <1>7, <1>i DEF ReadCache, Made, Reading, disk
  <2> QED
    BY <1>7, <1>q, <2>1 DEF ReadCache
<1>8. CASE Kill(r) \/ CopyFails(r)
  <2>1. /\ pc[r] \in {"wipe", "header"} => at[r] \in exists
        /\ pc[r] = "fetching" => opt[r].dir \in exists
    BY <1>i DEF Opened, Made, Working, Busy
  <2>2. \A k : l \notin exists /\ <<k, l>> \in marks' => <<k, l>> \in marks
    BY <1>8, <2>1 DEF Kill, CopyFails, Stopped, Stranded
  <2> QED
    BY <1>8, <1>q, <2>2 DEF Kill, CopyFails, Leave, disk
<1> QED
  BY <1>1, <1>2, <1>3, <1>4, <1>5, <1>6, <1>7, <1>8, DiskStep

(* Where a run goes when a location is prepared, and what it has then.     *)
LEMMA PreparedCause ==
  ASSUME TypeInv, StoreInv, CauseInv, Sequential, NEW r \in Runs,
         WriteHeader(r) \/ (FindFile(r) /\ file[at[r]] # None)
  PROVE  /\ at[r] \in {Cache, opt[r].dir} /\ opt[r] \in CommandLine /\ opt[r].dir # Cache
         /\ UNCHANGED <<exists, marks, opt>>
         /\ \A l \in Files \ {at[r]} : file'[l] = file[l]
         /\ file'[at[r]] # None
         /\ WriteHeader(r) => file'[at[r]].first = opt[r].tech
         /\ \/ /\ at[r] = Cache /\ at'[r] = opt[r].dir
               /\ pc'[r] = FirstLabel(opt[r], opt[r].dir)
            \/ at[r] # Cache /\ pc'[r] = "readStd"
<1> USE ConstantsAssumption, NoneAssumption
<1>f. file \in [Files -> File \union {None}]
  BY DEF TypeInv, DiskType
<1>1. /\ pc[r] \in Preparing /\ Prepared(r)
      /\ UNCHANGED <<exists, marks, opt>>
  BY DEF WriteHeader, FindFile, disk, Preparing
<1>2. /\ at[r] \in {Cache, opt[r].dir} /\ opt[r] \in CommandLine
  BY <1>1 DEF TypeInv, Shape, Active, ActiveAt
<1>3. at[r] \in Files /\ opt[r].dir # Cache
  BY <1>2 DEF CommandLine, Loc, Files
<1>4. /\ \A l \in Files \ {at[r]} : file'[l] = file[l]
      /\ file'[at[r]] # None
      /\ WriteHeader(r) => file'[at[r]].first = opt[r].tech
  <2>1. CASE WriteHeader(r)
    <3>1. file[at[r]] = EmptyFile
      BY <2>1 DEF WriteHeader, CauseInv, Opened
    <3>2. EmptyFile.first = "empty" /\ EmptyFile \in File
      BY DEF EmptyFile, File
    <3>3. file'[at[r]] = [EmptyFile EXCEPT !.first = opt[r].tech]
      BY <1>f, <1>3, <2>1, <3>1, <3>2 DEF WriteHeader, WithHeader
    <3>4. file'[at[r]].first = opt[r].tech /\ file'[at[r]] \in File
      BY <1>2, <3>3 DEF EmptyFile, File, CommandLine
    <3> QED
      BY <1>f, <2>1, <3>4 DEF WriteHeader
  <2>2. CASE FindFile(r) /\ file[at[r]] # None
    <3>1. file' = file /\ pc[r] = "check"
      BY <2>2 DEF FindFile, disk
    <3> QED
      BY <2>2, <3>1 DEF WriteHeader
  <2> QED
    BY <2>1, <2>2
<1>5. \/ /\ at[r] = Cache /\ at'[r] = opt[r].dir
         /\ pc'[r] = FirstLabel(opt[r], opt[r].dir)
      \/ at[r] # Cache /\ pc'[r] = "readStd"
  BY <1>1 DEF Prepared, Goto, TypeInv, ControlType, MemoryType
<1> QED
  BY <1>1, <1>2, <1>3, <1>4, <1>5

(* The files of the only run stay.                                         *)
LEMMA OpenedStep ==
  ASSUME TypeInv, StoreInv, CauseInv, Sequential, NEW r \in Runs, Moves(r)
  PROVE  Opened(r)'
<1> USE ConstantsAssumption
<1>i. Opened(r)
  BY DEF CauseInv
<1>p. pc \in [Runs -> {"idle"} \union ActiveAt \union Ended] /\ at \in [Runs -> Loc \union {None}]
  BY DEF TypeInv, ControlType, MemoryType
<1>f. file \in [Files -> File \union {None}] /\ Cache \in Files
  BY DEF TypeInv, DiskType, Loc, Files
<1>l. pc[r] \in Preparing => at[r] \in Files
  BY DEF TypeInv, Shape, Active, ActiveAt, CommandLine, Loc, Files
<1>1. CASE Start(r)
  <2>1. /\ at'[r] = Cache /\ exists' = exists
        /\ pc'[r] \in {"wipe", "mkdir"} /\ (pc'[r] = "wipe" => Cache \in exists)
    BY <1>1, <1>p DEF Start, FirstLabel, Goto, disk
  <2> QED
    BY <2>1 DEF Opened, Reading, Working, Busy
<1>2. CASE RemoveFile(r)
  BY <1>2, <1>i, <1>f DEF RemoveFile, memory, Opened, Preparing, Reading, Working, Busy
<1>3. CASE RemoveDirectory(r) \/ CreateDirectory(r) \/ (FindFile(r) /\ file[at[r]] = None)
           \/ \E u \in Units : RemoveNetlist(r, u)
  BY <1>3, <1>i, <1>p DEF RemoveDirectory, CreateDirectory, FindFile, RemoveNetlist, Goto, disk, memory,
       Opened, Preparing, Reading, Working, Busy
<1>4. CASE CreateFile(r)
  <2>1. /\ pc[r] = "create" /\ pc[r] \in Preparing /\ file[at[r]] = None
        /\ pc'[r] = "header" /\ at' = at
        /\ file' = [file EXCEPT ![at[r]] = IF @ = None THEN EmptyFile ELSE @]
    BY <1>4, <1>i, <1>p DEF CreateFile, Goto, memory, Opened, Preparing
  <2>2. file'[at[r]] = EmptyFile /\ (at[r] # Cache => file'[Cache] # None)
    BY <1>f, <1>i, <1>l, <2>1 DEF Opened
  <2> QED
    BY <2>1, <2>2 DEF Opened, Reading, Working, Busy
<1>5. CASE WriteHeader(r) \/ (FindFile(r) /\ file[at[r]] # None)
  <2>1. pc[r] \in Preparing
    BY <1>5 DEF WriteHeader, FindFile, Preparing
  <2>2. CASE at[r] = Cache
    BY <1>5, <2>2, PreparedCause DEF FirstLabel, Opened, Reading, Working, Busy
  <2>3. CASE at[r] # Cache
    <3>1. /\ pc'[r] = "readStd" /\ file'[opt'[r].dir] # None /\ file'[Cache] # None
      BY <1>5, <1>f, <1>i, <2>1, <2>3, PreparedCause DEF Opened
    <3> QED
      BY <3>1 DEF Opened, Preparing
  <2> QED
    BY <2>2, <2>3
<1>6. CASE Read(r)
  BY <1>6, <1>i, <1>p DEF Read, ReadStd, ReadLocal, ReadCache, RejectFile, Exit, Leave, Goto, disk,
       Opened,
       Preparing, Reading, Working, Busy
<1>7. CASE NoMetrics(r) \/ NoTemplate(r) \/ Finish(r) \/ Kill(r) \/ RemovalFails(r) \/ CopyFails(r)
  BY <1>7, <1>p DEF NoMetrics, NoTemplate, Finish, Kill, RemovalFails, CopyFails, Exit, Leave, Goto,
       Opened, Preparing, Reading, Working, Busy
<1>8. CASE FindUnit(r) \/ UseRecord(r) \/ Optimize(r)
  BY <1>8, <1>i, <1>p DEF FindUnit, UseRecord, Optimize, NextUse, Goto, disk, Opened,
       Preparing, Reading, Working, Busy
<1>9. CASE CopyFromCache(r) \/ CopyToCache(r)
  <2>1. CASE Exit(r, "missing")
    BY <2>1, <1>p DEF Exit, Leave, Goto, Opened, Preparing, Reading, Working, Busy
  <2>2. CASE ~Exit(r, "missing")
    <3>1. pc[r] \in Working /\ UNCHANGED <<file, opt>> /\ pc'[r] \in {"fetching", "storing"}
      BY <1>9, <2>2, <1>p DEF CopyFromCache, CopyToCache, NextUse, Goto, memory, Working, Busy
    <3> QED
      BY <1>i, <3>1 DEF Opened, Preparing, Reading, Working, Busy
  <2> QED
    BY <2>1, <2>2
<1>10. CASE RecordHit(r) \/ RecordLocal(r) \/ RecordInCache(r)
  <2>1. PICK k \in {Metrics(r), Cache} : Appends(r, k)
    BY <1>10, AppendCause
  <2>2. pc[r] \in Working /\ opt[r].dir \in Files
    BY <2>1, WorkingType DEF Appends, Working, Files
  <2>3. file'[Cache] # None /\ file'[opt'[r].dir] # None /\ pc'[r] \in Working
    BY <1>f, <1>i, <2>1, <2>2 DEF Appends, Opened
  <2> QED
    BY <2>3 DEF Opened, Preparing, Working, Busy
<1>11. CASE Writes(r)
  BY <1>11, <1>i, WritesKeep DEF memory, Opened, Preparing, Reading, Working, Busy
<1> QED
  BY <1>1, <1>2, <1>3, <1>4, <1>5, <1>6, <1>7, <1>8, <1>9, <1>10, <1>11
     DEF Moves, Step, Prepare, Translate, Writes

(* Whether the only run has metrics is decided when it reads its files.    *)
LEMMA SuppliedStep ==
  ASSUME TypeInv, StoreInv, CauseInv, Sequential, NEW r \in Runs, Moves(r)
  PROVE  Supplied(r)'
<1> USE ConstantsAssumption
<1>i. Supplied(r) /\ Opened(r)
  BY DEF CauseInv
<1>p. /\ pc \in [Runs -> {"idle"} \union ActiveAt \union Ended]
      /\ opt \in [Runs -> CommandLine \union {None}] /\ have \in [Runs -> BOOLEAN]
  BY DEF TypeInv, ControlType, MemoryType
<1>f. file \in [Files -> File \union {None}]
  BY DEF TypeInv, DiskType
<1>1. CASE pc'[r] \notin {"readLocal", "readCache"} \union Working
  BY <1>1 DEF Supplied, Working
<1>2. CASE pc'[r] = "readLocal"
  <2>1. ReadStd(r)
    <3>1. CASE Prepare(r) \/ Start(r)
      BY <3>1, <1>2, <1>p DEF Start, FirstLabel, Goto, Prepare, RemoveFile, RemoveNetlist,
           RemoveDirectory, RemovalFails, CreateDirectory, FindFile, CreateFile, WriteHeader,
           Prepared, Exit, Leave, memory
    <3>2. CASE Read(r)
      BY <3>2, <1>2, <1>p DEF Read, ReadLocal, ReadCache, RejectFile, Exit, Leave, Goto
    <3>3. CASE Translate(r) \/ Kill(r)
      BY <3>3, <1>2, <1>p DEF Translate, NoMetrics, FindUnit, CopyFromCache, FinishFetch, CopyFails,
           RecordHit, UseRecord,
           NoTemplate, Optimize, FinishOptimize, CopyToCache, FinishStore, RecordLocal,
           RecordInCache, Finish, Kill, Exit, Leave, Goto
    <3> QED
      BY <3>1, <3>2, <3>3 DEF Moves, Step
  <2>2. opt' = opt /\ have'[r] = (opt[r].tech \in Calibrated)
    BY <2>1, <1>p DEF ReadStd
  <2> QED
    BY <1>2, <2>2 DEF Supplied, Working, Busy
<1>3. CASE pc'[r] = "readCache" /\ ReadLocal(r)
  <2>1. /\ pc[r] = "readLocal" /\ opt' = opt /\ file' = file
        /\ have'[r] = (have[r] /\ file[Metrics(r)] # None)
    BY <1>3, <1>p DEF ReadLocal, disk
  <2> QED
    BY <1>3, <1>i, <2>1 DEF Supplied, Metrics, Working, Busy
<1>4. CASE pc'[r] = "translate" /\ ReadCache(r)
  <2>1. /\ pc[r] = "readCache" /\ opt' = opt /\ file' = file
        /\ have'[r] = (have[r] /\ file[Cache] # None)
    BY <1>4, <1>p DEF ReadCache, disk
  <2>2. file[Cache] # None
    BY <1>i, <2>1 DEF Opened, Reading
  <2> QED
    BY <1>4, <1>i, <2>1, <2>2 DEF Supplied, Metrics, Working, Busy
<1>5. CASE pc'[r] \in Working /\ ~ReadCache(r)
  <2>k. ASSUME pc[r] \in Working, UNCHANGED <<opt, have>>,
               file'[Metrics(r)] = None <=> file[Metrics(r)] = None,
               pc'[r] \in Busy => have[r]
        PROVE  Supplied(r)'
    <3>1. pc'[r] # "readLocal"
      BY <1>5 DEF Working, Busy
    <3>2. have[r] <=> opt[r].tech \in Calibrated /\ file[Metrics(r)] # None
      BY <1>i, <2>k DEF Supplied
    <3> QED
      BY <2>k, <3>1, <3>2 DEF Supplied, Metrics
  <2>1. CASE RecordHit(r) \/ RecordLocal(r) \/ RecordInCache(r)
    <3>1. PICK k \in {Metrics(r), Cache} : Appends(r, k)
      BY <2>1, AppendCause
    <3>2. pc[r] \in Working /\ Metrics(r) \in Files /\ have[r]
      BY <1>i, <3>1, WorkingType DEF Appends, Working, Supplied
    <3>3. file'[Metrics(r)] = None <=> file[Metrics(r)] = None
      BY <1>f, <3>1, <3>2 DEF Appends
    <3> QED
      BY <2>k, <3>1, <3>2, <3>3 DEF Appends
  <2>2. CASE UseRecord(r) \/ FindUnit(r) \/ Optimize(r)
    <3>1. pc[r] \in Working /\ UNCHANGED <<opt, have, file>> /\ have[r]
      BY <1>i, <2>2 DEF UseRecord, FindUnit, Optimize, NextUse, disk, Working, Busy, Supplied
    <3> QED
      BY <2>k, <3>1
  <2>3. CASE (CopyFromCache(r) /\ pc'[r] = "fetching") \/ (CopyToCache(r) /\ pc'[r] = "storing")
    <3>1. ~Exit(r, "missing")
      BY <2>3, <1>p DEF Exit, Leave, Goto
    <3>2. pc[r] \in Working /\ UNCHANGED <<opt, have, file>> /\ have[r]
      BY <1>i, <2>3, <3>1 DEF CopyFromCache, CopyToCache, memory, NextUse, Working, Busy, Supplied
    <3> QED
      BY <2>k, <3>2
  <2>4. CASE Writes(r)
    <3>1. pc[r] \in Working /\ UNCHANGED <<opt, have, file>> /\ have[r]
      BY <1>i, <2>4, WritesKeep DEF memory, Working, Supplied
    <3> QED
      BY <2>k, <3>1
  <2> QED
    BY <1>5, <2>1, <2>2, <2>3, <2>4, Flow DEF Working, Busy, Writes
<1>6. pc'[r] = "readCache" => ReadLocal(r)
  BY Flow DEF Working, Busy
<1>7. pc'[r] \in Working /\ ReadCache(r) => pc'[r] = "translate"
  BY <1>p DEF ReadCache, Goto
<1> QED
  BY <1>1, <1>2, <1>3, <1>4, <1>5, <1>6, <1>7

(* What the only run has removed under -i stays without history until it   *)
(* has read it.                                                            *)
LEMMA RenewedStep ==
  ASSUME TypeInv, StoreInv, CauseInv, Sequential, NEW r \in Runs, Moves(r)
  PROVE  Renewed(r)'
<1> USE ConstantsAssumption
<1>i. Renewed(r) /\ Opened(r) /\ \A l \in Loc : Gone(l)
  BY DEF CauseInv
<1>p. /\ pc \in [Runs -> {"idle"} \union ActiveAt \union Ended]
      /\ opt \in [Runs -> CommandLine \union {None}] /\ at \in [Runs -> Loc \union {None}]
  BY DEF TypeInv, ControlType, MemoryType
<1>f. file \in [Files -> File \union {None}] /\ Cache \in Files /\ Cache \in Loc
  BY DEF TypeInv, DiskType, Loc, Files
<1>l. pc[r] \in Preparing => Active(r) /\ at[r] \in Files
  BY DEF TypeInv, Shape, Active, ActiveAt, CommandLine, Loc, Files
<1>1. CASE Start(r)
  <2>1. /\ at'[r] = Cache /\ UNCHANGED <<exists, file, marks>>
        /\ pc'[r] = FirstLabel(opt'[r], Cache)
    BY <1>1, <1>p DEF Start, Goto, disk, CommandLine
  <2>2. opt'[r].inval => pc'[r] = "wipe" \/ (pc'[r] = "mkdir" /\ Unmarked(Cache) /\ file[Cache] = None)
    BY <1>i, <1>f, <2>1 DEF FirstLabel, Gone
  <2> QED
    BY <2>1, <2>2 DEF Renewed, Reading, Working, Busy, Unmarked
<1>2. CASE RemoveFile(r) \/ \E u \in Units : RemoveNetlist(r, u)
  <2>1. /\ pc[r] = "wipe" /\ pc[r] \in Preparing /\ UNCHANGED <<pc, opt, at, marks>>
        /\ at[r] # Cache => file'[Cache] = file[Cache]
    BY <1>2, <1>f DEF RemoveFile, RemoveNetlist, memory, Preparing
  <2> QED
    BY <1>i, <1>l, <2>1 DEF Renewed, Active, Reading, Working, Busy, Unmarked, Headed
<1>3. CASE RemoveDirectory(r)
  <2>1. /\ pc[r] = "wipe" /\ pc[r] \in Preparing /\ pc'[r] = "mkdir" /\ UNCHANGED <<opt, at, file>>
        /\ marks' = marks \ (Kinds \X {at[r]}) /\ file[at[r]] = None
    BY <1>3, <1>p DEF RemoveDirectory, Goto, memory, Preparing
  <2> QED
    BY <1>i, <1>l, <2>1 DEF Renewed, Active, Reading, Working, Busy, Unmarked, Headed
<1>4. CASE CreateDirectory(r) \/ (FindFile(r) /\ file[at[r]] = None)
  <2>1. /\ pc[r] \in {"mkdir", "check"} /\ pc[r] \in Preparing
        /\ pc'[r] \in {"check", "create"} /\ UNCHANGED <<opt, at, file, marks>>
    BY <1>4, <1>p DEF CreateDirectory, FindFile, Goto, disk, memory, Preparing
  <2>2. pc'[r] = "check" => pc[r] = "mkdir"
    BY <1>4, <1>p DEF CreateDirectory, FindFile, Goto
  <2> QED
    BY <1>i, <1>l, <2>1, <2>2 DEF Renewed, Reading, Working, Busy, Unmarked, Headed
<1>5. CASE CreateFile(r)
  <2>1. /\ pc[r] = "create" /\ pc[r] \in Preparing
        /\ pc'[r] = "header" /\ UNCHANGED <<opt, at, marks>>
        /\ at[r] # Cache => file'[Cache] = file[Cache]
    BY <1>5, <1>f, <1>p DEF CreateFile, Goto, memory, Preparing
  <2> QED
    BY <1>i, <1>l, <2>1 DEF Renewed, Reading, Working, Busy, Unmarked, Headed
<1>6. CASE FindFile(r) /\ file[at[r]] # None
  <2>1. pc[r] = "check" /\ pc[r] \in Preparing /\ opt' = opt
    BY <1>6 DEF FindFile, Preparing
  <2> QED
    BY <1>6, <1>i, <1>l, <2>1 DEF Renewed
<1>7. CASE WriteHeader(r)
  <2> SUFFICES ASSUME opt[r].inval, opt' = opt PROVE Renewed(r)'
    BY <1>7 DEF WriteHeader, Renewed
  <2>1. pc[r] = "header" /\ pc[r] \in Preparing /\ Unmarked(at[r]) /\ marks' = marks
    BY <1>7, <1>i, <1>l DEF WriteHeader, Preparing, Renewed
  <2>2. file'[at[r]] # None /\ file'[at[r]].first = opt[r].tech
    BY <1>7, PreparedCause
  <2>3. CASE at[r] = Cache
    <3>1. /\ at'[r] = opt[r].dir /\ pc'[r] = FirstLabel(opt[r], opt[r].dir)
          /\ opt[r].dir \in Loc /\ opt[r].dir \in Files \ {Cache}
          /\ file'[opt[r].dir] = file[opt[r].dir]
      BY <1>7, <2>3, PreparedCause DEF CommandLine, Loc, Files
    <3>2. pc'[r] = "wipe" \/ (pc'[r] = "mkdir" /\ Unmarked(opt[r].dir) /\ file[opt[r].dir] = None)
      BY <1>i, <3>1 DEF FirstLabel, Gone
    <3> QED
      BY <2>1, <2>2, <2>3, <3>1, <3>2 DEF Renewed, Reading, Working, Busy, Unmarked, Headed
  <2>4. CASE at[r] # Cache
    <3>1. at[r] = opt[r].dir /\ pc'[r] = "readStd" /\ file'[Cache] = file[Cache]
      BY <1>7, <1>f, <2>4, PreparedCause
    <3>2. Unmarked(Cache) /\ Headed(Cache, opt[r].tech)
      BY <1>i, <1>l, <2>1, <2>4 DEF Renewed
    <3> QED
      BY <2>1, <2>2, <3>1, <3>2 DEF Renewed, Preparing, Working, Busy, Unmarked, Headed
  <2> QED
    BY <2>3, <2>4
<1>8. CASE ReadStd(r) \/ ReadLocal(r)
  <2>1. /\ pc[r] \in Reading /\ pc'[r] \in Reading /\ UNCHANGED <<opt, file, marks>>
    BY <1>8, <1>p DEF ReadStd, ReadLocal, Goto, disk, Reading
  <2> QED
    BY <1>i, <2>1 DEF Renewed, Active, ActiveAt, Preparing, Reading, Working, Busy, Unmarked, Headed
<1>9. CASE ReadCache(r)
  <2>1. /\ pc[r] \in Reading /\ pc'[r] = "translate" /\ opt' = opt
        /\ <<"wipe", Cache>> \in marks' => <<"wipe", Cache>> \in marks
    BY <1>9, <1>p DEF ReadCache, Goto, Reading
  <2> QED
    BY <1>i, <2>1 DEF Renewed, Active, ActiveAt, Preparing, Reading, Working, Busy, Unmarked, Kinds
<1>10. CASE pc'[r] \notin ActiveAt
  BY <1>10 DEF Renewed, Active
<1>11. CASE pc'[r] \in Working /\ ~ReadCache(r)
  <2>k. ASSUME pc[r] \in Working, opt' = opt,
               <<"wipe", Cache>> \in marks' => <<"wipe", Cache>> \in marks
        PROVE  Renewed(r)'
    BY <1>11, <1>i, <2>k DEF Renewed, Active, ActiveAt, Preparing, Reading, Working, Busy
  <2>1. CASE RecordHit(r) \/ RecordLocal(r) \/ RecordInCache(r)
    BY <2>1, <2>k, AppendCause DEF Appends, Working
  <2>2. CASE UseRecord(r) \/ FindUnit(r) \/ Optimize(r)
    BY <2>2, <2>k DEF UseRecord, FindUnit, Optimize, NextUse, Working, Busy
  <2>3. CASE (CopyFromCache(r) /\ pc'[r] = "fetching") \/ (CopyToCache(r) /\ pc'[r] = "storing")
    <3>1. ~Exit(r, "missing")
      BY <2>3, <1>p DEF Exit, Leave, Goto
    <3> QED
      BY <2>3, <3>1, <2>k DEF CopyFromCache, CopyToCache, memory, NextUse, Working, Busy
  <2>4. CASE Writes(r)
    BY <2>4, <2>k, WritesKeep DEF memory, Working
  <2> QED
    BY <1>11, <2>1, <2>2, <2>3, <2>4, Flow DEF Working, Busy, Writes
<1>12. CASE RejectFile(r) \/ RemovalFails(r) \/ Kill(r)
  BY <1>12, <1>10, <1>p DEF RejectFile, RemovalFails, Kill, Exit, Leave, Goto, ActiveAt, Preparing,
       Reading,
       Working, Busy
<1>13. CASE Translate(r)
  <2>1. pc'[r] \in Working \/ pc'[r] \notin ActiveAt
    <3>1. CASE Writes(r)
      BY <3>1, WritesKeep DEF Working
    <3>2. CASE CopyFails(r) \/ NoMetrics(r) \/ NoTemplate(r) \/ Finish(r)
      BY <3>2, <1>p DEF NoMetrics, NoTemplate, CopyFails, Finish, Exit, Leave, Goto, ActiveAt,
           Preparing, Reading, Working, Busy
    <3>3. CASE ~Writes(r) /\ ~(CopyFails(r) \/ NoMetrics(r) \/ NoTemplate(r) \/ Finish(r))
      BY <1>13, <3>3, <1>p DEF Translate, Writes, FindUnit, CopyFromCache, RecordHit, UseRecord,
           Optimize, CopyToCache, RecordLocal, RecordInCache, Exit, Leave, Goto, ActiveAt, Preparing,
           Reading, Working, Busy
    <3> QED
      BY <3>1, <3>2, <3>3
  <2>2. ~ReadCache(r)
    BY <1>13 DEF Translate, NoMetrics, FindUnit, CopyFromCache, FinishFetch, CopyFails, RecordHit,
         UseRecord, NextUse,
         NoTemplate, Optimize, FinishOptimize, CopyToCache, FinishStore, RecordLocal, RecordInCache,
         Finish, ReadCache
  <2> QED
    BY <1>10, <1>11, <2>1, <2>2
<1> QED
  BY <1>1, <1>2, <1>3, <1>4, <1>5, <1>6, <1>7, <1>8, <1>9, <1>12, <1>13
     DEF Moves, Step, Prepare, Read

LEMMA CauseStep == TypeInv /\ StoreInv /\ CauseInv /\ [Next]_vars => CauseInv'
<1> SUFFICES ASSUME TypeInv, StoreInv, CauseInv, [Next]_vars, Sequential
             PROVE  /\ \A l \in Files : Excused(l)' /\ ~Differ(Contents(file'[l]))
                    /\ \A l \in Loc : Gone(l)'
                    /\ \A r \in Runs : Opened(r)' /\ Supplied(r)' /\ Renewed(r)'
  BY DEF CauseInv, Sequential, Differ, Contents
<1>1. CASE UNCHANGED vars
  BY <1>1 DEF vars, disk, memory, CauseInv, Excused, Gone, Unmarked, Opened, Supplied, Metrics,
       Renewed, Headed, Active
<1>2. ASSUME NEW r \in Runs, Moves(r)
      PROVE  /\ \A l \in Files : Excused(l)' /\ ~Differ(Contents(file'[l]))
             /\ \A l \in Loc : Gone(l)'
             /\ \A s \in Runs : Opened(s)' /\ Supplied(s)' /\ Renewed(s)'
  <2>1. \A s \in Runs \ {r} : ~Active(s) /\ pc'[s] = pc[s]
    BY <1>2, Alone DEF StoreInv
  <2>2. ASSUME NEW s \in Runs \ {r} PROVE Opened(s)' /\ Supplied(s)' /\ Renewed(s)'
    BY <2>1 DEF Active, ActiveAt, Opened, Supplied, Renewed, Preparing, Reading, Working, Busy
  <2>3. ASSUME NEW l \in Files PROVE Excused(l)' /\ ~Differ(Contents(file'[l]))
    BY <1>2, ExcusedStep, NoneDiffers DEF CauseInv
  <2>4. ASSUME NEW l \in Loc PROVE Gone(l)'
    BY <1>2, GoneStep
  <2>5. Opened(r)' /\ Supplied(r)' /\ Renewed(r)'
    BY <1>2, OpenedStep, SuppliedStep, RenewedStep
  <2> QED
    BY <2>2, <2>3, <2>4, <2>5
<1> QED
  BY <1>1, <1>2 DEF Next, Moves

(* The history of the files explains what is wrong with them.              *)
THEOREM CauseInvTheorem == Spec => []CauseInv
<1> QED
  BY InitCause, CauseStep, TypeInvTheorem, StoreInvTheorem, PTL DEF Spec

(* Where a run can fail, and of what.                                      *)
LEMMA Failures ==
  ASSUME TypeInv, StoreInv, Sequential, NEW r \in Runs, Moves(r),
         pc[r] # "failed", pc'[r] = "failed"
  PROVE  \/ /\ pc[r] \in {"readLocal", "readCache"}
            /\ \E l \in {Cache, Metrics(r)} : why'[r] \in Objections(file[l], opt[r].tech)
         \/ pc[r] = "translate" /\ ~have[r] /\ why'[r] = "nometrics"
         \/ /\ pc[r] = "translate" /\ why'[r] = "missing"
            /\ \E rec \in cached[r] : nets[Cache][rec.unit] = None \/ opt[r].dir \notin exists
         \/ /\ pc[r] = "optimized" /\ why'[r] = "missing"
            /\ nets[opt[r].dir][cur[r].unit] = None \/ Cache \notin exists
         \/ "uncalibrated" \in Faults /\ why'[r] = "nofunc"
         \/ "full" \in Faults /\ why'[r] = "nospace"
<1> USE ConstantsAssumption
<1>p. /\ pc \in [Runs -> {"idle"} \union ActiveAt \union Ended]
      /\ why \in [Runs -> {"none", "incompatible", "malformed", "different",
                           "missing", "nometrics", "nofunc", "notempty", "nospace"}]
  BY DEF TypeInv, ControlType
<1>w. ASSUME NEW w, Exit(r, w)
      PROVE  why'[r] = w
  BY <1>p, <1>w DEF Exit, Leave
<1>1. CASE RemovalFails(r)
  BY <1>1, Alone DEF RemovalFails, StoreInv
<1>2. CASE RejectFile(r)
  BY <1>2, <1>w DEF RejectFile
<1>3. CASE NoMetrics(r)
  BY <1>3, <1>w DEF NoMetrics
<1>4. CASE CopyFromCache(r)
  <2>1. PICK rec \in cached[r] :
          IF nets[Cache][rec.unit] = None \/ opt[r].dir \notin exists
          THEN Exit(r, "missing") ELSE Goto(r, "fetching")
    BY <1>4 DEF CopyFromCache
  <2>2. ~Goto(r, "fetching")
    BY <1>p DEF Goto
  <2> QED
    BY <1>4, <1>w, <2>1, <2>2 DEF CopyFromCache
<1>5. CASE CopyToCache(r)
  <2>1. ~Goto(r, "storing")
    BY <1>p DEF Goto
  <2>2. Exit(r, "missing") /\ (nets[opt[r].dir][cur[r].unit] = None \/ Cache \notin exists)
    BY <1>5, <2>1 DEF CopyToCache
  <2> QED
    BY <1>5, <1>w, <2>2 DEF CopyToCache
<1>6. CASE NoTemplate(r)
  BY <1>6, <1>w DEF NoTemplate
<1>7. CASE Start(r) \/ Kill(r)
  BY <1>7, <1>p DEF Start, Kill, FirstLabel, Goto
<1>8. CASE RemoveFile(r) \/ RemoveDirectory(r) \/ CreateDirectory(r) \/ FindFile(r) \/ CreateFile(r)
           \/ WriteHeader(r) \/ \E u \in Units : RemoveNetlist(r, u)
  BY <1>8, <1>p DEF RemoveFile, RemoveDirectory, CreateDirectory, FindFile, CreateFile, WriteHeader,
       RemoveNetlist, Prepared, FirstLabel, Goto
<1>9. CASE ReadStd(r) \/ ReadLocal(r) \/ ReadCache(r)
  BY <1>9, <1>p DEF ReadStd, ReadLocal, ReadCache, Goto
<1>10. CASE FindUnit(r) \/ RecordHit(r) \/ UseRecord(r) \/ Optimize(r) \/ RecordLocal(r)
            \/ RecordInCache(r) \/ Finish(r)
  BY <1>10, <1>p DEF FindUnit, RecordHit, UseRecord, Optimize, RecordLocal, RecordInCache, Finish, Goto
<1>11. CASE CopyFails(r)
  BY <1>11, <1>p DEF CopyFails, Leave
<1>12. CASE Writes(r)
  BY <1>12, WritesKeep DEF Busy
<1> QED
  BY <1>1, <1>2, <1>3, <1>4, <1>5, <1>6, <1>7, <1>8, <1>9, <1>10, <1>11, <1>12
     DEF Moves, Step, Prepare, Read, Translate, Writes

(* What is wrong with a file that is not accepted.                         *)
LEMMA Objection ==
  ASSUME TypeInv, CauseInv, Sequential, NEW r \in Runs, pc[r] \in {"readLocal", "readCache"},
         NEW l \in {Cache, Metrics(r)}, NEW w, w \in Objections(file[l], opt[r].tech)
  PROVE  /\ l \in Files /\ file[l] # None /\ w \in {"incompatible", "malformed"}
         /\ w = "malformed" => <<"cut", l>> \in marks
         /\ w = "incompatible" =>
              /\ <<opt[r].tech, file[l].first>> \notin Begins
              /\ \/ <<"create", l>> \in marks \/ <<"cut", l>> \in marks
                 \/ file[l].first \in Techs
<1>1. l \in Files
  BY WorkingType DEF Reading
<1>2. Excused(l) /\ ~Differ(Contents(file[l]))
  BY <1>1 DEF CauseInv
<1>3. /\ file[l] # None /\ w \in {"incompatible", "malformed", "different"}
      /\ (w = "incompatible") <=> ~Accepts(opt[r].tech, file[l].first)
      /\ w = "malformed" => file[l].bad
      /\ w = "different" => Differ(file[l].recs)
  BY DEF Objections
<1>4. file[l] \in File
  BY <1>1, <1>3 DEF TypeInv, DiskType
<1> QED
  BY <1>1, <1>2, <1>3, <1>4 DEF Accepts, Excused, Contents, File

(* The cause of each failure of the only run.                              *)
LEMMA FailureCause ==
  ASSUME TypeInv, StoreInv, CauseInv, Sequential, NEW r \in Runs, Moves(r),
         pc[r] # "failed", pc'[r] = "failed"
  PROVE  CauseOf(r, why'[r])
<1>i. Mirrored(r) /\ InWork(r) /\ Made(r) /\ Opened(r) /\ Supplied(r)
  BY DEF StoreInv, CauseInv
<1>1. CASE /\ pc[r] \in {"readLocal", "readCache"}
           /\ \E l \in {Cache, Metrics(r)} : why'[r] \in Objections(file[l], opt[r].tech)
  BY <1>1, Objection DEF CauseOf
<1>2. CASE pc[r] = "translate" /\ ~have[r] /\ why'[r] = "nometrics"
  <2>1. opt[r].tech \notin Calibrated \/ file[Metrics(r)] = None
    BY <1>i, <1>2 DEF Supplied, Working
  <2>2. ~opt[r].user => file[Metrics(r)] # None
    BY <1>i, <1>2 DEF Opened, Metrics, Working
  <2> QED
    BY <1>2, <2>1, <2>2 DEF CauseOf, Metrics
<1>3. CASE /\ pc[r] = "translate" /\ why'[r] = "missing"
           /\ \E rec \in cached[r] : nets[Cache][rec.unit] = None \/ opt[r].dir \notin exists
  <2>1. pc[r] \in Working
    BY <1>3 DEF Working
  <2>2. PICK rec \in cached[r] : nets[Cache][rec.unit] = None
    BY <1>i, <1>3, <2>1 DEF Made
  <2>3. file[Cache] # None /\ rec \in file[Cache].recs
    BY <1>i, <2>1 DEF Opened, Mirrored, Contents
  <2>4. rec.res # None /\ Cache \in Loc
    BY <2>1, WorkingType
  <2>5. ~Intact(Cache)
    <3>1. ~HasNetlist(Cache, rec)
      BY <2>2, <2>4, NoneAssumption DEF HasNetlist
    <3> QED
      BY <2>3, <2>4, <3>1 DEF StoreInv, RecordHasItsNetlist
  <2>6. ~Wiping(Cache)
    <3> SUFFICES ASSUME NEW s \in Runs, pc[s] = "wipe" PROVE FALSE
      BY DEF Wiping
    <3> QED
      BY <1>3, <2>1 DEF StoreInv, OneActive, Active, ActiveAt, Preparing
  <2> QED
    BY <1>3, <2>5, <2>6 DEF StoreInv, Intact, CauseOf
<1>4. CASE /\ pc[r] = "optimized" /\ why'[r] = "missing"
           /\ nets[opt[r].dir][cur[r].unit] = None \/ Cache \notin exists
  <2>1. pc[r] \in Working /\ pc[r] \in Busy
    BY <1>4 DEF Working, Busy
  <2> QED
    BY <1>i, <1>4, <2>1, WorkingType DEF Made, InWork, Matches
<1>5. CASE \/ "uncalibrated" \in Faults /\ why'[r] = "nofunc"
           \/ "full" \in Faults /\ why'[r] = "nospace"
  BY <1>5 DEF CauseOf
<1> QED
  BY <1>1, <1>2, <1>3, <1>4, <1>5, Failures

(* When runs do not overlap, each way to stop with an error has a cause    *)
(* outside the run: ErrorsHaveCauses of MetricsStore.                      *)
THEOREM ErrorsHaveCausesTheorem == Spec => ErrorsHaveCauses
<1> DEFINE Caused == Sequential =>
             \A r \in Runs : pc[r] # "failed" /\ pc'[r] = "failed" => CauseOf(r, why'[r])
<1>1. TypeInv /\ StoreInv /\ CauseInv /\ [Next]_vars => [Caused]_vars
  <2> SUFFICES ASSUME TypeInv, StoreInv, CauseInv, Next, Sequential,
                      NEW r \in Runs, pc[r] # "failed", pc'[r] = "failed"
               PROVE  CauseOf(r, why'[r])
    OBVIOUS
  <2>1. PICK s \in Runs : Moves(s)
    BY DEF Next, Moves
  <2>2. s = r
    BY <2>1, OthersStay
  <2> QED
    BY <2>1, <2>2, FailureCause
<1> QED
  BY <1>1, TypeInvTheorem, StoreInvTheorem, CauseInvTheorem, PTL DEF Spec, ErrorsHaveCauses

(* When runs do not overlap, a run with -i does not stop at what earlier   *)
(* runs have left: InvalidateRepairs of MetricsStore.                      *)
THEOREM InvalidateRepairsTheorem == Spec => InvalidateRepairs
<1> DEFINE Repairs == Sequential =>
             \A r \in Runs : pc[r] # "failed" /\ pc'[r] = "failed" =>
               \/ ~opt[r].inval \/ opt[r].user
               \/ opt[r].tech \notin Calibrated
               \/ why'[r] \in {"nofunc", "nospace"}
<1>1. TypeInv /\ StoreInv /\ CauseInv /\ [Next]_vars => [Repairs]_vars
  <2> SUFFICES ASSUME TypeInv, StoreInv, CauseInv, Next, Sequential,
                      NEW r \in Runs, pc[r] # "failed", pc'[r] = "failed",
                      opt[r].inval, ~opt[r].user, opt[r].tech \in Calibrated,
                      why'[r] \notin {"nofunc", "nospace"}
               PROVE  FALSE
    OBVIOUS
  <2>1. PICK s \in Runs : Moves(s)
    BY DEF Next, Moves
  <2>2. s = r
    BY <2>1, OthersStay
  <2>3. CauseOf(r, why'[r])
    BY <2>1, <2>2, FailureCause
  <2>i. Renewed(r)
    BY DEF CauseInv
  <2>4. CASE /\ pc[r] \in {"readLocal", "readCache"}
             /\ \E l \in {Cache, Metrics(r)} : why'[r] \in Objections(file[l], opt[r].tech)
    <3>1. pc[r] \in Reading
      BY <2>4 DEF Reading
    <3>2. Active(r) /\ opt[r].tech \in Techs /\ Metrics(r) = opt[r].dir
      BY <3>1, WorkingType DEF CommandLine
    <3>3. PICK l \in {Cache, Metrics(r)} : why'[r] \in Objections(file[l], opt[r].tech)
      BY <2>4
    <3>4. Unmarked(l) /\ file[l].first = opt[r].tech
      BY <2>i, <3>1, <3>2, <3>3 DEF Renewed, Headed
    <3>5. <<opt[r].tech, opt[r].tech>> \in Begins
      BY <3>2, ConstantsAssumption
    <3> QED
      BY <2>4, <3>3, <3>4, <3>5, Objection DEF Unmarked, Kinds
  <2>5. CASE pc[r] \in {"translate", "optimized"} /\ why'[r] \in {"nometrics", "missing"}
    <3>1. pc[r] \in Working
      BY <2>5 DEF Working, Busy
    <3>2. <<"wipe", Cache>> \notin marks
      BY <2>i, <3>1, WorkingType DEF Renewed
    <3> QED
      BY <2>3, <2>5, <3>2 DEF CauseOf
  <2> QED
    BY <2>1, <2>2, <2>4, <2>5, Failures
<1> QED
  BY <1>1, TypeInvTheorem, StoreInvTheorem, CauseInvTheorem, PTL DEF Spec, InvalidateRepairs

=============================================================================
