------------------------------ MODULE Programs ------------------------------
(***************************************************************************)
(* The programs airtree (airtree-cli), airtree-merge and airtree-export,   *)
(* run one after another on the same disk: they read their inputs whole,   *)
(* compute, and write one output in place.  Files may be missing, a write  *)
(* may fail, a program may be killed between any two steps, and its output *)
(* may be one of its inputs.                                               *)
(*                                                                         *)
(* What a file holds is abstract: its kind, its schema, and which data how *)
(* often.  How answers are computed is the matter of the other modules.    *)
(***************************************************************************)
EXTENDS Integers, Sequences

CONSTANTS
  Names,        \* paths
  Data,         \* what histograms are made of
  Jobs,         \* the invocations: [tool, ins, out, option], option the schema or format
  Disks,        \* the disks a session may start from
  Absent,       \* no file
  MaxPrograms   \* bound: invocations in a session

OneD     == {"1DxT", "1DxF", "1DxP"}
Precise  == {"2DxP", "3DxP", "4DxP"}
Columns(schema) == CASE schema \in OneD -> "1" [] schema \in {"2DxF", "2DxP"} -> "2"
                     [] schema \in {"3DxF", "3DxP"} -> "3" [] OTHER -> "4"

Merges  == {"airtree-merge", "merge"}
Exports == {"airtree-export", "export"}
Queries == {"bins", "grid"}               \* topk, min_count, ..., percentile; grid
Tools   == Merges \cup Exports \cup Queries \cup {"generate"}

ASSUME JobsAssumption ==
  \A j \in Jobs : /\ j.tool \in Tools /\ j.ins \in Seq(Names) /\ j.out \in Names
                  /\ Len(j.ins) = IF j.tool \in Merges THEN 2 ELSE 1
ASSUME ProgramsAssumption == MaxPrograms \in Nat /\ Jobs # {}

\* The disk is a function of the names.
ASSUME DisksAssumption == \A d \in Disks : d = [n \in Names |-> d[n]]

VARIABLES
  disk,      \* the file of each name: [holds, whole], or none
  before,    \* the disk when the program was started (no program sees it)
  job,       \* its invocation
  step,      \* where it is: "reading", ..., "ended"
  got,       \* the files it has read
  answer,    \* what it is to write
  failed,    \* the state of the output stream
  monitor,   \* airtree-merge's thread: "none", "joinable" or "detached"
  status,    \* how it ended
  begun      \* programs so far

programVars == <<disk, before, job, step, got, answer, failed, monitor, status, begun>>

WholeFile(x) == [holds |-> x, whole |-> TRUE]
Part(x)  == [holds |-> x, whole |-> FALSE]    \* any shorter one, an empty one too
Garbage  == [kind |-> "garbage", schema |-> "none", of |-> [d \in Data |-> 0]]

-----------------------------------------------------------------------------
(* The computations *)

Histograms(fs) == \A k \in DOMAIN fs : fs[k].whole /\ fs[k].holds.kind = "histogram"

\* Whether there is an answer.
Answerable(j, fs) ==
  CASE j.tool = "generate" -> fs[1].holds.kind = "data" /\ fs[1].holds.schema = Columns(j.option)
    [] j.tool \in Merges   -> Histograms(fs) /\ fs[1].holds.schema = fs[2].holds.schema
    [] j.tool = "bins"     -> Histograms(fs) /\ fs[1].holds.schema \in OneD
    [] j.tool = "grid"     -> Histograms(fs) /\ fs[1].holds.schema \in Precise
    [] OTHER               -> Histograms(fs) /\ fs[1].holds.schema \in OneD \cup Precise

AnswerTo(j, fs) ==
  CASE j.tool = "generate" -> [kind |-> "histogram", schema |-> j.option, of |-> fs[1].holds.of]
    [] j.tool \in Merges   -> [kind |-> "histogram", schema |-> fs[1].holds.schema,
                               of |-> [d \in Data |-> fs[1].holds.of[d] + fs[2].holds.of[d]]]
    [] OTHER               -> [kind |-> "rows", schema |-> fs[1].holds.schema, of |-> fs[1].holds.of]

\* Files that may be taken for what they are not: a histogram cut short, where the end
\* is not looked for (exports) or nodes missing before it are passed over (merges and
\* grids of two to four dimensions), and whatever was made of one.
Unsound(j, fs) ==
  \E k \in DOMAIN fs :
    \/ fs[k].holds.kind = "garbage"
    \/ /\ ~ fs[k].whole /\ fs[k].holds.kind = "histogram"
       /\ j.tool \in Exports \/ (j.tool \in Merges \cup {"grid"} /\ fs[k].holds.schema \notin OneD)

-----------------------------------------------------------------------------
\* A session starts after some other program.
ProgramsInit ==
  /\ disk \in Disks /\ before = disk
  /\ job = CHOOSE j \in Jobs : TRUE
  /\ step = "ended" /\ got = <<>> /\ answer = Garbage /\ failed = FALSE
  /\ monitor = "none" /\ status = "killed" /\ begun = 0

\* main returns; a thread that is joinable still takes the program down.
EndAs(s) ==
  /\ step' = "ended"
  /\ status' = IF monitor = "joinable" THEN "aborted" ELSE s

\* An exception, or a handler that gives up: the subcommands merge and export log it,
\* the handlers of generate return nothing, the bin queries do not catch it.
Fails ==
  EndAs(CASE job.tool \in {"merge", "export", "generate"} -> "success"
        [] job.tool = "bins" /\ step = "computing"      -> "aborted"
        [] OTHER                                        -> "failure")

Begin(j) ==
  /\ step = "ended" /\ begun < MaxPrograms
  /\ begun' = begun + 1 /\ job' = j /\ before' = disk
  /\ got' = <<>> /\ answer' = Garbage /\ failed' = FALSE
  /\ UNCHANGED disk

\* The subcommands of airtree check that their inputs exist (ExistingFile).
Subcommand(j) ==
  /\ Begin(j) /\ monitor' = "none"
  /\ IF \E k \in DOMAIN j.ins : disk[j.ins[k]] = Absent
     THEN step' = "ended" /\ status' = "usage"
     ELSE step' = "reading" /\ status' = "running"

StartQuery(j)    == j.tool = "bins" /\ Subcommand(j)
StartGrid(j)     == j.tool = "grid" /\ Subcommand(j)
StartGenerate(j) == j.tool = "generate" /\ Subcommand(j)
StartMerge(j)    == j.tool = "merge" /\ Subcommand(j)
StartExport(j)   == j.tool = "export" /\ Subcommand(j)

\* The programs of their own do not; airtree-merge starts its thread at once.
StartProgram(j) ==
  /\ j.tool \in {"airtree-merge", "airtree-export"} /\ Begin(j)
  /\ monitor' = IF j.tool = "airtree-merge" THEN "joinable" ELSE "none"
  /\ step' = "reading" /\ status' = "running"

\* grid looks at its axes before it reads anything; parse_axis_spec throws for some.
RefuseAxes ==
  /\ step = "reading" /\ job.tool = "grid" /\ EndAs("failure")
  /\ UNCHANGED <<disk, before, job, got, answer, failed, monitor, begun>>

\* Mutant: with the last input read, the output is opened before there is an answer.
ReadInputOpening ==
  /\ step = "reading"
  /\ LET f == disk[job.ins[Len(got) + 1]]
     IN  /\ f # Absent
         /\ got' = Append(got, f)
         /\ step' = IF Len(got) + 1 = Len(job.ins) THEN "computing" ELSE "reading"
  /\ disk' = IF step' = "computing" THEN [disk EXCEPT ![job.out] = Part(answer)] ELSE disk
  /\ UNCHANGED <<before, job, answer, failed, monitor, status, begun>>

\* The next input, to its end.
ReadInput ==
  /\ step = "reading"
  /\ LET f == disk[job.ins[Len(got) + 1]]
     IN  /\ f # Absent
         /\ got' = Append(got, f)
         /\ step' = IF Len(got) + 1 = Len(job.ins) THEN "computing" ELSE "reading"
  /\ UNCHANGED <<disk, before, job, answer, failed, monitor, status, begun>>

\* No such file; or an empty one, which the queries ask for.
RefuseInput ==
  /\ step = "reading"
  /\ LET f == disk[job.ins[Len(got) + 1]]
     IN  f = Absent \/ (f # Absent /\ ~ f.whole /\ job.tool \in Queries)
  /\ Fails
  /\ UNCHANGED <<disk, before, job, got, answer, failed, monitor, begun>>

Compute ==
  /\ step = "computing"
  /\ \/ Answerable(job, got) /\ answer' = AnswerTo(job, got)
     \/ Unsound(job, got) /\ answer' = Garbage
  /\ step' = "opening"
  /\ UNCHANGED <<disk, before, job, got, failed, monitor, status, begun>>

\* An exception; generate has nothing for a schema of other columns.
Refuse ==
  /\ step = "computing" /\ ~ Answerable(job, got)
  /\ Fails
  /\ UNCHANGED <<disk, before, job, got, answer, failed, monitor, begun>>

\* A node that is not there is dereferenced.
Fault ==
  /\ step = "computing" /\ Unsound(job, got)
  /\ EndAs("aborted")
  /\ UNCHANGED <<disk, before, job, got, answer, failed, monitor, begun>>

\* Opening the output cuts it to nothing.
OpenOutput ==
  /\ step = "opening"
  /\ disk' = [disk EXCEPT ![job.out] = Part(answer)]
  /\ step' = "writing"
  /\ UNCHANGED <<before, job, got, answer, failed, monitor, status, begun>>

\* An export to Arrow or Parquet takes the stream without asking whether there is one.
CannotOpen ==
  /\ step = "opening"
  /\ IF job.tool \in Exports /\ job.option # "csv" THEN EndAs("aborted") ELSE Fails
  /\ UNCHANGED <<disk, before, job, got, answer, failed, monitor, begun>>

\* All is on the disk, or none of it yet, or the rest is lost; only an ofstream
\* keeps something back.
Write ==
  /\ step = "writing"
  /\ \/ disk' = [disk EXCEPT ![job.out] = WholeFile(answer)] /\ failed' = FALSE
     \/ job.tool \notin Exports /\ UNCHANGED <<disk, failed>>
     \/ failed' = TRUE /\ UNCHANGED disk
  /\ step' = "closing"
  /\ UNCHANGED <<before, job, got, answer, monitor, status, begun>>

\* What was kept back is written, if it can be.
Close ==
  /\ step = "closing"
  /\ \/ ~ failed /\ disk' = [disk EXCEPT ![job.out] = WholeFile(answer)] /\ UNCHANGED failed
     \/ disk[job.out] # WholeFile(answer) /\ failed' = TRUE /\ UNCHANGED disk
  /\ step' = "closed"
  /\ UNCHANGED <<before, job, got, answer, monitor, status, begun>>

\* write_histogram_file does not look at the stream again.
GiveUp ==
  /\ step = "closed" /\ failed /\ job.tool # "generate"
  /\ Fails
  /\ UNCHANGED <<disk, before, job, got, answer, failed, monitor, begun>>

\* Mutant: nobody looks at the stream after closing it.
SucceedAnyway ==
  /\ step = "closed"
  /\ step' = "ended" /\ status' = "success"
  /\ monitor' = IF monitor = "joinable" THEN "detached" ELSE monitor
  /\ UNCHANGED <<disk, before, job, got, answer, failed, begun>>

\* airtree-merge lets its thread go.
Succeed ==
  /\ step = "closed" /\ (failed => job.tool = "generate")
  /\ step' = "ended" /\ status' = "success"
  /\ monitor' = IF monitor = "joinable" THEN "detached" ELSE monitor
  /\ UNCHANGED <<disk, before, job, got, answer, failed, begun>>

\* At any moment: what the disk has, it keeps.
Kill ==
  /\ step # "ended"
  /\ step' = "ended" /\ status' = "killed"
  /\ UNCHANGED <<disk, before, job, got, answer, failed, monitor, begun>>

ProgramsNext ==
  \/ \E j \in Jobs : \/ StartQuery(j) \/ StartGrid(j) \/ StartGenerate(j)
                      \/ StartMerge(j) \/ StartExport(j) \/ StartProgram(j)
  \/ RefuseAxes \/ ReadInput \/ RefuseInput \/ Compute \/ Refuse \/ Fault
  \/ OpenOutput \/ CannotOpen \/ Write \/ Close \/ GiveUp \/ Succeed \/ Kill

ProgramsSpec == ProgramsInit /\ [][ProgramsNext]_programVars

-----------------------------------------------------------------------------
\* The inputs as they were when the program was started.
Given == [k \in DOMAIN job.ins |-> before[job.ins[k]]]

\* The inputs were there, and a merge, a grid or an export of them is not left to chance.
Sound == (\A k \in DOMAIN Given : Given[k] # Absent) /\ ~ Unsound(job, Given)

(***************************************************************************)
(* If airtree-merge, airtree-export or a query of airtree says that it     *)
(* succeeded, its output is the whole answer to what the inputs held when  *)
(* it was started (also where one of them is the output), and no other     *)
(* file has changed.  Of airtree's generate, merge and export nothing can  *)
(* be told from the exit status, which is 0 whatever happens.              *)
(***************************************************************************)
SuccessTold ==
  (step = "ended" /\ status = "success" /\ job.tool \in {"airtree-merge", "airtree-export"} \cup Queries)
    => /\ \A k \in DOMAIN Given : Given[k] # Absent
       /\ Sound => /\ Answerable(job, Given)
                   /\ disk = [before EXCEPT ![job.out] = WholeFile(AnswerTo(job, Given))]

(***************************************************************************)
(* Nothing is lost for nothing: however and whenever a program ends, the   *)
(* disk is as it was unless the inputs were all read and have an answer,   *)
(* and then the output alone is other, all of that answer or a part.  So a *)
(* merge into one of its inputs that is refused (a missing or cut input,   *)
(* two schemas) leaves both; one that is killed while it writes does not.  *)
(***************************************************************************)
KeptUntilAnswered ==
  disk # before =>
    /\ \A k \in DOMAIN Given : Given[k] # Absent
    /\ Sound => /\ Answerable(job, Given)
                /\ \E f \in {Part(AnswerTo(job, Given)), WholeFile(AnswerTo(job, Given))} :
                     disk = [before EXCEPT ![job.out] = f]

=============================================================================
