-------------------------- MODULE DistributedWork --------------------------
(***************************************************************************)
(* A distributed job at work (cmd/demo-job, internal/demo): its instances  *)
(* run independently of each other, each reads its share of one input and  *)
(* writes a file of metrics, and the aggregator (cmd/aggregator), which is *)
(* started by hand, adds up the files that it finds.                       *)
(*                                                                         *)
(* The input is text, a sequence of newlines and other bytes.  A share is  *)
(* a range of bytes, or of records, the lines that are not empty.  The     *)
(* same job may be submitted again with another number of instances and    *)
(* the same output path.                                                   *)
(***************************************************************************)
EXTENDS Chunker, Sequences, FiniteSetsExt

CONSTANTS
  Inputs,       \* contents the input may have
  Counts,       \* numbers of instances (TASK_COUNT)
  Modes,        \* DISTRIBUTION_MODE
  Paths,        \* kinds of INPUT_DATA_PATH and OUTPUT_BASE_PATH
  MaxRetries,   \* retries of an operation (3 in errors.go)
  MaxRuns,      \* bound: submissions of the job
  MaxMishaps    \* bound: calls that fail, instances killed, replacements of the input

ASSUME WorkAssumption ==
  /\ \A t \in Inputs : t \in Seq({"x", "newline"})
  /\ Counts \subseteq Nat \ {0} /\ Counts # {} /\ IsFiniteSet(Counts)
  /\ Modes \subseteq {"BYTE_RANGE", "RECORD"}
  /\ Paths \subseteq [input : {"local", "gs"}, output : {"local", "gs"}]
  /\ {MaxRetries, MaxRuns, MaxMishaps} \subseteq Nat

VARIABLES
  input,      \* the content of the input
  job,        \* the submission at work: its environment and its number
  instance,   \* its instances
  paths,      \* the kinds of its paths
  files,      \* the metrics files, by the number in their names
  report,     \* what the aggregator printed last about this submission
  replaced,   \* the input was replaced since the submission (history)
  stale,      \* an earlier submission had more instances (history)
  mishaps

vars == <<input, job, instance, paths, files, report, replaced, stale, mishaps>>

Numbers == 0..(Max(Counts) - 1)
NoRange == [first |-> 0, last |-> -1]
NoMetrics == [bytes |-> 0, lines |-> 0, records |-> 0]

Metrics == [bytes : Nat, lines : Nat, records : Nat]

Instance ==
  [pc : {"size", "open", "write", "done", "failed"}, attempt : 0..MaxRetries,
   range : [first : Nat, last : Int], read : SUBSET Nat, metrics : Metrics]

TypeOK ==
  /\ input \in Inputs
  /\ job \in [run : 0..MaxRuns, n : Counts, mode : Modes \cup {"RECORD"}, size : Nat]
  /\ DOMAIN instance \subseteq Numbers /\ \A i \in DOMAIN instance : instance[i] \in Instance
  /\ paths \in Paths
  /\ DOMAIN files \subseteq Numbers /\ \A i \in DOMAIN files : files[i] \in Metrics
  /\ \/ report = [pc |-> "none"] \/ report = [pc |-> "failed"]
     \/ report \in [pc : {"printed"}, total : Metrics, whole : BOOLEAN, mode : Modes, text : Inputs]
  /\ replaced \in BOOLEAN /\ stale \in BOOLEAN
  /\ mishaps \in 0..MaxMishaps

Init ==
  /\ input \in Inputs
  /\ job = [run |-> 0, n |-> Max(Counts), mode |-> "RECORD", size |-> 0]
  /\ instance = [i \in {} |-> {}]
  /\ paths \in Paths
  /\ files = [i \in {} |-> {}]
  /\ report = [pc |-> "none"]
  /\ replaced = FALSE /\ stale = FALSE
  /\ mishaps = 0

Mishap == mishaps < MaxMishaps /\ mishaps' = mishaps + 1
NoMishap == mishaps' = mishaps

----------------------------------------------------------------------------
\* Reading text.  Positions count from 0.
Byte(text, k) == text[k + 1]

\* Mutant: the scanner does not count what follows the last newline.
NewlinesIn(text, range) ==
  Cardinality({k \in range.first..MinOf(range.last, Len(text) - 1) : Byte(text, k) = "newline"})

\* The lines that a scanner counts in the bytes first..last, of which some lie beyond the end.
LinesIn(text, range) ==
  LET last == MinOf(range.last, Len(text) - 1)
      newlines == {k \in range.first..last : Byte(text, k) = "newline"}
  IN IF last < range.first THEN 0
     ELSE Cardinality(newlines) + (IF last \in newlines THEN 0 ELSE 1)

\* The records, by the position where each begins, and the number of each.
extractSemanticRecords(text) ==
  {k \in 0..(Len(text) - 1) :
     Byte(text, k) = "x" /\ (k = 0 \/ Byte(text, k - 1) = "newline")}
NumberOf(text, k) == Cardinality({m \in extractSemanticRecords(text) : m < k})

\* Mutant: the last byte of a range is taken as its end.
BytesBefore(text, range) == {k \in range.first..(range.last - 1) : k < Len(text)}

BytesOf(text, range) == {k \in range.first..range.last : k < Len(text)}
RecordsOf(text, range) ==
  {k \in extractSemanticRecords(text) : NumberOf(text, k) \in range.first..range.last}

\* The bytes of the record that begins at k.
RecordBytes(text, k) == {b \in k..(Len(text) - 1) : \A m \in k..b : Byte(text, m) = "x"}

----------------------------------------------------------------------------
Ended(i) == instance[i].pc \in {"done", "failed"}
AllEnded == \A i \in DOMAIN instance : Ended(i)
AllDone == job.run > 0 /\ \A i \in DOMAIN instance : instance[i].pc = "done"

\* A submission and the start of its instances.  The worker has looked up the size, or was
\* told one, or leaves it to the instances.
Submit(n, m, size) ==
  /\ AllEnded /\ job.run < MaxRuns
  /\ job' = [run |-> job.run + 1, n |-> n, mode |-> m, size |-> size]
  /\ instance' = [i \in 0..(n - 1) |->
       [pc |-> IF m = "RECORD" THEN "open" ELSE "size", attempt |-> 0, range |-> NoRange,
        read |-> {}, metrics |-> NoMetrics]]
  /\ report' = [pc |-> "none"]
  /\ replaced' = FALSE /\ stale' = (job.run > 0 /\ (stale \/ job.n > n))
  /\ UNCHANGED <<input, paths, files, mishaps>>

ReplaceInput(text) ==
  /\ input' = text /\ replaced' = TRUE /\ Mishap
  /\ UNCHANGED <<job, instance, paths, files, report, stale>>

At(i, pc) == instance[i].pc = pc
Goto(i, pc) == instance' = [instance EXCEPT ![i].pc = pc, ![i].attempt = 0]
Alone == UNCHANGED <<input, job, paths, report, replaced, stale>>

\* An instance that fails ends its process.
Fail(i) == Goto(i, "failed")

\* Mutant: the attempts have no limit.
RetryUnlimited(i) == instance' = [instance EXCEPT ![i].attempt = @ + 1]

\* Mutant: attempts are not counted.
RetryForever(i) == UNCHANGED instance

Retry(i) ==
  IF instance[i].attempt < MaxRetries
  THEN instance' = [instance EXCEPT ![i].attempt = @ + 1]
  ELSE Fail(i)

Chunk(i, range) ==
  instance' = [instance EXCEPT ![i].range = range, ![i].metrics.bytes = Size(range),
                               ![i].pc = IF IsEmpty(range) THEN "write" ELSE "open"]

\* Mutant: an instance asks for the size although it was given one.
AskSize(i) ==
  /\ At(i, "size")
  /\ \/ Chunk(i, Calculate(Len(input), job.n, i)) /\ NoMishap
     \/ Fail(i) /\ Mishap
  /\ Alone /\ UNCHANGED files

\* An instance that was not given the size asks for it when it starts.
ensureInputDataSize(i) ==
  /\ At(i, "size")
  /\ \/ job.size > 0 /\ Chunk(i, Calculate(job.size, job.n, i)) /\ NoMishap
     \/ job.size = 0 /\ Chunk(i, Calculate(Len(input), job.n, i)) /\ NoMishap
     \/ job.size = 0 /\ Fail(i) /\ Mishap
  /\ Alone /\ UNCHANGED files

\* A range that ends beyond the end of the input is cut.  One that begins there has no lines
\* in a local file, and cannot be opened in a bucket.  Opening is retried, reading is not.
processReader(i) ==
  /\ At(i, "open") /\ job.mode = "BYTE_RANGE"
  /\ LET range == instance[i].range IN
       \/ /\ paths.input = "local" \/ range.first < Len(input)
          /\ NoMishap
          /\ instance' = [instance EXCEPT ![i].pc = "write", ![i].attempt = 0,
               ![i].read = BytesOf(input, range), ![i].metrics.lines = LinesIn(input, range),
               ![i].metrics.records = LinesIn(input, range)]
       \/ paths.input = "gs" /\ range.first >= Len(input) /\ Retry(i) /\ NoMishap
       \/ (Retry(i) \/ Fail(i)) /\ Mishap
  /\ Alone /\ UNCHANGED files

processRecords(i) ==
  /\ At(i, "open") /\ job.mode = "RECORD"
  /\ \/ LET range == Calculate(Cardinality(extractSemanticRecords(input)), job.n, i)
            records == RecordsOf(input, range)
        IN /\ NoMishap
           /\ instance' = [instance EXCEPT ![i].pc = "write", ![i].range = range,
                ![i].read = records,
                ![i].metrics = [lines |-> Cardinality(records), records |-> Cardinality(records),
                  bytes |-> SumFunction([k \in records |-> Cardinality(RecordBytes(input, k))])]]
     \/ Fail(i) /\ Mishap
  /\ Alone /\ UNCHANGED files

WriteFile(i) ==
  files' = [k \in DOMAIN files \cup {i} |-> IF k = i THEN instance[i].metrics ELSE files[k]]

\* A local file that is cut off does not parse: it counts as missing.
CutFile(i) == files' = [k \in DOMAIN files \ {i} |-> files[k]]

WriteMetrics(i) ==
  /\ At(i, "write")
  /\ \/ WriteFile(i) /\ Goto(i, "done") /\ NoMishap
     \/ paths.output = "gs" /\ (WriteFile(i) \/ UNCHANGED files) /\ Retry(i) /\ Mishap
     \/ paths.output = "local" /\ (CutFile(i) \/ UNCHANGED files) /\ Fail(i) /\ Mishap
  /\ Alone

\* The container is killed, or its half hour is over.
Kill(i) ==
  /\ ~Ended(i) /\ Goto(i, "failed") /\ Mishap
  /\ Alone /\ UNCHANGED files

Process(i) ==
  i \in DOMAIN instance
  /\ (ensureInputDataSize(i) \/ processReader(i) \/ processRecords(i) \/ WriteMetrics(i))

----------------------------------------------------------------------------
\* The aggregator adds up the files it can read.
\* Mutant: the file with the highest number is left out.
AllButLast(f, over) == SumFunction([i \in over \ {Max(over)} |-> files[i][f]])

Total(f, over) == SumFunction([i \in over |-> files[i][f]])

aggregate(unread) ==
  /\ paths.output = "local"
  /\ IF unread = {} THEN NoMishap ELSE Mishap
  /\ LET found == DOMAIN files \ unread IN
       report' = IF found = {} THEN [pc |-> "failed"]
                 ELSE [pc |-> "printed",
                       mode |-> job.mode, text |-> input,
                       total |-> [f \in DOMAIN NoMetrics |-> Total(f, found)],
                       whole |-> AllDone /\ ~replaced /\ ~stale /\ unread = {}
                                 /\ job.size \in {0, Len(input)}]
  /\ UNCHANGED <<input, job, instance, paths, files, replaced, stale>>

\* Listing the files of a bucket ends in an error: the iterator's end is not recognised.
loadFromGCS ==
  /\ paths.output = "gs"
  /\ report' = [pc |-> "failed"]
  /\ UNCHANGED <<input, job, instance, paths, files, replaced, stale, mishaps>>

Next ==
  \/ \E n \in Counts, m \in Modes, size \in {0, Len(input), Len(input) + 1} : Submit(n, m, size)
  \/ \E text \in Inputs : ReplaceInput(text)
  \/ \E i \in DOMAIN instance : Process(i) \/ Kill(i)
  \/ \E unread \in SUBSET DOMAIN files : aggregate(unread)
  \/ loadFromGCS

Spec == Init /\ [][Next]_vars

\* Cloud Batch runs the instances it has started.
FairSpec == Spec /\ \A i \in Numbers : WF_vars(Process(i))

----------------------------------------------------------------------------
Sized(i) == instance[i].pc \in {"open", "write", "done"}
Bytes(range) == range.first..range.last

\* The instances split the same bytes, although each computes its range on its own and at
\* its own time: unless none was given the size and the input is replaced under them, no
\* byte is in two ranges, and together the ranges are the whole.
RangesPartition ==
  job.run > 0 /\ job.mode = "BYTE_RANGE" /\ (job.size > 0 \/ ~replaced) =>
    /\ \A i, k \in DOMAIN instance :
         i # k => Bytes(instance[i].range) \cap Bytes(instance[k].range) = {}
    /\ (\A i \in DOMAIN instance : Sized(i)) =>
         UNION {Bytes(instance[i].range) : i \in DOMAIN instance}
           = 0..((IF job.size > 0 THEN job.size ELSE Len(input)) - 1)

Steady == AllDone /\ ~replaced /\ job.size \in {0, Len(input)}

\* A job that succeeded has read each byte, or each record, exactly once.
EverythingReadOnce ==
  Steady =>
    /\ \A i, k \in DOMAIN instance : i # k => instance[i].read \cap instance[k].read = {}
    /\ UNION {instance[i].read : i \in DOMAIN instance}
         = IF job.mode = "RECORD" THEN extractSemanticRecords(input) ELSE 0..(Len(input) - 1)

\* Splitting by bytes may cut a line in two, which both sides count; nothing else is counted
\* twice, and no line is missed.
CutLinesCountTwice ==
  Steady /\ job.mode = "BYTE_RANGE" =>
    LET counted == SumFunction([i \in DOMAIN instance |-> instance[i].metrics.lines])
        begins == {k \in 0..(Len(input) - 1) : k = 0 \/ Byte(input, k - 1) = "newline"}
        lines == Cardinality(begins)
    IN lines <= counted /\ counted <= lines + job.n - 1

\* What the aggregator prints for a job that succeeded is the whole input, if it could read
\* every file and no earlier submission had more instances.
AggregateIsWhole ==
  report.pc = "printed" /\ report.whole =>
    IF report.mode = "RECORD"
    THEN report.total.records = Cardinality(extractSemanticRecords(report.text))
    ELSE report.total.bytes = Len(report.text)

\* Retries come to an end: no instance keeps its job from ending.
JobEnds == job.run > 0 ~> AllEnded
=============================================================================
