----------------------- MODULE DistributedWorkProofs -----------------------
(***************************************************************************)
(* The distributed job for every input, number of instances and bound: its *)
(* instances split the same bytes, although each computes its range on its *)
(* own; one that succeeded has read every byte, or every record, exactly   *)
(* once, and has counted no line twice but those that are cut; and the     *)
(* total that the aggregator prints for it is that of the whole input.     *)
(*                                                                         *)
(* The first invariant, IInv, says which range each instance has: none     *)
(* yet, or the one that Calculate gives for the size that all of them were *)
(* given, or for the size that the input has had since the submission.     *)
(* ReadInv says what each has read: nothing before it has opened the       *)
(* input, and from then on the bytes, or the records, of that range.  That *)
(* the ranges divide the input is what ChunkerProofs shows of Calculate;   *)
(* that they divide the records needs their numbers, which run from 0 to   *)
(* one less than there are.  FileInv says that an instance has counted     *)
(* what it has read, and has written that when it is done.                 *)
(*                                                                         *)
(* What is added up is a fold over a finite set.  It is reasoned about by  *)
(* a smallest counterexample: a set of parts of a finite set has one that  *)
(* contains no other, and a sum over it is that over all but one of its    *)
(* elements, and the last.  So the sum of the sizes of disjoint parts is   *)
(* the size of their union.                                                *)
(***************************************************************************)
EXTENDS DistributedWork, ChunkerProofs, FiniteSetTheorems

Fields == {"pc", "attempt", "range", "read", "metrics"}

\* What the proof needs of the types.
Shape ==
  /\ input \in Seq({"x", "newline"})
  /\ job.run \in Nat /\ job.size \in Nat /\ (job.run > 0 => job.n \in Nat \ {0})
  /\ DOMAIN instance = IF job.run > 0 THEN 0..(job.n - 1) ELSE {}
  /\ \A i \in DOMAIN instance : DOMAIN instance[i] = Fields

\* The size that the instances of the job at work split.
SizeAtWork == IF job.size > 0 THEN job.size ELSE Len(input)

Splitting == job.mode = "BYTE_RANGE" /\ (job.size > 0 \/ ~replaced)

HasItsShare(i) ==
  /\ instance[i].range \in {NoRange, Calculate(SizeAtWork, job.n, i)}
  /\ Sized(i) => instance[i].range = Calculate(SizeAtWork, job.n, i)

IInv == Shape /\ (Splitting => \A i \in DOMAIN instance : HasItsShare(i))

\* A step of one instance.
LEMMA OneInstance ==
  ASSUME IInv, NEW i \in DOMAIN instance, NEW x,
         instance' = [instance EXCEPT ![i] = x], DOMAIN x = Fields,
         UNCHANGED <<input, job, replaced>>,
         Splitting =>
           /\ x.range \in {NoRange, Calculate(SizeAtWork, job.n, i)}
           /\ x.pc \in {"open", "write", "done"} => x.range = Calculate(SizeAtWork, job.n, i)
  PROVE  IInv'
<1>1. Shape'  BY DEF IInv, Shape
<1>2. Splitting' = Splitting /\ SizeAtWork' = SizeAtWork /\ DOMAIN instance' = DOMAIN instance
  BY DEF Splitting, SizeAtWork
<1>3. ASSUME Splitting, NEW k \in DOMAIN instance PROVE HasItsShare(k)'
  <2>1. CASE k = i  BY <1>2, <1>3, <2>1 DEF HasItsShare, Sized
  <2>2. CASE k # i  BY <1>2, <1>3, <2>2 DEF HasItsShare, Sized, IInv
  <2> QED  BY <2>1, <2>2
<1> QED  BY <1>1, <1>2, <1>3 DEF IInv

\* An instance that ends, or counts an attempt, keeps its range.
LEMMA RangeIsKept ==
  ASSUME IInv, NEW i \in DOMAIN instance, UNCHANGED <<input, job, replaced>>,
         \/ Fail(i) \/ Retry(i)
         \/ Sized(i) /\ Goto(i, "done")
  PROVE  IInv'
<1>1. DOMAIN instance[i] = Fields  BY DEF IInv, Shape
<1>2. Splitting => HasItsShare(i)  BY DEF IInv
<1>3. ASSUME NEW pc \in {"failed", "done"}, Goto(i, pc), pc = "done" => Sized(i)
      PROVE  IInv'
  <2> DEFINE x == [[instance[i] EXCEPT !.pc = pc] EXCEPT !.attempt = 0]
  <2>1. instance' = [instance EXCEPT ![i] = x]  BY <1>3 DEF Goto
  <2>2. DOMAIN x = Fields /\ x.range = instance[i].range /\ x.pc = pc  BY <1>1 DEF Fields
  <2> QED  BY <2>1, <2>2, <1>2, <1>3, OneInstance DEF HasItsShare
<1>4. ASSUME instance' = [instance EXCEPT ![i].attempt = @ + 1] PROVE IInv'
  <2> DEFINE x == [instance[i] EXCEPT !.attempt = @ + 1]
  <2>1. instance' = [instance EXCEPT ![i] = x]  BY <1>4
  <2>2. DOMAIN x = Fields /\ x.range = instance[i].range /\ x.pc = instance[i].pc
    BY <1>1 DEF Fields
  <2> QED  BY <2>1, <2>2, <1>2, OneInstance DEF HasItsShare, Sized
<1> QED  BY <1>3, <1>4 DEF Fail, Retry

\* At first there are no instances.
LEMMA Initially == Init => IInv
<1> SUFFICES ASSUME Init PROVE IInv  OBVIOUS
<1>1. input \in Seq({"x", "newline"})  BY WorkAssumption DEF Init, WorkAssumption
<1>2. job.run = 0 /\ job.size = 0 /\ job.mode = "RECORD"  BY DEF Init
<1>3. DOMAIN instance = {}  BY DEF Init
<1> QED  BY <1>1, <1>2, <1>3 DEF IInv, Shape, Splitting

\* The instances of a new submission have no range.
LEMMA Submission ==
  ASSUME IInv, NEW n \in Counts, NEW m \in Modes, NEW size \in Nat, Submit(n, m, size)
  PROVE  IInv'
<1>1. n \in Nat \ {0}  BY WorkAssumption
<1>2. Shape'
  BY <1>1 DEF Submit, IInv, Shape, Fields
<1>3. ASSUME Splitting', NEW i \in DOMAIN instance' PROVE HasItsShare(i)'
  BY <1>3 DEF Submit, Splitting, HasItsShare, Sized
<1> QED  BY <1>2, <1>3 DEF IInv

\* A replaced input matters only to instances that were given no size.
LEMMA Replacement ==
  ASSUME IInv, NEW text \in Inputs, ReplaceInput(text)
  PROVE  IInv'
<1>1. Shape'  BY WorkAssumption DEF ReplaceInput, IInv, Shape
<1>2. ASSUME Splitting', NEW i \in DOMAIN instance' PROVE HasItsShare(i)'
  <2>1. job.size > 0 /\ Splitting /\ SizeAtWork' = SizeAtWork
    BY <1>2 DEF ReplaceInput, Splitting, SizeAtWork
  <2> QED  BY <1>2, <2>1 DEF ReplaceInput, IInv, HasItsShare, Sized
<1> QED  BY <1>1, <1>2 DEF IInv

\* A step of an instance leaves its range alone, or computes the one it should have.
LEMMA Working ==
  ASSUME IInv, NEW i \in DOMAIN instance, Process(i) \/ Kill(i)
  PROVE  IInv'
<1>1. DOMAIN instance[i] = Fields  BY DEF IInv, Shape
<1>2. Splitting => HasItsShare(i)  BY DEF IInv
<1>3. CASE ensureInputDataSize(i)
  <2>1. UNCHANGED <<input, job, replaced>>  BY <1>3 DEF ensureInputDataSize, Alone
  <2>2. ASSUME Chunk(i, Calculate(SizeAtWork, job.n, i)) PROVE IInv'
    <3> DEFINE range == Calculate(SizeAtWork, job.n, i)
    <3>1. PICK x : /\ instance' = [instance EXCEPT ![i] = x]
                   /\ DOMAIN x = Fields /\ x.range = range
      <4> DEFINE x == [[[instance[i] EXCEPT !.range = range] EXCEPT !.metrics.bytes = Size(range)]
                         EXCEPT !.pc = IF IsEmpty(range) THEN "write" ELSE "open"]
      <4>1. instance' = [instance EXCEPT ![i] = x]  BY <2>2 DEF Chunk
      <4>2. DOMAIN x = Fields /\ x.range = range  BY <1>1 DEF Fields
      <4> QED  BY <4>1, <4>2
    <3> QED  BY <2>1, <3>1, OneInstance
  <2>3. CASE Fail(i)  BY <2>1, <2>3, RangeIsKept
  <2>4. Chunk(i, Calculate(SizeAtWork, job.n, i)) \/ Fail(i)
    BY <1>3 DEF ensureInputDataSize, SizeAtWork, IInv, Shape
  <2> QED  BY <2>2, <2>3, <2>4
<1>4. CASE processReader(i)
  <2>1. UNCHANGED <<input, job, replaced>> /\ Sized(i)
    BY <1>4 DEF processReader, Alone, At, Sized
  <2>2. CASE Retry(i) \/ Fail(i)  BY <2>1, <2>2, RangeIsKept
  <2>3. ASSUME ~Retry(i), ~Fail(i) PROVE IInv'
    <3>1. PICK x : /\ instance' = [instance EXCEPT ![i] = x]
                   /\ DOMAIN x = Fields /\ x.range = instance[i].range
      <4> DEFINE r == instance[i].range
                 x == [[[[[instance[i] EXCEPT !.pc = "write"] EXCEPT !.attempt = 0]
                           EXCEPT !.read = BytesOf(input, r)]
                           EXCEPT !.metrics.lines = LinesIn(input, r)]
                           EXCEPT !.metrics.records = LinesIn(input, r)]
      <4>1. instance' = [instance EXCEPT ![i] = x]  BY <1>4, <2>3 DEF processReader
      <4>2. DOMAIN x = Fields /\ x.range = instance[i].range  BY <1>1 DEF Fields
      <4> QED  BY <4>1, <4>2
    <3> QED  BY <1>2, <2>1, <3>1, OneInstance DEF HasItsShare
  <2> QED  BY <2>2, <2>3
<1>5. CASE processRecords(i)
  <2>1. UNCHANGED <<input, job, replaced>> /\ job.mode = "RECORD"
    BY <1>5 DEF processRecords, Alone
  <2>2. DOMAIN instance' = DOMAIN instance /\ \A k \in DOMAIN instance : DOMAIN instance'[k] = Fields
    BY <1>5, <1>1 DEF processRecords, Fail, Goto, Fields, IInv, Shape
  <2> QED  BY <2>1, <2>2 DEF IInv, Shape, Splitting
<1>6. CASE WriteMetrics(i)
  <2>1. UNCHANGED <<input, job, replaced>> /\ Sized(i)
    BY <1>6 DEF WriteMetrics, Alone, At, Sized
  <2>2. Retry(i) \/ Fail(i) \/ Goto(i, "done")  BY <1>6 DEF WriteMetrics
  <2> QED  BY <2>1, <2>2, RangeIsKept
<1>7. CASE Kill(i)
  <2>1. UNCHANGED <<input, job, replaced>> /\ Fail(i)  BY <1>7 DEF Kill, Alone, Fail
  <2> QED  BY <2>1, RangeIsKept
<1> QED  BY <1>3, <1>4, <1>5, <1>6, <1>7 DEF Process

\* Every step preserves the invariant of the ranges.
LEMMA Step ==
  ASSUME IInv, [Next]_vars
  PROVE  IInv'
<1>1. ASSUME NEW n \in Counts, NEW m \in Modes, NEW size \in {0, Len(input), Len(input) + 1},
             Submit(n, m, size)
      PROVE  IInv'
  <2>1. size \in Nat  BY <1>1 DEF IInv, Shape
  <2> QED  BY <1>1, <2>1, Submission
<1>2. ASSUME NEW text \in Inputs, ReplaceInput(text) PROVE IInv'
  BY <1>2, Replacement
<1>3. ASSUME NEW i \in DOMAIN instance, Process(i) \/ Kill(i) PROVE IInv'
  BY <1>3, Working
<1>4. ASSUME UNCHANGED <<input, job, instance, replaced>> PROVE IInv'
  BY <1>4 DEF IInv, Shape, Splitting, HasItsShare, Sized, SizeAtWork
<1>5. ASSUME NEW unread, aggregate(unread) PROVE IInv'  BY <1>4, <1>5 DEF aggregate
<1>6. CASE loadFromGCS  BY <1>4, <1>6 DEF loadFromGCS
<1>7. CASE UNCHANGED vars  BY <1>4, <1>7 DEF vars
<1> QED  BY <1>1, <1>2, <1>3, <1>5, <1>6, <1>7 DEF Next

\* The invariant of the ranges, with what ChunkerProofs shows, is the property.
LEMMA Partition == IInv => RangesPartition
<1> SUFFICES ASSUME IInv, job.run > 0, Splitting
             PROVE  /\ \A i, k \in DOMAIN instance :
                         i # k => Bytes(instance[i].range) \cap Bytes(instance[k].range) = {}
                    /\ (\A i \in DOMAIN instance : Sized(i)) =>
                         UNION {Bytes(instance[i].range) : i \in DOMAIN instance}
                           = 0..(SizeAtWork - 1)
  BY DEF RangesPartition, Splitting, SizeAtWork
<1>1. /\ DOMAIN instance = 0..(job.n - 1) /\ job.n \in Nat \ {0}
      /\ SizeAtWork \in Nat
  BY DEF IInv, Shape, SizeAtWork
<1>2. \A i \in DOMAIN instance : HasItsShare(i)  BY DEF IInv
<1>3. ASSUME NEW i \in DOMAIN instance
      PROVE  /\ Bytes(instance[i].range) \in {{}, Share(SizeAtWork, job.n, i)}
             /\ Sized(i) => Bytes(instance[i].range) = Share(SizeAtWork, job.n, i)
  <2>1. Bytes(NoRange) = {}  BY DEF Bytes, NoRange
  <2>2. Bytes(Calculate(SizeAtWork, job.n, i)) = Share(SizeAtWork, job.n, i)
    BY DEF Bytes, Share
  <2> QED  BY <1>2, <2>1, <2>2 DEF HasItsShare
<1>4. ASSUME NEW i \in DOMAIN instance, NEW k \in DOMAIN instance, i # k
      PROVE  Bytes(instance[i].range) \cap Bytes(instance[k].range) = {}
  <2>1. Share(SizeAtWork, job.n, i) \cap Share(SizeAtWork, job.n, k) = {}
    BY <1>1, <1>4, SharesAreDisjoint
  <2> QED  BY <2>1, <1>3
<1>5. ASSUME \A i \in DOMAIN instance : Sized(i)
      PROVE  UNION {Bytes(instance[i].range) : i \in DOMAIN instance} = 0..(SizeAtWork - 1)
  <2>1. UNION {Share(SizeAtWork, job.n, i) : i \in 0..(job.n - 1)} = 0..(SizeAtWork - 1)
    BY <1>1, SharesCoverTheInput
  <2>2. \A i \in DOMAIN instance : Bytes(instance[i].range) = Share(SizeAtWork, job.n, i)
    BY <1>3, <1>5
  <2> QED  BY <2>1, <2>2, <1>1
<1> QED  BY <1>4, <1>5

\* The instances split the same bytes (ensureInputDataSize, internal/demo/processor.go).
THEOREM RangesArePartitions == Spec => []RangesPartition
<1>1. Init => IInv  BY Initially
<1>2. IInv /\ [Next]_vars => IInv'  BY Step
<1>3. IInv => RangesPartition  BY Partition
<1> QED  BY <1>1, <1>2, <1>3, PTL DEF Spec

----------------------------------------------------------------------------
\* What an instance that has read its share has read.
Part(i) ==
  IF job.mode = "RECORD"
  THEN RecordsOf(input, Calculate(Cardinality(extractSemanticRecords(input)), job.n, i))
  ELSE BytesOf(input, Calculate(Len(input), job.n, i))

Whole == ~replaced /\ job.size \in {0, Len(input)}

HasRead(i) ==
  /\ instance[i].pc \in {"size", "open"} => instance[i].read = {}
  /\ At(i, "size") => job.mode = "BYTE_RANGE"
  /\ Whole /\ instance[i].pc \in {"write", "done"} => instance[i].read = Part(i)

ReadInv == \A i \in DOMAIN instance : HasRead(i)

\* The ends of a range are integers, so that an empty range holds no position.
LEMMA RangesAreOfIntegers ==
  ASSUME NEW size \in Nat, NEW n \in Nat \ {0}, NEW i \in 0..(n - 1)
  PROVE  Calculate(size, n, i) \in [first : Nat, last : Int]
<1>1. CASE size < n  BY <1>1 DEF Calculate, SmallChunk
<1>2. CASE size >= n
  <2> DEFINE each == size \div n
             rest == size % n
  <2>1. each \in Nat /\ rest \in Nat  BY <1>2, Parts
  <2>2. i * each \in Nat /\ (i + 1) * each \in Nat
    <3>1. i \in Nat /\ i + 1 \in Nat  OBVIOUS
    <3> HIDE DEF each
    <3> QED  BY <2>1, <3>1, Products
  <2>3. MinOf(i, rest) \in Nat /\ MinOf(i + 1, rest) \in Nat  BY <2>1 DEF MinOf
  <2>4. Calculate(size, n, i)
          = [first |-> i * each + MinOf(i, rest),
             last |-> IF i = n - 1 THEN size - 1 ELSE (i + 1) * each + MinOf(i + 1, rest) - 1]
    BY <1>2 DEF Calculate, EvenChunk
  <2> HIDE DEF each, rest
  <2> QED  BY <2>2, <2>3, <2>4
<1> QED  BY <1>1, <1>2

\* An instance with an empty range skips the reading, and has nothing to read.
LEMMA EmptyRanges ==
  ASSUME NEW size \in Nat, NEW n \in Nat \ {0}, NEW i \in 0..(n - 1),
         IsEmpty(Calculate(size, n, i))
  PROVE  Share(size, n, i) = {}
BY RangesAreOfIntegers DEF IsEmpty, Share

\* A step of one instance.
LEMMA OneReads ==
  ASSUME ReadInv, NEW i \in DOMAIN instance, NEW x,
         instance' = [instance EXCEPT ![i] = x], UNCHANGED <<input, job, replaced>>,
         x.pc \in {"size", "open"} => x.read = {},
         x.pc = "size" => job.mode = "BYTE_RANGE",
         Whole /\ x.pc \in {"write", "done"} => x.read = Part(i)
  PROVE  ReadInv'
<1>1. Whole' = Whole /\ \A k : Part(k)' = Part(k)  BY DEF Whole, Part
<1> SUFFICES ASSUME NEW k \in DOMAIN instance PROVE HasRead(k)'  BY DEF ReadInv
<1>2. CASE k = i
  <2>1. instance'[k] = x  BY <1>2
  <2> QED  BY <1>1, <1>2, <2>1 DEF HasRead, At
<1>3. CASE k # i
  <2>1. instance'[k] = instance[k] /\ HasRead(k)  BY <1>3 DEF ReadInv
  <2> QED  BY <1>1, <2>1 DEF HasRead, At
<1> QED  BY <1>2, <1>3

\* An instance that ends, or counts an attempt, has read what it has read.
LEMMA ReadIsKept ==
  ASSUME IInv, ReadInv, NEW i \in DOMAIN instance, UNCHANGED <<input, job, replaced>>,
         Fail(i) \/ Retry(i) \/ (At(i, "write") /\ Goto(i, "done"))
  PROVE  ReadInv'
<1>1. DOMAIN instance[i] = Fields /\ HasRead(i)  BY DEF IInv, Shape, ReadInv
<1>2. ASSUME NEW pc \in {"failed", "done"}, Goto(i, pc), pc = "done" => At(i, "write")
      PROVE  ReadInv'
  <2> DEFINE x == [[instance[i] EXCEPT !.pc = pc] EXCEPT !.attempt = 0]
  <2>1. instance' = [instance EXCEPT ![i] = x]  BY <1>2 DEF Goto
  <2>2. x.read = instance[i].read /\ x.pc = pc  BY <1>1 DEF Fields
  <2> HIDE DEF x
  <2> QED  BY <2>1, <2>2, <1>1, <1>2, OneReads DEF HasRead, At
<1>3. ASSUME instance' = [instance EXCEPT ![i].attempt = @ + 1] PROVE ReadInv'
  <2> DEFINE x == [instance[i] EXCEPT !.attempt = @ + 1]
  <2>1. instance' = [instance EXCEPT ![i] = x]  BY <1>3
  <2>2. x.read = instance[i].read /\ x.pc = instance[i].pc  BY <1>1 DEF Fields
  <2> HIDE DEF x
  <2> QED  BY <2>1, <2>2, <1>1, OneReads DEF HasRead, At
<1> QED  BY <1>2, <1>3 DEF Fail, Retry

\* The steps of an instance, one by one: the size and the range, ...
LEMMA SizesReads ==
  ASSUME IInv, ReadInv, NEW i \in DOMAIN instance, ensureInputDataSize(i)
  PROVE  ReadInv'
<1>1. UNCHANGED <<input, job, replaced>> /\ At(i, "size")  BY DEF ensureInputDataSize, Alone
<1>2. DOMAIN instance[i] = Fields /\ HasRead(i)  BY DEF IInv, Shape, ReadInv
<1>3. ASSUME Chunk(i, Calculate(SizeAtWork, job.n, i)) PROVE ReadInv'
  <2> DEFINE range == Calculate(SizeAtWork, job.n, i)
             x == [[[instance[i] EXCEPT !.range = range] EXCEPT !.metrics.bytes = Size(range)]
                     EXCEPT !.pc = IF IsEmpty(range) THEN "write" ELSE "open"]
  <2>1. instance' = [instance EXCEPT ![i] = x]  BY <1>3 DEF Chunk
  <2>2. x.read = instance[i].read /\ x.pc = IF IsEmpty(range) THEN "write" ELSE "open"
    BY <1>2 DEF Fields
  <2>3. x.read = {}  BY <1>1, <1>2, <2>2 DEF HasRead, At
  <2>4. ASSUME Whole, IsEmpty(range) PROVE Part(i) = {}
    <3>1. SizeAtWork = Len(input) /\ job.mode # "RECORD"
      BY <1>1, <1>2, <2>4 DEF Whole, SizeAtWork, HasRead, IInv, Shape
    <3>2. range.first..range.last = {}
      <4>1. SizeAtWork \in Nat /\ job.n \in Nat \ {0} /\ i \in 0..(job.n - 1)
        BY DEF IInv, Shape, SizeAtWork
      <4> QED  BY <2>4, <4>1, EmptyRanges DEF Share
    <3> QED  BY <3>1, <3>2 DEF Part, BytesOf
  <2> HIDE DEF x, range
  <2> QED  BY <1>1, <2>1, <2>2, <2>3, <2>4, OneReads
<1>4. CASE Fail(i)  BY <1>1, <1>4, ReadIsKept
<1>5. Chunk(i, Calculate(SizeAtWork, job.n, i)) \/ Fail(i)
  BY DEF ensureInputDataSize, SizeAtWork, IInv, Shape
<1> QED  BY <1>3, <1>4, <1>5

\* ... the bytes of the range, ...
LEMMA ReaderReads ==
  ASSUME IInv, ReadInv, NEW i \in DOMAIN instance, processReader(i)
  PROVE  ReadInv'
<1>1. UNCHANGED <<input, job, replaced>> /\ At(i, "open") /\ job.mode = "BYTE_RANGE"
  BY DEF processReader, Alone
<1>2. DOMAIN instance[i] = Fields  BY DEF IInv, Shape
<1>3. CASE Retry(i) \/ Fail(i)  BY <1>1, <1>3, ReadIsKept
<1>4. ASSUME ~Retry(i), ~Fail(i) PROVE ReadInv'
  <2> DEFINE r == instance[i].range
             x == [[[[[instance[i] EXCEPT !.pc = "write"] EXCEPT !.attempt = 0]
                       EXCEPT !.read = BytesOf(input, r)]
                       EXCEPT !.metrics.lines = LinesIn(input, r)]
                       EXCEPT !.metrics.records = LinesIn(input, r)]
  <2>1. instance' = [instance EXCEPT ![i] = x]  BY <1>4 DEF processReader
  <2>2. x.read = BytesOf(input, r) /\ x.pc = "write"  BY <1>2 DEF Fields
  <2>3. ASSUME Whole PROVE BytesOf(input, r) = Part(i)
    <3>1. SizeAtWork = Len(input) /\ Splitting
      BY <1>1, <2>3 DEF Whole, SizeAtWork, Splitting, IInv, Shape
    <3>2. r = Calculate(Len(input), job.n, i)
      BY <1>1, <3>1 DEF IInv, HasItsShare, Sized, At
    <3> QED  BY <1>1, <3>2 DEF Part
  <2> HIDE DEF x, r
  <2> QED  BY <1>1, <2>1, <2>2, <2>3, OneReads
<1> QED  BY <1>3, <1>4

\* ... or its records.
LEMMA RecordsReads ==
  ASSUME IInv, ReadInv, NEW i \in DOMAIN instance, processRecords(i)
  PROVE  ReadInv'
<1>1. UNCHANGED <<input, job, replaced>> /\ job.mode = "RECORD"  BY DEF processRecords, Alone
<1>2. DOMAIN instance[i] = Fields  BY DEF IInv, Shape
<1>3. CASE Fail(i)  BY <1>1, <1>3, ReadIsKept
<1>4. ASSUME ~Fail(i) PROVE ReadInv'
  <2> DEFINE range == Calculate(Cardinality(extractSemanticRecords(input)), job.n, i)
             records == RecordsOf(input, range)
             metrics == [lines |-> Cardinality(records), records |-> Cardinality(records),
                  bytes |-> SumFunction([k \in records |-> Cardinality(RecordBytes(input, k))])]
             x == [[[[instance[i] EXCEPT !.pc = "write"] EXCEPT !.range = range]
                       EXCEPT !.read = records] EXCEPT !.metrics = metrics]
  <2>1. instance' = [instance EXCEPT ![i].pc = "write", ![i].range = range,
                       ![i].read = records, ![i].metrics = metrics]
    BY <1>4 DEF processRecords
  <2> HIDE DEF metrics, records, range
  <2>2. instance' = [instance EXCEPT ![i] = x]  BY <2>1
  <2>3. x.read = records /\ x.pc = "write"  BY <1>2 DEF Fields
  <2>4. records = Part(i)  BY <1>1 DEF Part, records, range
  <2> HIDE DEF x
  <2> QED  BY <1>1, <2>2, <2>3, <2>4, OneReads
<1> QED  BY <1>3, <1>4

\* Every step preserves what is said of the reading.
LEMMA ReadNext ==
  ASSUME IInv, ReadInv, [Next]_vars
  PROVE  ReadInv'
<1>1. ASSUME NEW n \in Counts, NEW m \in Modes, NEW size, Submit(n, m, size)
      PROVE  ReadInv'
  <2>1. m \in {"BYTE_RANGE", "RECORD"}  BY WorkAssumption
  <2>2. job'.mode = m  BY <1>1 DEF Submit
  <2>3. ASSUME NEW i \in DOMAIN instance'
        PROVE  /\ instance'[i].pc = IF m = "RECORD" THEN "open" ELSE "size"
               /\ instance'[i].read = {}
    BY <1>1 DEF Submit
  <2> QED  BY <2>1, <2>2, <2>3 DEF ReadInv, HasRead, At
<1>2. ASSUME NEW text, ReplaceInput(text) PROVE ReadInv'
  <2>1. ~Whole' /\ UNCHANGED <<job, instance>>  BY <1>2 DEF ReplaceInput, Whole
  <2> QED  BY <2>1 DEF ReadInv, HasRead, At
<1>3. ASSUME NEW i \in DOMAIN instance, Process(i) \/ Kill(i) PROVE ReadInv'
  <2>1. CASE WriteMetrics(i)
    <3>1. UNCHANGED <<input, job, replaced>> /\ At(i, "write")  BY <2>1 DEF WriteMetrics, Alone
    <3>2. Retry(i) \/ Fail(i) \/ Goto(i, "done")  BY <2>1 DEF WriteMetrics
    <3> QED  BY <3>1, <3>2, ReadIsKept
  <2>2. CASE Kill(i)
    <3>1. UNCHANGED <<input, job, replaced>> /\ Fail(i)  BY <2>2 DEF Kill, Alone, Fail
    <3> QED  BY <3>1, ReadIsKept
  <2> QED  BY <1>3, <2>1, <2>2, SizesReads, ReaderReads, RecordsReads DEF Process
<1>4. ASSUME UNCHANGED <<input, job, instance, replaced>> PROVE ReadInv'
  BY <1>4 DEF ReadInv, HasRead, At, Whole, Part
<1>5. ASSUME NEW unread, aggregate(unread) PROVE ReadInv'  BY <1>4, <1>5 DEF aggregate
<1>6. CASE loadFromGCS  BY <1>4, <1>6 DEF loadFromGCS
<1>7. CASE UNCHANGED vars  BY <1>4, <1>7 DEF vars
<1> QED  BY <1>1, <1>2, <1>3, <1>5, <1>6, <1>7 DEF Next

\* The records are numbered from 0 on.
LEMMA RecordsAreNumbered ==
  ASSUME NEW text \in Seq({"x", "newline"})
  PROVE  /\ Cardinality(extractSemanticRecords(text)) \in Nat
         /\ \A k \in extractSemanticRecords(text) :
              NumberOf(text, k) \in 0..(Cardinality(extractSemanticRecords(text)) - 1)
<1> DEFINE records == extractSemanticRecords(text)
<1>1. records \subseteq 0..(Len(text) - 1)  BY DEF extractSemanticRecords
<1>2. IsFiniteSet(records) /\ records \subseteq Int
  <2>1. Len(text) - 1 \in Int  OBVIOUS
  <2>2. IsFiniteSet(0..(Len(text) - 1))  BY <2>1, FS_Interval
  <2> QED  BY <1>1, <2>2, FS_Subset
<1>3. Cardinality(records) \in Nat  BY <1>2, FS_CardinalityType
<1>4. ASSUME NEW k \in records PROVE NumberOf(text, k) \in 0..(Cardinality(records) - 1)
  <2> DEFINE before == {m \in records : m < k}
  <2>1. before \in SUBSET records /\ before # records  BY <1>2
  <2>2. /\ IsFiniteSet(before) /\ Cardinality(before) <= Cardinality(records)
        /\ Cardinality(before) # Cardinality(records)
    BY <1>2, <2>1, FS_Subset
  <2>3. Cardinality(before) \in Nat  BY <2>2, FS_CardinalityType
  <2>4. NumberOf(text, k) = Cardinality(before)  BY DEF NumberOf
  <2> QED  BY <1>3, <2>2, <2>3, <2>4
<1> QED  BY <1>3, <1>4

\* No byte of a share lies beyond the end.
LEMMA BytesOfShare ==
  ASSUME NEW text \in Seq({"x", "newline"}), NEW n \in Nat \ {0}, NEW i \in 0..(n - 1)
  PROVE  BytesOf(text, Calculate(Len(text), n, i)) = Share(Len(text), n, i)
<1>1. Len(text) \in Nat  OBVIOUS
<1>2. Share(Len(text), n, i) \subseteq 0..(Len(text) - 1)  BY <1>1, SharesAreInside
<1>3. \A k \in 0..(Len(text) - 1) : k < Len(text)  BY <1>1
<1>4. BytesOf(text, Calculate(Len(text), n, i)) = {k \in Share(Len(text), n, i) : k < Len(text)}
  BY DEF BytesOf, Share
<1> QED  BY <1>2, <1>3, <1>4

\* What the instances read, when each has read its part.
LEMMA PartsOfBytes ==
  ASSUME NEW text \in Seq({"x", "newline"}), NEW n \in Nat \ {0}
  PROVE  /\ \A i, k \in 0..(n - 1) : i # k =>
              BytesOf(text, Calculate(Len(text), n, i))
                \cap BytesOf(text, Calculate(Len(text), n, k)) = {}
         /\ UNION {BytesOf(text, Calculate(Len(text), n, i)) : i \in 0..(n - 1)}
              = 0..(Len(text) - 1)
<1>1. Len(text) \in Nat  OBVIOUS
<1>2. \A i \in 0..(n - 1) : BytesOf(text, Calculate(Len(text), n, i)) = Share(Len(text), n, i)
  BY BytesOfShare
<1>3. \A i, k \in 0..(n - 1) : i # k => Share(Len(text), n, i) \cap Share(Len(text), n, k) = {}
  BY <1>1, SharesAreDisjoint
<1>4. UNION {Share(Len(text), n, i) : i \in 0..(n - 1)} = 0..(Len(text) - 1)
  BY <1>1, SharesCoverTheInput
<1> QED  BY <1>2, <1>3, <1>4

\* The same of records: a record belongs to the share that has its number.
LEMMA PartsOfRecords ==
  ASSUME NEW text \in Seq({"x", "newline"}), NEW n \in Nat \ {0}
  PROVE  LET count == Cardinality(extractSemanticRecords(text))
         IN  /\ \A i, k \in 0..(n - 1) : i # k =>
                  RecordsOf(text, Calculate(count, n, i))
                    \cap RecordsOf(text, Calculate(count, n, k)) = {}
             /\ UNION {RecordsOf(text, Calculate(count, n, i)) : i \in 0..(n - 1)}
                  = extractSemanticRecords(text)
<1> DEFINE records == extractSemanticRecords(text)
           count == Cardinality(records)
<1>1. count \in Nat /\ \A r \in records : NumberOf(text, r) \in 0..(count - 1)
  BY RecordsAreNumbered
<1>2. ASSUME NEW i
      PROVE  RecordsOf(text, Calculate(count, n, i))
               = {r \in records : NumberOf(text, r) \in Share(count, n, i)}
  BY DEF RecordsOf, Share
<1> HIDE DEF records, count
<1>3. \A i, k \in 0..(n - 1) : i # k => Share(count, n, i) \cap Share(count, n, k) = {}
  BY <1>1, SharesAreDisjoint
<1>4. UNION {Share(count, n, i) : i \in 0..(n - 1)} = 0..(count - 1)
  BY <1>1, SharesCoverTheInput
<1>5. \A i, k \in 0..(n - 1) : i # k =>
        RecordsOf(text, Calculate(count, n, i)) \cap RecordsOf(text, Calculate(count, n, k)) = {}
  BY <1>2, <1>3
<1>6. UNION {RecordsOf(text, Calculate(count, n, i)) : i \in 0..(n - 1)} = records
  <2>1. \A r \in records : \E i \in 0..(n - 1) : NumberOf(text, r) \in Share(count, n, i)
    BY <1>1, <1>4
  <2> QED  BY <1>2, <2>1
<1> QED  BY <1>5, <1>6 DEF records, count

\* What the instances read divides the input.
LEMMA ReadOnce == IInv /\ ReadInv => EverythingReadOnce
<1> SUFFICES ASSUME IInv, ReadInv, Steady PROVE EverythingReadOnce  BY DEF EverythingReadOnce
<1>1. /\ input \in Seq({"x", "newline"})
      /\ job.n \in Nat \ {0} /\ DOMAIN instance = 0..(job.n - 1)
  BY DEF Steady, AllDone, IInv, Shape
<1>2. \A i \in DOMAIN instance : instance[i].read = Part(i)
  BY DEF Steady, AllDone, ReadInv, HasRead, Whole
<1>3. CASE job.mode = "RECORD"
  <2>1. \A i \in DOMAIN instance :
          instance[i].read
            = RecordsOf(input, Calculate(Cardinality(extractSemanticRecords(input)), job.n, i))
    BY <1>2, <1>3 DEF Part
  <2> QED  BY <1>1, <1>3, <2>1, PartsOfRecords DEF EverythingReadOnce
<1>4. CASE job.mode # "RECORD"
  <2>1. \A i \in DOMAIN instance :
          instance[i].read = BytesOf(input, Calculate(Len(input), job.n, i))
    BY <1>2, <1>4 DEF Part
  <2> QED  BY <1>1, <1>4, <2>1, PartsOfBytes DEF EverythingReadOnce
<1> QED  BY <1>3, <1>4

\* A job that succeeded has read each byte, or each record, exactly once
\* (processReader and processRecords, internal/demo/processor.go).
THEOREM InputIsReadOnce == Spec => []EverythingReadOnce
<1>1. Init => IInv  BY Initially
<1>2. IInv /\ [Next]_vars => IInv'  BY Step
<1>3. Init => ReadInv
  <2>1. Init => DOMAIN instance = {}  BY DEF Init
  <2> QED  BY <2>1 DEF ReadInv
<1>4. IInv /\ ReadInv /\ [Next]_vars => ReadInv'  BY ReadNext
<1>5. IInv /\ ReadInv => EverythingReadOnce  BY ReadOnce
<1> QED  BY <1>1, <1>2, <1>3, <1>4, <1>5, PTL DEF Spec

(***************************************************************************)
(* Sums over finite sets                                                   *)
(***************************************************************************)

\* A set of parts of a finite set has a smallest one: the form of induction over finite sets
\* that needs no predicate as a parameter.
LEMMA SmallestPart ==
  ASSUME NEW S, IsFiniteSet(S), NEW X \in SUBSET (SUBSET S), X # {}
  PROVE  \E T \in X : \A U \in X : U \subseteq T => U = T
<1>1. IsWellFoundedOn(StrictSubsetOrdering(S), SUBSET S)
  BY FS_StrictSubsetOrderingWellFounded, FS_FiniteSubsetsOfFinite
<1>2. PICK T \in X : \A U \in X : ~ (<<U, T>> \in StrictSubsetOrdering(S))
  BY <1>1, WFMin
<1>3. \A U \in X : U \subseteq T => U = T
  BY <1>2 DEF StrictSubsetOrdering
<1> QED  BY <1>3

\* The element that a sum over s begins with.
One(s) == CHOOSE x \in s : TRUE

\* f gives the sum of g over each part of S.
Sums(f, g, S) ==
  \A s \in SUBSET S : f[s] = IF s = {} THEN 0 ELSE g[One(s)] + f[s \ {One(s)}]

\* It is an element.
LEMMA OneIsIn == ASSUME NEW s, s # {} PROVE One(s) \in s
BY DEF One

\* Sums over a set agree on the parts that both are defined on.
LEMMA SumsAgree ==
  ASSUME NEW S, IsFiniteSet(S), NEW T \in SUBSET S, NEW g, NEW f, NEW h,
         Sums(f, g, S), Sums(h, g, T)
  PROVE  \A s \in SUBSET T : f[s] = h[s]
<1> DEFINE X == {s \in SUBSET T : f[s] # h[s]}
<1> SUFFICES ASSUME X # {} PROVE FALSE  OBVIOUS
<1>0. X \in SUBSET (SUBSET S)  OBVIOUS
<1>1. PICK s \in X : \A u \in X : u \subseteq s => u = s
  <2> HIDE DEF X
  <2> QED  BY <1>0, SmallestPart
<1>2. s \in SUBSET T /\ s \in SUBSET S /\ f[s] # h[s]  BY <1>1
<1>3. s # {}  BY <1>2 DEF Sums
<1>4. s \ {One(s)} \subseteq s /\ s \ {One(s)} # s /\ s \ {One(s)} \in SUBSET T
  BY <1>2, <1>3, OneIsIn
<1>5. f[s \ {One(s)}] = h[s \ {One(s)}]  BY <1>1, <1>4
<1> QED  BY <1>2, <1>3, <1>5 DEF Sums

\* Every finite set has its sums: a smallest set without would have them from its parts.
LEMMA SumsExist ==
  ASSUME NEW S, IsFiniteSet(S), NEW g
  PROVE  \E f : Sums(f, g, S)
<1> DEFINE X == {T \in SUBSET S : ~ \E f : Sums(f, g, T)}
<1> SUFFICES ASSUME X # {} PROVE FALSE  OBVIOUS
<1>0. X \in SUBSET (SUBSET S)  OBVIOUS
<1>1. PICK T \in X : \A U \in X : U \subseteq T => U = T
  <2> HIDE DEF X
  <2> QED  BY <1>0, SmallestPart
<1>2. T \in SUBSET S /\ ~ \E f : Sums(f, g, T)  BY <1>1
<1> DEFINE F(s) == CHOOSE f : Sums(f, g, s)
           G(s) == F(s)[s]
           f == [s \in SUBSET T |->
                  IF s = {} THEN 0 ELSE g[One(s)] + G(s \ {One(s)})]
<1>3. ASSUME NEW s \in SUBSET T, s # T PROVE Sums(F(s), g, s)
  BY <1>1, <1>2, <1>3
<1>4. ASSUME NEW s \in SUBSET T, s # T PROVE f[s] = G(s)
  <2>1. Sums(F(s), g, s)  BY <1>3, <1>4
  <2>2. CASE s = {}  BY <2>1, <2>2 DEF Sums
  <2>3. CASE s # {}
    <3>1. One(s) \in s /\ s \ {One(s)} \in SUBSET s  BY <2>3, OneIsIn
    <3>2. s \ {One(s)} \in SUBSET T /\ s \ {One(s)} # T  BY <3>1, <1>4
    <3>3. Sums(F(s \ {One(s)}), g, s \ {One(s)})  BY <3>2, <1>3
    <3>4. IsFiniteSet(s)  BY <1>2, FS_Subset
    <3>5. F(s)[s \ {One(s)}] = G(s \ {One(s)})
      <4> HIDE DEF F
      <4> QED  BY <2>1, <3>1, <3>3, <3>4, SumsAgree
    <3>6. F(s)[s] = g[One(s)] + F(s)[s \ {One(s)}]
      <4> HIDE DEF F
      <4> QED  BY <2>1, <2>3 DEF Sums
    <3> QED  BY <2>3, <3>5, <3>6
  <2> QED  BY <2>2, <2>3
<1>5. Sums(f, g, T)
  <2>1. ASSUME NEW s \in SUBSET T, s # {} PROVE f[s \ {One(s)}] = G(s \ {One(s)})
    <3>1. s \ {One(s)} \in SUBSET T /\ s \ {One(s)} # T  BY <2>1, OneIsIn
    <3> QED  BY <3>1, <1>4
  <2> HIDE DEF G
  <2>2. \A s \in SUBSET T : f[s] = IF s = {} THEN 0 ELSE g[One(s)] + G(s \ {One(s)})
    OBVIOUS
  <2> HIDE DEF f
  <2> QED  BY <2>1, <2>2 DEF Sums
<1> QED  BY <1>2, <1>5

\* The sum of naturals is one.
LEMMA SumsAreNaturals ==
  ASSUME NEW S, IsFiniteSet(S), NEW g, NEW f, Sums(f, g, S), \A x \in S : g[x] \in Nat
  PROVE  \A s \in SUBSET S : f[s] \in Nat
<1> DEFINE X == {s \in SUBSET S : f[s] \notin Nat}
<1> SUFFICES ASSUME X # {} PROVE FALSE  OBVIOUS
<1>0. X \in SUBSET (SUBSET S)  OBVIOUS
<1>1. PICK s \in X : \A u \in X : u \subseteq s => u = s
  <2> HIDE DEF X
  <2> QED  BY <1>0, SmallestPart
<1>2. s \in SUBSET S /\ f[s] \notin Nat  BY <1>1
<1>3. s # {}
  <2>1. f[{}] = 0  BY DEF Sums
  <2>2. f[{}] \in Nat  BY <2>1
  <2> QED  BY <1>2, <2>2
<1>4. /\ One(s) \in S /\ s \ {One(s)} \subseteq s /\ s \ {One(s)} # s
      /\ s \ {One(s)} \in SUBSET S
  BY <1>2, <1>3, OneIsIn
<1>5. f[s \ {One(s)}] \in Nat  BY <1>1, <1>4
<1>6. f[s] = g[One(s)] + f[s \ {One(s)}]  BY <1>2, <1>3 DEF Sums
<1>7. g[One(s)] \in Nat  BY <1>4
<1> QED  BY <1>2, <1>5, <1>6, <1>7

\* The elements of the sets P[x].
AllOf(P, s) == UNION {P[x] : x \in s}

\* Elements of sets that do not overlap are counted set by set.
LEMMA CountedByParts ==
  ASSUME NEW S, IsFiniteSet(S), NEW g, NEW f, Sums(f, g, S), NEW P,
         \A x \in S : IsFiniteSet(P[x]) /\ g[x] = Cardinality(P[x]),
         \A x, y \in S : x # y => P[x] \cap P[y] = {}
  PROVE  \A s \in SUBSET S :
           IsFiniteSet(AllOf(P, s)) /\ f[s] = Cardinality(AllOf(P, s))
<1> DEFINE All(s) == AllOf(P, s)
           Good(s) == IsFiniteSet(All(s)) /\ f[s] = Cardinality(All(s))
           X == {s \in SUBSET S : ~Good(s)}
<1> SUFFICES ASSUME X # {} PROVE FALSE  OBVIOUS
<1>0. X \in SUBSET (SUBSET S)  OBVIOUS
<1>1. PICK s \in X : \A u \in X : u \subseteq s => u = s
  <2> HIDE DEF X
  <2> QED  BY <1>0, SmallestPart
<1>2. s \in SUBSET S /\ ~Good(s)  BY <1>1
<1>3. s # {}
  <2>1. All({}) = {}  BY DEF AllOf
  <2>2. f[{}] = 0  BY DEF Sums
  <2>3. Good({})  BY <2>1, <2>2, FS_EmptySet
  <2> QED  BY <1>2, <2>3
<1> DEFINE x == One(s)
           rest == s \ {x}
<1>4. x \in s /\ x \in S /\ rest \subseteq s /\ rest # s /\ rest \in SUBSET S
  BY <1>2, <1>3, OneIsIn
<1>5. Good(rest)
  <2> HIDE DEF Good
  <2> QED  BY <1>1, <1>4
<1>6. All(s) = P[x] \cup All(rest) /\ P[x] \cap All(rest) = {}
  <2>1. s = rest \cup {x} /\ x \notin rest  BY <1>4
  <2>2. \A y \in rest : P[x] \cap P[y] = {}  BY <1>4, <2>1
  <2> HIDE DEF x, rest
  <2> QED  BY <2>1, <2>2 DEF AllOf
<1>7. f[s] = Cardinality(P[x]) + f[rest]  BY <1>2, <1>3, <1>4 DEF Sums
<1>8. IsFiniteSet(P[x]) /\ IsFiniteSet(All(rest))  BY <1>4, <1>5
<1>9. Good(s)
  <2> HIDE DEF x, rest, All
  <2>1. /\ IsFiniteSet(All(s))
        /\ Cardinality(All(s))
             = Cardinality(P[x]) + Cardinality(All(rest)) - Cardinality(P[x] \cap All(rest))
    BY <1>6, <1>8, FS_Union
  <2>2. Cardinality(P[x] \cap All(rest)) = 0  BY <1>6, FS_EmptySet
  <2>3. Cardinality(P[x]) \in Nat /\ Cardinality(All(rest)) \in Nat  BY <1>8, FS_CardinalityType
  <2> QED  BY <1>5, <1>7, <2>1, <2>2, <2>3
<1> QED  BY <1>2, <1>9

\* The sum over a function is one of its Sums.
LEMMA SumIsOne ==
  ASSUME NEW g, IsFiniteSet(DOMAIN g)
  PROVE  \E f : Sums(f, g, DOMAIN g) /\ SumFunction(g) = f[DOMAIN g]
<1> DEFINE S == DOMAIN g
           iter[s \in SUBSET S] ==
             IF s = {} THEN 0 ELSE LET x == CHOOSE x \in s : TRUE IN g[x] + iter[s \ {x}]
           Body(h) == [s \in SUBSET S |->
             IF s = {} THEN 0 ELSE LET x == CHOOSE x \in s : TRUE IN g[x] + h[s \ {x}]]
<1>1. SumFunction(g) = iter[S]
  BY DEF SumFunction, SumFunctionOnSet, FoldFunctionOnSet, MapThenFoldSet
<1>2. PICK f : Sums(f, g, S)  BY SumsExist
<1>3. \E h : h = Body(h)
  <2> DEFINE h == [s \in SUBSET S |-> f[s]]
  <2>1. ASSUME NEW s \in SUBSET S
        PROVE  h[s] = IF s = {} THEN 0 ELSE g[One(s)] + h[s \ {One(s)}]
    BY <1>2 DEF Sums
  <2>2. h = Body(h)  BY <2>1 DEF One
  <2> QED  BY <2>2
<1>4. iter = CHOOSE h : h = Body(h)  OBVIOUS
<1>5. iter = Body(iter)
  <2> HIDE DEF iter, Body
  <2> QED  BY <1>3, <1>4
<1> HIDE DEF iter
<1>6. ASSUME NEW s \in SUBSET S
      PROVE  iter[s] = IF s = {} THEN 0 ELSE g[One(s)] + iter[s \ {One(s)}]
  BY <1>5 DEF One
<1>7. Sums(iter, g, S)  BY <1>6 DEF Sums
<1> QED  BY <1>1, <1>7

\* So the sum of a function to the naturals is a natural, ...
LEMMA SumIsNatural ==
  ASSUME NEW g, IsFiniteSet(DOMAIN g), \A x \in DOMAIN g : g[x] \in Nat
  PROVE  SumFunction(g) \in Nat
<1>1. PICK f : Sums(f, g, DOMAIN g) /\ SumFunction(g) = f[DOMAIN g]  BY SumIsOne
<1> QED  BY <1>1, SumsAreNaturals

\* ... and the sum of the sizes of disjoint sets is the size of their union.
LEMMA SumCounts ==
  ASSUME NEW g, IsFiniteSet(DOMAIN g), NEW P,
         \A x \in DOMAIN g : IsFiniteSet(P[x]) /\ g[x] = Cardinality(P[x]),
         \A x, y \in DOMAIN g : x # y => P[x] \cap P[y] = {}
  PROVE  /\ IsFiniteSet(AllOf(P, DOMAIN g))
         /\ SumFunction(g) = Cardinality(AllOf(P, DOMAIN g))
<1>1. PICK f : Sums(f, g, DOMAIN g) /\ SumFunction(g) = f[DOMAIN g]  BY SumIsOne
<1>2. \A s \in SUBSET DOMAIN g : IsFiniteSet(AllOf(P, s)) /\ f[s] = Cardinality(AllOf(P, s))
  BY <1>1, CountedByParts
<1> QED  BY <1>1, <1>2

(***************************************************************************)
(* Types                                                                   *)
(***************************************************************************)

\* The largest number of instances is one of them.
LEMMA LargestCount ==
  Max(Counts) \in Counts /\ \A n \in Counts : Max(Counts) >= n
<1> DEFINE Best(S) == \E x \in S : \A y \in S : x >= y
           X == {S \in SUBSET Counts : S # {} /\ ~Best(S)}
<1>1. X = {}
  <2> SUFFICES ASSUME X # {} PROVE FALSE  OBVIOUS
  <2>0. IsFiniteSet(Counts)  BY WorkAssumption DEF WorkAssumption
  <2>1. X \in SUBSET (SUBSET Counts)  OBVIOUS
  <2>2. PICK S \in X : \A U \in X : U \subseteq S => U = S
    <3> HIDE DEF X
    <3> QED  BY <2>0, <2>1, SmallestPart
  <2>3. S \subseteq Nat /\ S \subseteq Counts /\ S # {} /\ ~Best(S)
    BY <2>2, WorkAssumption DEF WorkAssumption
  <2>4. PICK a \in S : TRUE  BY <2>3
  <2>5. S \ {a} \notin X  BY <2>2, <2>4
  <2>6. CASE S \ {a} = {}  BY <2>3, <2>4, <2>6
  <2>7. CASE S \ {a} # {}
    <3>1. PICK b \in S \ {a} : \A y \in S \ {a} : b >= y  BY <2>3, <2>5, <2>7
    <3>2. \E x \in {a, b} : \A y \in S : x >= y  BY <2>3, <3>1
    <3> QED  BY <2>3, <3>1, <3>2
  <2> QED  BY <2>6, <2>7
<1>2. Best(Counts)
  <2>1. Counts \in SUBSET Counts /\ Counts # {}  BY WorkAssumption DEF WorkAssumption
  <2> HIDE DEF Best
  <2> QED  BY <1>1, <2>1
<1> QED  BY <1>2 DEF Max

\* A scanner counts a natural number of lines.
LEMMA LinesAreNatural ==
  ASSUME NEW text \in Seq({"x", "newline"}), NEW range \in [first : Nat, last : Int]
  PROVE  LinesIn(text, range) \in Nat
<1> DEFINE last == MinOf(range.last, Len(text) - 1)
           newlines == {k \in range.first..last : Byte(text, k) = "newline"}
<1>1. range.first \in Int /\ last \in Int  BY DEF MinOf
<1>2. IsFiniteSet(range.first..last)
  <2> HIDE DEF last
  <2> QED  BY <1>1, FS_Interval
<1>3. IsFiniteSet(newlines)
  <2>1. newlines \in SUBSET (range.first..last)  OBVIOUS
  <2> HIDE DEF newlines, last
  <2> QED  BY <1>2, <2>1, FS_Subset
<1>4. Cardinality(newlines) \in Nat  BY <1>3, FS_CardinalityType
<1>5. LinesIn(text, range)
        = IF last < range.first THEN 0
          ELSE Cardinality(newlines) + (IF last \in newlines THEN 0 ELSE 1)
  BY DEF LinesIn
<1> HIDE DEF newlines, last
<1> QED  BY <1>4, <1>5

\* The records are finitely many, as are their bytes.
LEMMA RecordsAreFinite ==
  ASSUME NEW text \in Seq({"x", "newline"}), NEW range
  PROVE  LET records == RecordsOf(text, range)
         IN  /\ records \subseteq Nat /\ Cardinality(records) \in Nat
             /\ SumFunction([k \in records |-> Cardinality(RecordBytes(text, k))]) \in Nat
<1> DEFINE records == RecordsOf(text, range)
           g == [k \in records |-> Cardinality(RecordBytes(text, k))]
<1>1. Len(text) \in Nat /\ Len(text) - 1 \in Int  OBVIOUS
<1>2. records \subseteq 0..(Len(text) - 1)  BY DEF RecordsOf, extractSemanticRecords
<1>3. IsFiniteSet(records)
  <2>1. IsFiniteSet(0..(Len(text) - 1))  BY <1>1, FS_Interval
  <2> QED  BY <1>2, <2>1, FS_Subset
<1>4. ASSUME NEW k \in records PROVE g[k] \in Nat
  <2>1. k \in Int  BY <1>2
  <2>2. IsFiniteSet(k..(Len(text) - 1))  BY <1>1, <2>1, FS_Interval
  <2>3. RecordBytes(text, k) \in SUBSET (k..(Len(text) - 1))  BY DEF RecordBytes
  <2>4. IsFiniteSet(RecordBytes(text, k))  BY <2>2, <2>3, FS_Subset
  <2> QED  BY <2>4, FS_CardinalityType
<1>5. Cardinality(records) \in Nat  BY <1>3, FS_CardinalityType
<1>6. SumFunction(g) \in Nat
  <2>1. DOMAIN g = records  OBVIOUS
  <2> HIDE DEF g
  <2> QED  BY <1>3, <1>4, <2>1, SumIsNatural
<1> QED  BY <1>2, <1>5, <1>6

\* Before the first submission there is no file.
Typed == TypeOK /\ (IF job.run = 0 THEN DOMAIN files = {} ELSE job.mode \in Modes)

\* A step of one instance.
LEMMA InstanceTyped ==
  ASSUME IInv, Typed, NEW i \in DOMAIN instance, NEW x \in Instance,
         instance' = [instance EXCEPT ![i] = x], Alone, Mishap \/ NoMishap,
         UNCHANGED files \/ WriteFile(i) \/ CutFile(i)
  PROVE  Typed'
<1>1. DOMAIN instance' = DOMAIN instance /\ \A k \in DOMAIN instance : instance'[k] \in Instance
  BY DEF Typed, TypeOK
<1>2. mishaps' \in 0..MaxMishaps
  BY WorkAssumption DEF Typed, TypeOK, Mishap, NoMishap, WorkAssumption
<1>3. DOMAIN files' \subseteq Numbers /\ \A k \in DOMAIN files' : files'[k] \in Metrics
  <2>1. CASE UNCHANGED files  BY <2>1 DEF Typed, TypeOK
  <2>2. CASE WriteFile(i)
    <3>1. instance[i].metrics \in Metrics  BY DEF Typed, TypeOK, Instance
    <3> QED  BY <2>2, <3>1 DEF Typed, TypeOK, WriteFile
  <2>3. CASE CutFile(i)  BY <2>3 DEF Typed, TypeOK, CutFile
  <2> QED  BY <2>1, <2>2, <2>3
<1>4. job.run # 0  BY DEF IInv, Shape
<1> QED
  BY <1>1, <1>2, <1>3, <1>4 DEF Typed, TypeOK, Alone

\* An instance that ends, or counts an attempt.
LEMMA EndsTyped ==
  ASSUME Typed, NEW i \in DOMAIN instance, Fail(i) \/ Retry(i) \/ Goto(i, "done")
  PROVE  \E x \in Instance : instance' = [instance EXCEPT ![i] = x]
<1>1. instance[i] \in Instance /\ MaxRetries \in Nat
  BY WorkAssumption DEF Typed, TypeOK, WorkAssumption
<1>2. ASSUME NEW pc \in {"failed", "done"}, Goto(i, pc)
      PROVE  \E x \in Instance : instance' = [instance EXCEPT ![i] = x]
  <2> DEFINE none == 0
             x == [[instance[i] EXCEPT !.pc = pc] EXCEPT !.attempt = none]
  <2>1. none \in 0..MaxRetries  BY <1>1
  <2>2. instance' = [instance EXCEPT ![i] = x]  BY <1>2 DEF Goto
  <2> HIDE DEF none
  <2>3. x \in Instance  BY <1>1, <2>1 DEF Instance
  <2> HIDE DEF x
  <2> QED  BY <2>2, <2>3
<1>3. ASSUME instance[i].attempt < MaxRetries, instance' = [instance EXCEPT ![i].attempt = @ + 1]
      PROVE  \E x \in Instance : instance' = [instance EXCEPT ![i] = x]
  <2> DEFINE x == [instance[i] EXCEPT !.attempt = @ + 1]
  <2>1. x \in Instance  BY <1>1, <1>3 DEF Instance
  <2>2. instance' = [instance EXCEPT ![i] = x]  BY <1>3
  <2> HIDE DEF x
  <2> QED  BY <2>1, <2>2
<1> QED  BY <1>2, <1>3 DEF Fail, Retry

\* The types, through the steps of an instance, ...
LEMMA WorkTyped ==
  ASSUME IInv, Typed, NEW i \in DOMAIN instance, Process(i) \/ Kill(i)
  PROVE  Typed'
<1>1. /\ instance[i] \in Instance
      /\ input \in Seq({"x", "newline"}) /\ Len(input) \in Nat
      /\ job.size \in Nat /\ job.n \in Nat \ {0} /\ i \in 0..(job.n - 1)
  BY DEF Typed, TypeOK, IInv, Shape
<1>2. CASE ensureInputDataSize(i)
  <2>1. Alone /\ UNCHANGED files /\ (Mishap \/ NoMishap)  BY <1>2 DEF ensureInputDataSize
  <2>2. ASSUME NEW size \in Nat, Chunk(i, Calculate(size, job.n, i)) PROVE Typed'
    <3> DEFINE range == Calculate(size, job.n, i)
               x == [[[instance[i] EXCEPT !.range = range] EXCEPT !.metrics.bytes = Size(range)]
                       EXCEPT !.pc = IF IsEmpty(range) THEN "write" ELSE "open"]
    <3>1. range \in [first : Nat, last : Int]  BY <1>1, RangesAreOfIntegers
    <3>2. instance' = [instance EXCEPT ![i] = x]  BY <2>2 DEF Chunk
    <3> HIDE DEF range
    <3>3. Size(range) \in Nat  BY <3>1 DEF Size
    <3>4. x \in Instance  BY <1>1, <3>1, <3>3 DEF Instance, Metrics
    <3> HIDE DEF x
    <3> QED  BY <2>1, <3>2, <3>4, InstanceTyped
  <2>3. CASE Fail(i)
    <3>1. PICK x \in Instance : instance' = [instance EXCEPT ![i] = x]  BY <2>3, EndsTyped
    <3> QED  BY <2>1, <3>1, InstanceTyped
  <2> QED  BY <1>1, <1>2, <2>2, <2>3 DEF ensureInputDataSize
<1>3. CASE processReader(i)
  <2>1. Alone /\ UNCHANGED files /\ (Mishap \/ NoMishap)  BY <1>3 DEF processReader
  <2>2. CASE Retry(i) \/ Fail(i)
    <3>1. PICK x \in Instance : instance' = [instance EXCEPT ![i] = x]  BY <2>2, EndsTyped
    <3> QED  BY <2>1, <3>1, InstanceTyped
  <2>3. ASSUME ~Retry(i), ~Fail(i) PROVE Typed'
    <3> DEFINE r == instance[i].range
               none == 0
               x == [[[[[instance[i] EXCEPT !.pc = "write"] EXCEPT !.attempt = none]
                         EXCEPT !.read = BytesOf(input, r)]
                         EXCEPT !.metrics.lines = LinesIn(input, r)]
                         EXCEPT !.metrics.records = LinesIn(input, r)]
    <3>1. instance' = [instance EXCEPT ![i] = x]  BY <1>3, <2>3 DEF processReader
    <3>2. r \in [first : Nat, last : Int] /\ none \in 0..MaxRetries
      BY <1>1, WorkAssumption DEF Instance, WorkAssumption
    <3> HIDE DEF r, none
    <3>3. BytesOf(input, r) \in SUBSET Nat  BY <3>2 DEF BytesOf
    <3>4. LinesIn(input, r) \in Nat  BY <1>1, <3>2, LinesAreNatural
    <3>5. x \in Instance  BY <1>1, <3>2, <3>3, <3>4 DEF Instance, Metrics
    <3> HIDE DEF x
    <3> QED  BY <2>1, <3>1, <3>5, InstanceTyped
  <2> QED  BY <2>2, <2>3
<1>4. CASE processRecords(i)
  <2>1. Alone /\ UNCHANGED files /\ (Mishap \/ NoMishap)  BY <1>4 DEF processRecords
  <2>2. CASE Fail(i)
    <3>1. PICK x \in Instance : instance' = [instance EXCEPT ![i] = x]  BY <2>2, EndsTyped
    <3> QED  BY <2>1, <3>1, InstanceTyped
  <2>3. ASSUME ~Fail(i) PROVE Typed'
    <3> DEFINE count == Cardinality(extractSemanticRecords(input))
               range == Calculate(count, job.n, i)
               records == RecordsOf(input, range)
               metrics == [lines |-> Cardinality(records), records |-> Cardinality(records),
                  bytes |-> SumFunction([k \in records |-> Cardinality(RecordBytes(input, k))])]
               x == [[[[instance[i] EXCEPT !.pc = "write"] EXCEPT !.range = range]
                         EXCEPT !.read = records] EXCEPT !.metrics = metrics]
    <3>1. instance' = [instance EXCEPT ![i].pc = "write", ![i].range = range,
                         ![i].read = records, ![i].metrics = metrics]
      BY <1>4, <2>3 DEF processRecords
    <3>2. count \in Nat  BY <1>1, RecordsAreNumbered
    <3> HIDE DEF count
    <3>3. range \in [first : Nat, last : Int]  BY <1>1, <3>2, RangesAreOfIntegers
    <3> HIDE DEF range
    <3>4. records \in SUBSET Nat /\ metrics \in Metrics  BY <1>1, RecordsAreFinite DEF Metrics
    <3> HIDE DEF records, metrics
    <3>5. instance' = [instance EXCEPT ![i] = x]  BY <3>1
    <3>6. x \in Instance  BY <1>1, <3>3, <3>4 DEF Instance
    <3> HIDE DEF x
    <3> QED  BY <2>1, <3>5, <3>6, InstanceTyped
  <2> QED  BY <2>2, <2>3
<1>5. CASE WriteMetrics(i)
  <2>1. /\ Alone /\ (Mishap \/ NoMishap)
        /\ UNCHANGED files \/ WriteFile(i) \/ CutFile(i)
        /\ Retry(i) \/ Fail(i) \/ Goto(i, "done")
    BY <1>5 DEF WriteMetrics
  <2>2. PICK x \in Instance : instance' = [instance EXCEPT ![i] = x]  BY <2>1, EndsTyped
  <2> QED  BY <2>1, <2>2, InstanceTyped
<1>6. CASE Kill(i)
  <2>1. Alone /\ UNCHANGED files /\ Mishap /\ Fail(i)  BY <1>6 DEF Kill, Fail
  <2>2. PICK x \in Instance : instance' = [instance EXCEPT ![i] = x]  BY <2>1, EndsTyped
  <2> QED  BY <2>1, <2>2, InstanceTyped
<1> QED  BY <1>2, <1>3, <1>4, <1>5, <1>6 DEF Process

\* ... of a submission, ...
LEMMA SubmitTyped ==
  ASSUME IInv, Typed, NEW n \in Counts, NEW m \in Modes, NEW size \in Nat, Submit(n, m, size)
  PROVE  Typed'
<1>1. /\ n \in Nat \ {0} /\ Max(Counts) \in Nat /\ Max(Counts) >= n
      /\ MaxRuns \in Nat /\ MaxRetries \in Nat
  BY WorkAssumption, LargestCount DEF WorkAssumption
<1>2. 0..(n - 1) \subseteq Numbers  BY <1>1 DEF Numbers
<1>3. job' \in [run : 0..MaxRuns, n : Counts, mode : Modes \cup {"RECORD"}, size : Nat]
      /\ job'.run # 0
  BY <1>1 DEF Submit, Typed, TypeOK
<1>4. ASSUME NEW i \in 0..(n - 1) PROVE instance'[i] \in Instance
  BY <1>1 DEF Submit, Instance, Metrics, NoMetrics, NoRange
<1>5. DOMAIN instance' = 0..(n - 1)  BY DEF Submit
<1> QED  BY <1>2, <1>3, <1>4, <1>5 DEF Submit, Typed, TypeOK

\* ... and of the aggregator, whose totals are sums.
LEMMA AggregateTyped ==
  ASSUME IInv, Typed, NEW unread, aggregate(unread)
  PROVE  Typed'
<1> DEFINE found == DOMAIN files \ unread
           total == [f \in DOMAIN NoMetrics |-> Total(f, found)]
<1>1. mishaps' \in 0..MaxMishaps
  BY WorkAssumption DEF Typed, TypeOK, aggregate, Mishap, NoMishap, WorkAssumption
<1>2. CASE found = {}
  <2>1. report' = [pc |-> "failed"]  BY <1>2 DEF aggregate
  <2> QED  BY <1>1, <2>1 DEF Typed, TypeOK, aggregate
<1>3. CASE found # {}
  <2>1. IsFiniteSet(found)
    <3>1. Max(Counts) \in Nat  BY LargestCount, WorkAssumption DEF WorkAssumption
    <3>2. IsFiniteSet(0..(Max(Counts) - 1))
      <4> DEFINE top == Max(Counts) - 1
      <4>1. 0 \in Int /\ top \in Int  BY <3>1
      <4> HIDE DEF top
      <4>2. IsFiniteSet(0..top)  BY <4>1, FS_Interval
      <4> QED  BY <4>2 DEF top
    <3>3. found \in SUBSET (0..(Max(Counts) - 1))  BY DEF Typed, TypeOK, Numbers
    <3> QED  BY <3>2, <3>3, FS_Subset
  <2>2. ASSUME NEW f \in {"bytes", "lines", "records"} PROVE Total(f, found) \in Nat
    <3> DEFINE g == [i \in found |-> files[i][f]]
    <3>1. \A i \in found : g[i] \in Nat  BY DEF Typed, TypeOK, Metrics
    <3>2. DOMAIN g = found  OBVIOUS
    <3>3. Total(f, found) = SumFunction(g)  BY DEF Total
    <3> HIDE DEF g, found
    <3> QED  BY <2>1, <3>1, <3>2, <3>3, SumIsNatural
  <2>3. total \in Metrics
    <3>1. DOMAIN NoMetrics = {"bytes", "lines", "records"}  BY DEF NoMetrics
    <3> HIDE DEF found
    <3> QED  BY <2>2, <3>1 DEF Metrics
  <2>4. job.mode \in Modes
    <3>1. job.run # 0  BY <1>3 DEF Typed
    <3> QED  BY <3>1 DEF Typed
  <2>5. report' \in [pc : {"printed"}, total : Metrics, whole : BOOLEAN, mode : Modes, text : Inputs]
    <3> DEFINE whole == AllDone /\ ~replaced /\ ~stale /\ unread = {} /\ job.size \in {0, Len(input)}
    <3>1. report' = [pc |-> "printed", mode |-> job.mode, text |-> input, total |-> total,
                     whole |-> whole]
      BY <1>3 DEF aggregate
    <3>2. whole \in BOOLEAN /\ input \in Inputs  BY DEF Typed, TypeOK
    <3> HIDE DEF whole, total
    <3> QED  BY <2>3, <2>4, <3>1, <3>2
  <2> QED  BY <1>1, <2>5 DEF Typed, TypeOK, aggregate
<1> QED  BY <1>2, <1>3

(***************************************************************************)
(* What is counted and written                                             *)
(***************************************************************************)

\* An instance has counted what it has read.
HasMeasured(x) ==
  IF job.mode = "RECORD"
  THEN Whole /\ x.pc \in {"write", "done"} => x.metrics.records = Cardinality(x.read)
  ELSE /\ x.pc \in {"size", "open"} => x.metrics.lines = 0
       /\ x.pc \in {"open", "write", "done"} => x.metrics.bytes = Size(x.range)
       /\ Whole /\ x.pc \in {"write", "done"} => x.metrics.lines = LinesIn(input, x.range)

\* An instance that is done has its file, and there are no others unless they are stale.
FileInv ==
  /\ \A i \in DOMAIN instance :
       /\ HasMeasured(instance[i])
       /\ At(i, "done") => i \in DOMAIN files /\ files[i] = instance[i].metrics
  /\ IF job.run = 0 THEN DOMAIN files = {} ELSE stale \/ DOMAIN files \subseteq DOMAIN instance

\* A step of one instance, that writes its file, cuts it or leaves it alone.
LEMMA InstanceFiled ==
  ASSUME IInv, FileInv, NEW i \in DOMAIN instance, NEW x,
         instance' = [instance EXCEPT ![i] = x], Alone, HasMeasured(x), ~At(i, "done"),
         \/ (UNCHANGED files \/ WriteFile(i) \/ CutFile(i)) /\ x.pc # "done"
         \/ WriteFile(i) /\ x.metrics = instance[i].metrics
  PROVE  FileInv'
<1>1. Whole' = Whole /\ DOMAIN instance' = DOMAIN instance /\ UNCHANGED <<input, job, stale>>
  BY DEF Whole, Alone
<1>2. instance'[i] = x /\ \A k \in DOMAIN instance \ {i} : instance'[k] = instance[k]
  OBVIOUS
<1>3. ASSUME NEW k \in DOMAIN instance PROVE HasMeasured(instance[k])'
  <2>1. HasMeasured(instance'[k])  BY <1>2 DEF FileInv
  <2> QED  BY <1>1, <2>1 DEF HasMeasured
<1>4. \A k \in DOMAIN files : k # i => k \in DOMAIN files' /\ files'[k] = files[k]
  BY DEF WriteFile, CutFile
<1>5. ASSUME NEW k \in DOMAIN instance, At(k, "done")'
      PROVE  k \in DOMAIN files' /\ files'[k] = instance'[k].metrics
  <2>1. CASE k = i
    <3>1. WriteFile(i) /\ x.metrics = instance[i].metrics  BY <1>2, <1>5, <2>1 DEF At
    <3> QED  BY <1>2, <2>1, <3>1 DEF WriteFile
  <2>2. CASE k # i  BY <1>2, <1>4, <1>5, <2>2 DEF FileInv, At
  <2> QED  BY <2>1, <2>2
<1>6. DOMAIN files' \subseteq DOMAIN files \cup {i}  BY DEF WriteFile, CutFile
<1>7. job.run # 0  BY DEF IInv, Shape
<1> QED  BY <1>1, <1>3, <1>5, <1>6, <1>7 DEF FileInv

\* An instance that ends has counted what it had counted, ...
LEMMA MeasuredAtEnd ==
  ASSUME IInv, FileInv, NEW i \in DOMAIN instance, NEW pc \in {"failed", "done"}, Goto(i, pc),
         pc = "done" => At(i, "write")
  PROVE  \E x : /\ instance' = [instance EXCEPT ![i] = x] /\ HasMeasured(x)
                /\ x.metrics = instance[i].metrics /\ x.pc = pc
<1> DEFINE x == [[instance[i] EXCEPT !.pc = pc] EXCEPT !.attempt = 0]
<1>1. DOMAIN instance[i] = Fields /\ HasMeasured(instance[i])  BY DEF IInv, Shape, FileInv
<1>2. instance' = [instance EXCEPT ![i] = x]  BY DEF Goto
<1>3. /\ x.pc = pc /\ x.metrics = instance[i].metrics
      /\ x.read = instance[i].read /\ x.range = instance[i].range
  BY <1>1 DEF Fields
<1> HIDE DEF x
<1>4. HasMeasured(x)  BY <1>1, <1>3 DEF HasMeasured, At
<1> QED  BY <1>2, <1>3, <1>4

\* ... as has one that fails or counts an attempt.
LEMMA MeasuredOnRetry ==
  ASSUME IInv, FileInv, NEW i \in DOMAIN instance, ~At(i, "done"), Fail(i) \/ Retry(i)
  PROVE  \E x : instance' = [instance EXCEPT ![i] = x] /\ HasMeasured(x) /\ x.pc # "done"
<1>1. CASE Fail(i)  BY <1>1, MeasuredAtEnd DEF Fail
<1>2. ASSUME instance' = [instance EXCEPT ![i].attempt = @ + 1]
      PROVE  \E x : instance' = [instance EXCEPT ![i] = x] /\ HasMeasured(x) /\ x.pc # "done"
  <2> DEFINE x == [instance[i] EXCEPT !.attempt = @ + 1]
  <2>1. DOMAIN instance[i] = Fields /\ HasMeasured(instance[i])  BY DEF IInv, Shape, FileInv
  <2>2. instance' = [instance EXCEPT ![i] = x]  BY <1>2
  <2>3. /\ x.pc = instance[i].pc /\ x.metrics = instance[i].metrics
        /\ x.read = instance[i].read /\ x.range = instance[i].range
    BY <2>1 DEF Fields
  <2> HIDE DEF x
  <2>4. HasMeasured(x) /\ x.pc # "done"  BY <2>1, <2>3 DEF HasMeasured, At
  <2> QED  BY <2>2, <2>4
<1> QED  BY <1>1, <1>2 DEF Retry

\* An empty range has no lines.
LEMMA NoLines ==
  ASSUME NEW text \in Seq({"x", "newline"}), NEW range \in [first : Nat, last : Int], IsEmpty(range)
  PROVE  LinesIn(text, range) = 0
<1> DEFINE last == MinOf(range.last, Len(text) - 1)
<1>1. last < range.first  BY DEF MinOf, IsEmpty
<1> HIDE DEF last
<1> QED  BY <1>1 DEF LinesIn, last

\* What is counted and written, through the steps of an instance ...
LEMMA WorkFiled ==
  ASSUME IInv, Typed, ReadInv, FileInv, NEW i \in DOMAIN instance, Process(i) \/ Kill(i)
  PROVE  FileInv'
<1>1. /\ instance[i] \in Instance /\ DOMAIN instance[i] = Fields
      /\ input \in Seq({"x", "newline"}) /\ Len(input) \in Nat
      /\ job.size \in Nat /\ job.n \in Nat \ {0} /\ i \in 0..(job.n - 1)
      /\ HasMeasured(instance[i])
  BY DEF Typed, TypeOK, IInv, Shape, FileInv
<1>2. CASE ensureInputDataSize(i)
  <2>1. Alone /\ UNCHANGED files /\ At(i, "size") /\ job.mode # "RECORD"
    BY <1>2 DEF ensureInputDataSize, ReadInv, HasRead
  <2>2. ASSUME NEW size \in Nat, Chunk(i, Calculate(size, job.n, i)) PROVE FileInv'
    <3> DEFINE range == Calculate(size, job.n, i)
               x == [[[instance[i] EXCEPT !.range = range] EXCEPT !.metrics.bytes = Size(range)]
                       EXCEPT !.pc = IF IsEmpty(range) THEN "write" ELSE "open"]
    <3>1. range \in [first : Nat, last : Int]  BY <1>1, RangesAreOfIntegers
    <3>2. instance' = [instance EXCEPT ![i] = x]  BY <2>2 DEF Chunk
    <3> HIDE DEF range
    <3>3. /\ x.pc = (IF IsEmpty(range) THEN "write" ELSE "open") /\ x.range = range
          /\ x.metrics.bytes = Size(range) /\ x.metrics.lines = instance[i].metrics.lines
      BY <1>1 DEF Fields, Instance, Metrics
    <3> HIDE DEF x
    <3>4. x.metrics.lines = 0  BY <1>1, <2>1, <3>3 DEF HasMeasured, At
    <3>5. IsEmpty(range) => LinesIn(input, range) = 0  BY <1>1, <3>1, NoLines
    <3>6. HasMeasured(x) /\ x.pc # "done"  BY <2>1, <3>3, <3>4, <3>5 DEF HasMeasured
    <3> QED  BY <2>1, <3>2, <3>6, InstanceFiled DEF At
  <2>3. CASE Fail(i)
    <3>1. PICK x : instance' = [instance EXCEPT ![i] = x] /\ HasMeasured(x) /\ x.pc # "done"
      BY <2>1, <2>3, MeasuredOnRetry DEF At
    <3> QED  BY <2>1, <3>1, InstanceFiled DEF At
  <2> QED  BY <1>1, <1>2, <2>2, <2>3 DEF ensureInputDataSize
<1>3. CASE processReader(i)
  <2>1. Alone /\ UNCHANGED files /\ At(i, "open") /\ job.mode # "RECORD"
    BY <1>3 DEF processReader
  <2>2. CASE Retry(i) \/ Fail(i)
    <3>1. PICK x : instance' = [instance EXCEPT ![i] = x] /\ HasMeasured(x) /\ x.pc # "done"
      BY <2>1, <2>2, MeasuredOnRetry DEF At
    <3> QED  BY <2>1, <3>1, InstanceFiled DEF At
  <2>3. ASSUME ~Retry(i), ~Fail(i) PROVE FileInv'
    <3> DEFINE r == instance[i].range
               x == [[[[[instance[i] EXCEPT !.pc = "write"] EXCEPT !.attempt = 0]
                         EXCEPT !.read = BytesOf(input, r)]
                         EXCEPT !.metrics.lines = LinesIn(input, r)]
                         EXCEPT !.metrics.records = LinesIn(input, r)]
    <3>1. instance' = [instance EXCEPT ![i] = x]  BY <1>3, <2>3 DEF processReader
    <3> HIDE DEF r
    <3>2. /\ x.pc = "write" /\ x.range = instance[i].range
          /\ x.metrics.bytes = instance[i].metrics.bytes /\ x.metrics.lines = LinesIn(input, r)
      BY <1>1 DEF Fields, Instance, Metrics
    <3> HIDE DEF x
    <3>3. HasMeasured(x)  BY <1>1, <2>1, <3>2 DEF HasMeasured, At, r
    <3> QED  BY <2>1, <3>1, <3>2, <3>3, InstanceFiled DEF At
  <2> QED  BY <2>2, <2>3
<1>4. CASE processRecords(i)
  <2>1. Alone /\ UNCHANGED files /\ At(i, "open") /\ job.mode = "RECORD"
    BY <1>4 DEF processRecords
  <2>2. CASE Fail(i)
    <3>1. PICK x : instance' = [instance EXCEPT ![i] = x] /\ HasMeasured(x) /\ x.pc # "done"
      BY <2>1, <2>2, MeasuredOnRetry DEF At
    <3> QED  BY <2>1, <3>1, InstanceFiled DEF At
  <2>3. ASSUME ~Fail(i) PROVE FileInv'
    <3> DEFINE range == Calculate(Cardinality(extractSemanticRecords(input)), job.n, i)
               records == RecordsOf(input, range)
               bytes == SumFunction([k \in records |-> Cardinality(RecordBytes(input, k))])
               count == Cardinality(records)
               metrics == [lines |-> count, records |-> count, bytes |-> bytes]
               x == [[[[instance[i] EXCEPT !.pc = "write"] EXCEPT !.range = range]
                         EXCEPT !.read = records] EXCEPT !.metrics = metrics]
    <3>1. instance' = [instance EXCEPT ![i].pc = "write", ![i].range = range,
                         ![i].read = records, ![i].metrics = metrics]
      BY <1>4, <2>3 DEF processRecords
    <3> HIDE DEF range, records, bytes
    <3>2. instance' = [instance EXCEPT ![i] = x]  BY <3>1
    <3>3. x.pc = "write" /\ x.read = records /\ x.metrics.records = count  BY <1>1 DEF Fields
    <3> HIDE DEF x
    <3>4. HasMeasured(x)  BY <2>1, <3>3 DEF HasMeasured
    <3> QED  BY <2>1, <3>2, <3>3, <3>4, InstanceFiled DEF At
  <2> QED  BY <2>2, <2>3
<1>5. CASE WriteMetrics(i)
  <2>1. /\ Alone /\ At(i, "write")
        /\ \/ WriteFile(i) /\ Goto(i, "done")
           \/ (Retry(i) \/ Fail(i)) /\ (UNCHANGED files \/ WriteFile(i) \/ CutFile(i))
    BY <1>5 DEF WriteMetrics
  <2>2. CASE WriteFile(i) /\ Goto(i, "done")
    <3>1. PICK x : /\ instance' = [instance EXCEPT ![i] = x] /\ HasMeasured(x)
                   /\ x.metrics = instance[i].metrics
      BY <2>1, <2>2, MeasuredAtEnd
    <3> QED  BY <2>1, <2>2, <3>1, InstanceFiled DEF At
  <2>3. CASE (Retry(i) \/ Fail(i)) /\ (UNCHANGED files \/ WriteFile(i) \/ CutFile(i))
    <3>1. PICK x : instance' = [instance EXCEPT ![i] = x] /\ HasMeasured(x) /\ x.pc # "done"
      BY <2>1, <2>3, MeasuredOnRetry DEF At
    <3> QED  BY <2>1, <2>3, <3>1, InstanceFiled DEF At
  <2> QED  BY <2>1, <2>2, <2>3
<1>6. CASE Kill(i)
  <2>1. Alone /\ UNCHANGED files /\ Fail(i) /\ ~At(i, "done")  BY <1>6 DEF Kill, Fail, Ended, At
  <2>2. PICK x : instance' = [instance EXCEPT ![i] = x] /\ HasMeasured(x) /\ x.pc # "done"
    BY <2>1, MeasuredOnRetry
  <2> QED  BY <2>1, <2>2, InstanceFiled
<1> QED  BY <1>2, <1>3, <1>4, <1>5, <1>6 DEF Process

\* ... and of a submission, that may leave files of an earlier one behind.
LEMMA SubmitFiled ==
  ASSUME IInv, FileInv, NEW n \in Counts, NEW m, NEW size, Submit(n, m, size)
  PROVE  FileInv'
<1>1. n \in Nat \ {0}  BY WorkAssumption DEF WorkAssumption
<1>2. job'.run # 0 /\ job'.mode = m /\ DOMAIN instance' = 0..(n - 1)
  BY DEF Submit, IInv, Shape
<1>3. ASSUME NEW i \in DOMAIN instance' PROVE HasMeasured(instance[i])' /\ ~At(i, "done")'
  <2>1. /\ instance'[i].pc = IF m = "RECORD" THEN "open" ELSE "size"
        /\ instance'[i].metrics.lines = 0
    BY <1>3 DEF Submit, NoMetrics
  <2> QED  BY <1>2, <2>1 DEF HasMeasured, At
<1>4. stale' \/ DOMAIN files' \subseteq DOMAIN instance'
  <2>1. CASE job.run = 0  BY <2>1 DEF FileInv, Submit
  <2>2. CASE job.run # 0
    <3> SUFFICES ASSUME ~stale' PROVE DOMAIN files' \subseteq DOMAIN instance'  OBVIOUS
    <3>1. job.run > 0 /\ job.n \in Nat \ {0} /\ DOMAIN instance = 0..(job.n - 1)
      BY <2>2 DEF IInv, Shape
    <3>2. ~stale /\ ~(job.n > n) /\ files' = files  BY <3>1 DEF Submit
    <3>3. DOMAIN files \subseteq 0..(job.n - 1)  BY <2>2, <3>1, <3>2 DEF FileInv
    <3>4. 0..(job.n - 1) \subseteq 0..(n - 1)  BY <1>1, <3>1, <3>2
    <3> QED  BY <1>2, <3>2, <3>3, <3>4
  <2> QED  BY <2>1, <2>2
<1> QED  BY <1>2, <1>3, <1>4 DEF FileInv

\* The invariant of all of them.
WorkInv == IInv /\ Typed /\ ReadInv /\ FileInv

\* It holds at first, ...
LEMMA InitWork == Init => WorkInv
<1> SUFFICES ASSUME Init PROVE WorkInv  OBVIOUS
<1>1. IInv  BY Initially
<1>2. /\ job = [run |-> 0, n |-> Max(Counts), mode |-> "RECORD", size |-> 0]
      /\ DOMAIN instance = {} /\ DOMAIN files = {}
  BY DEF Init
<1>3. Max(Counts) \in Counts /\ MaxRuns \in Nat /\ MaxMishaps \in Nat
  BY LargestCount, WorkAssumption DEF WorkAssumption
<1>4. job \in [run : 0..MaxRuns, n : Counts, mode : Modes \cup {"RECORD"}, size : Nat]
  <2> DEFINE none == 0
  <2>1. none \in 0..MaxRuns /\ none \in Nat  BY <1>3
  <2>2. job = [run |-> none, n |-> Max(Counts), mode |-> "RECORD", size |-> none]  BY <1>2
  <2> HIDE DEF none
  <2> QED  BY <1>3, <2>1, <2>2
<1>5. Typed
  <2>1. mishaps \in 0..MaxMishaps  BY <1>3 DEF Init
  <2>2. /\ input \in Inputs /\ paths \in Paths /\ report = [pc |-> "none"]
        /\ replaced \in BOOLEAN /\ stale \in BOOLEAN
    BY DEF Init
  <2> QED  BY <1>2, <1>4, <2>1, <2>2 DEF Typed, TypeOK
<1>6. ReadInv /\ FileInv  BY <1>2 DEF ReadInv, FileInv
<1> QED  BY <1>1, <1>5, <1>6 DEF WorkInv

\* ... and every step preserves it.
LEMMA NextWork == WorkInv /\ [Next]_vars => WorkInv'
<1> SUFFICES ASSUME IInv, Typed, ReadInv, FileInv, [Next]_vars PROVE WorkInv'  BY DEF WorkInv
<1>1. IInv' /\ ReadInv'  BY Step, ReadNext
<1>2. Len(input) \in Nat  BY DEF IInv, Shape
<1>3. ASSUME NEW n \in Counts, NEW m \in Modes, NEW size \in {0, Len(input), Len(input) + 1},
             Submit(n, m, size)
      PROVE  Typed' /\ FileInv'
  <2>1. size \in Nat  BY <1>2
  <2> QED  BY <1>3, <2>1, SubmitTyped, SubmitFiled
<1>4. ASSUME NEW text \in Inputs, ReplaceInput(text) PROVE Typed' /\ FileInv'
  <2>1. mishaps' \in 0..MaxMishaps
    BY <1>4, WorkAssumption DEF ReplaceInput, Mishap, Typed, TypeOK, WorkAssumption
  <2>2. /\ UNCHANGED <<job, instance, paths, files, report, stale>>
        /\ input' = text /\ replaced' = TRUE /\ ~Whole'
    BY <1>4 DEF ReplaceInput, Whole
  <2>3. Typed'  BY <2>1, <2>2 DEF Typed, TypeOK
  <2>4. FileInv'  BY <2>2 DEF FileInv, HasMeasured, At
  <2> QED  BY <2>3, <2>4
<1>5. ASSUME NEW i \in DOMAIN instance, Process(i) \/ Kill(i) PROVE Typed' /\ FileInv'
  BY <1>5, WorkTyped, WorkFiled
<1>6. ASSUME UNCHANGED <<input, job, instance, files, replaced, stale>> PROVE FileInv'
  BY <1>6 DEF FileInv, HasMeasured, At, Whole
<1>7. ASSUME NEW unread, aggregate(unread) PROVE Typed' /\ FileInv'
  BY <1>6, <1>7, AggregateTyped DEF aggregate
<1>8. CASE loadFromGCS
  <2>1. Typed'  BY <1>8 DEF loadFromGCS, Typed, TypeOK
  <2> QED  BY <1>1, <1>6, <1>8, <2>1 DEF loadFromGCS, WorkInv
<1>9. CASE UNCHANGED vars
  <2>1. Typed'  BY <1>9 DEF vars, Typed, TypeOK
  <2> QED  BY <1>1, <1>6, <1>9, <2>1 DEF vars, WorkInv
<1> QED  BY <1>1, <1>3, <1>4, <1>5, <1>7, <1>8, <1>9 DEF Next, WorkInv

\* Types: among other things what is added up are numbers, and an instance ends within its
\* retries.
THEOREM TypeCorrect == Spec => []TypeOK
<1>1. WorkInv => TypeOK  BY DEF WorkInv, Typed
<1> QED  BY <1>1, InitWork, NextWork, PTL DEF Spec

(***************************************************************************)
(* What is added up                                                        *)
(***************************************************************************)

\* The size of a share is the number of its bytes.
LEMMA SizeIsCardinality ==
  ASSUME NEW size \in Nat, NEW n \in Nat \ {0}, NEW i \in 0..(n - 1)
  PROVE  /\ IsFiniteSet(Share(size, n, i))
         /\ Size(Calculate(size, n, i)) = Cardinality(Share(size, n, i))
<1> DEFINE range == Calculate(size, n, i)
<1>1. range \in [first : Nat, last : Int]  BY RangesAreOfIntegers
<1>2. Share(size, n, i) = range.first..range.last  BY DEF Share
<1> HIDE DEF range
<1>3. /\ IsFiniteSet(range.first..range.last)
      /\ Cardinality(range.first..range.last)
           = IF range.first > range.last THEN 0 ELSE range.last - range.first + 1
  BY <1>1, FS_Interval
<1> QED  BY <1>1, <1>2, <1>3 DEF Size, range

\* What an instance of a job that succeeded has written.
LEMMA Written ==
  ASSUME WorkInv, Steady, NEW i \in DOMAIN instance
  PROVE  /\ IsFiniteSet(instance[i].read)
         /\ i \in DOMAIN files /\ files[i] = instance[i].metrics
         /\ IF job.mode = "RECORD"
            THEN instance[i].metrics.records = Cardinality(instance[i].read)
            ELSE instance[i].metrics.bytes = Cardinality(instance[i].read)
<1>1. /\ IInv /\ Typed /\ ReadInv /\ FileInv /\ Whole /\ instance[i].pc = "done"
      /\ input \in Seq({"x", "newline"}) /\ Len(input) \in Nat
      /\ job.n \in Nat \ {0} /\ i \in 0..(job.n - 1)
  BY DEF WorkInv, Steady, AllDone, Whole, IInv, Shape
<1>2. i \in DOMAIN files /\ files[i] = instance[i].metrics  BY <1>1 DEF FileInv, At
<1>3. HasMeasured(instance[i]) /\ instance[i].read = Part(i)
  BY <1>1 DEF FileInv, ReadInv, HasRead
<1>4. CASE job.mode = "RECORD"
  <2>1. instance[i].read \subseteq 0..(Len(input) - 1)
    BY <1>3, <1>4 DEF Part, RecordsOf, extractSemanticRecords
  <2>2. IsFiniteSet(0..(Len(input) - 1))
    <3>1. Len(input) - 1 \in Int  BY <1>1
    <3> QED  BY <3>1, FS_Interval
  <2>3. IsFiniteSet(instance[i].read)  BY <2>1, <2>2, FS_Subset
  <2> QED  BY <1>1, <1>2, <1>3, <1>4, <2>3 DEF HasMeasured
<1>5. CASE job.mode # "RECORD"
  <2>1. job.mode = "BYTE_RANGE"
    <3>1. job.run > 0 /\ job.mode \in Modes
      BY DEF WorkInv, Typed, TypeOK, Steady, AllDone
    <3> QED  BY <1>5, <3>1, WorkAssumption DEF WorkAssumption
  <2>2. instance[i].range = Calculate(Len(input), job.n, i)
    <3>1. Splitting /\ SizeAtWork = Len(input)
      BY <1>1, <2>1 DEF Splitting, SizeAtWork, Whole, IInv, Shape
    <3> QED  BY <1>1, <3>1 DEF IInv, HasItsShare, Sized
  <2>3. instance[i].read = Share(Len(input), job.n, i)
    <3>1. instance[i].read = BytesOf(input, Calculate(Len(input), job.n, i))
      BY <1>3, <1>5 DEF Part
    <3> QED  BY <1>1, <3>1, BytesOfShare
  <2>4. instance[i].metrics.bytes = Size(Calculate(Len(input), job.n, i))
    BY <1>1, <1>3, <1>5, <2>2 DEF HasMeasured
  <2> QED  BY <1>1, <1>2, <1>5, <2>3, <2>4, SizeIsCardinality
<1> QED  BY <1>4, <1>5

\* The sum over the files of a job that succeeded.
LEMMA TotalIsWhole ==
  ASSUME WorkInv, Steady, ~stale
  PROVE  IF job.mode = "RECORD"
         THEN Total("records", DOMAIN files) = Cardinality(extractSemanticRecords(input))
         ELSE Total("bytes", DOMAIN files) = Len(input)
<1> DEFINE f == IF job.mode = "RECORD" THEN "records" ELSE "bytes"
           g == [i \in DOMAIN files |-> files[i][f]]
           P == [i \in DOMAIN files |-> instance[i].read]
<1>1. DOMAIN files = DOMAIN instance
  <2>1. DOMAIN instance \subseteq DOMAIN files  BY Written
  <2>2. DOMAIN files \subseteq DOMAIN instance
    BY DEF WorkInv, FileInv, Steady, AllDone
  <2> QED  BY <2>1, <2>2
<1>2. /\ input \in Seq({"x", "newline"}) /\ Len(input) \in Nat
      /\ job.n \in Nat \ {0} /\ DOMAIN instance = 0..(job.n - 1)
  BY DEF WorkInv, Steady, AllDone, IInv, Shape
<1>3. \A i \in DOMAIN g : IsFiniteSet(P[i]) /\ g[i] = Cardinality(P[i])
  BY <1>1, Written
<1>4. EverythingReadOnce  BY ReadOnce DEF WorkInv
<1>5. \A i, k \in DOMAIN g : i # k => P[i] \cap P[k] = {}
  BY <1>1, <1>4 DEF EverythingReadOnce
<1>6. IsFiniteSet(DOMAIN g)
  <2>1. 0 \in Int /\ job.n - 1 \in Int  BY <1>2
  <2>2. IsFiniteSet(0..(job.n - 1))  BY <2>1, FS_Interval
  <2> QED  BY <1>1, <1>2, <2>2
<1>7. AllOf(P, DOMAIN g)
        = IF job.mode = "RECORD" THEN extractSemanticRecords(input) ELSE 0..(Len(input) - 1)
  BY <1>1, <1>4 DEF EverythingReadOnce, AllOf
<1>8. Total(f, DOMAIN files) = Cardinality(AllOf(P, DOMAIN g))
  <2>1. Total(f, DOMAIN files) = SumFunction(g)  BY DEF Total
  <2> HIDE DEF g, P
  <2> QED  BY <1>3, <1>5, <1>6, <2>1, SumCounts
<1>9. Cardinality(0..(Len(input) - 1)) = Len(input)
  <2> DEFINE top == Len(input) - 1
  <2>1. 0 \in Int /\ top \in Int  BY <1>2
  <2>2. Cardinality(0..top) = IF 0 > top THEN 0 ELSE top - 0 + 1
    <3> HIDE DEF top
    <3> QED  BY <2>1, FS_Interval
  <2> QED  BY <1>2, <2>2
<1> QED  BY <1>7, <1>8, <1>9

\* Only the aggregator prints, and what it prints is that sum.
LEMMA NextWhole ==
  WorkInv /\ AggregateIsWhole /\ [Next]_vars => AggregateIsWhole'
<1> SUFFICES ASSUME WorkInv, AggregateIsWhole, [Next]_vars PROVE AggregateIsWhole'  OBVIOUS
<1>1. ASSUME NEW unread, aggregate(unread) PROVE AggregateIsWhole'
  <2> DEFINE found == DOMAIN files \ unread
             whole == AllDone /\ ~replaced /\ ~stale /\ unread = {} /\ job.size \in {0, Len(input)}
             total == [f \in DOMAIN NoMetrics |-> Total(f, found)]
  <2> SUFFICES ASSUME found # {}, whole PROVE AggregateIsWhole'
    BY <1>1 DEF aggregate, AggregateIsWhole
  <2>1. report' = [pc |-> "printed", mode |-> job.mode, text |-> input, total |-> total,
                   whole |-> whole]
    BY <1>1 DEF aggregate
  <2>2. found = DOMAIN files /\ Steady /\ ~stale  BY DEF Steady
  <2>3. /\ total.records = Total("records", DOMAIN files)
        /\ total.bytes = Total("bytes", DOMAIN files)
    BY <2>2 DEF NoMetrics
  <2> HIDE DEF total, whole, found
  <2>4. /\ report'.mode = job.mode /\ report'.text = input
        /\ report'.total.records = Total("records", DOMAIN files)
        /\ report'.total.bytes = Total("bytes", DOMAIN files)
    BY <2>1, <2>3
  <2> QED  BY <2>2, <2>4, TotalIsWhole DEF AggregateIsWhole
<1>2. CASE report'.pc # "printed"  BY <1>2 DEF AggregateIsWhole
<1>3. CASE UNCHANGED report  BY <1>3 DEF AggregateIsWhole
<1>4. ASSUME NEW n, NEW m, NEW size, Submit(n, m, size) PROVE report'.pc # "printed"
  BY <1>4 DEF Submit
<1>5. loadFromGCS => report'.pc # "printed"  BY DEF loadFromGCS
<1>6. ASSUME NEW text, ReplaceInput(text) PROVE UNCHANGED report  BY <1>6 DEF ReplaceInput
<1>7. ASSUME NEW i, Process(i) \/ Kill(i) PROVE UNCHANGED report
  BY <1>7 DEF Process, Kill, ensureInputDataSize, processReader, processRecords, WriteMetrics, Alone
<1> QED  BY <1>1, <1>2, <1>3, <1>4, <1>5, <1>6, <1>7 DEF Next, vars

\* What the aggregator prints for a job that succeeded is the whole input, for any number of
\* instances (AggregateIsWhole; cmd/aggregator): each has written what it counted of its
\* part, and the parts are disjoint, so that the sum counts the union.
THEOREM AggregatesAreWhole == Spec => []AggregateIsWhole
<1>1. Init => AggregateIsWhole  BY DEF Init, AggregateIsWhole
<1> QED  BY <1>1, InitWork, NextWork, NextWhole, PTL DEF Spec

(***************************************************************************)
(* Lines                                                                   *)
(***************************************************************************)

\* Where the lines begin that a scanner finds in the bytes first..last: at the first byte, and
\* after each newline.
Begins(text, first, last) ==
  {k \in first..last : k = first \/ Byte(text, k - 1) = "newline"}

\* The scanner counts as many lines as begin.
LEMMA LinesBegin ==
  ASSUME NEW text \in Seq({"x", "newline"}), NEW range \in [first : Nat, last : Int],
         range.first..range.last \subseteq 0..(Len(text) - 1)
  PROVE  /\ IsFiniteSet(Begins(text, range.first, range.last))
         /\ LinesIn(text, range) = Cardinality(Begins(text, range.first, range.last))
<1> DEFINE first == range.first
           last == range.last
           before == {k \in first..(last - 1) : Byte(text, k) = "newline"}
           newlines == {k \in first..last : Byte(text, k) = "newline"}
           next == {k + 1 : k \in before}
<1>1. first \in Nat /\ last \in Int /\ last - 1 \in Int /\ Len(text) \in Nat  OBVIOUS
<1>2. CASE last < first
  <2>1. LinesIn(text, range) = 0  BY <1>2, NoLines DEF IsEmpty
  <2>2. Begins(text, first, last) = {}  BY <1>1, <1>2 DEF Begins
  <2> QED  BY <2>1, <2>2, FS_EmptySet
<1>3. CASE first <= last
  <2>1. last <= Len(text) - 1 /\ MinOf(last, Len(text) - 1) = last
    <3>1. last \in first..last  BY <1>1, <1>3
    <3> QED  BY <1>1, <3>1 DEF MinOf
  <2>2. LinesIn(text, range) = Cardinality(newlines) + (IF last \in newlines THEN 0 ELSE 1)
    <3> DEFINE end == MinOf(range.last, Len(text) - 1)
               seen == {k \in range.first..end : Byte(text, k) = "newline"}
    <3>1. LinesIn(text, range)
            = IF end < range.first THEN 0 ELSE Cardinality(seen) + (IF end \in seen THEN 0 ELSE 1)
      BY DEF LinesIn
    <3>2. end = last  BY <2>1
    <3>3. seen = newlines  BY <3>2
    <3>4. ~(end < range.first)  BY <1>1, <1>3, <3>2
    <3> HIDE DEF end, seen, newlines
    <3> QED  BY <3>1, <3>2, <3>3, <3>4
  <2>3. IsFiniteSet(before)
    <3>1. IsFiniteSet(first..(last - 1))  BY <1>1, FS_Interval
    <3>2. before \in SUBSET (first..(last - 1))  OBVIOUS
    <3> HIDE DEF before
    <3> QED  BY <3>1, <3>2, FS_Subset
  <2>4. Cardinality(before) \in Nat  BY <2>3, FS_CardinalityType
  <2>5. Cardinality(newlines) = Cardinality(before) + (IF last \in newlines THEN 1 ELSE 0)
    <3>1. last \notin before  BY <1>1
    <3>2. CASE last \in newlines
      <4>1. newlines = before \cup {last}  BY <1>1, <1>3, <3>2
      <4> HIDE DEF before, newlines
      <4> QED  BY <2>3, <3>1, <3>2, <4>1, FS_AddElement
    <3>3. CASE last \notin newlines
      <4>1. newlines = before  BY <1>1, <1>3, <3>3
      <4> HIDE DEF before, newlines
      <4> QED  BY <2>4, <3>3, <4>1
    <3> QED  BY <3>2, <3>3
  <2>6. IsFiniteSet(next) /\ Cardinality(next) = Cardinality(before)
    <3> DEFINE f == [k \in before |-> k + 1]
    <3>1. before \subseteq Int  OBVIOUS
    <3>2. f \in Bijection(before, next)
      <4> HIDE DEF before
      <4> QED  BY <3>1 DEF Bijection, Injection, Surjection, IsInjective
    <3>3. ExistsBijection(before, next)
      <4> HIDE DEF f, before, next
      <4> QED  BY <3>2 DEF ExistsBijection
    <3> HIDE DEF before, next
    <3> QED  BY <2>3, <3>3, FS_Bijection
  <2>7. Begins(text, first, last) = next \cup {first} /\ first \notin next
    <3>1. first \notin next  BY <1>1
    <3>2. ASSUME NEW k \in Begins(text, first, last) PROVE k \in next \cup {first}
      <4>1. k \in first..last /\ k \in Int  BY <1>1 DEF Begins
      <4>2. CASE k # first
        <5>1. k - 1 \in before  BY <1>1, <4>1, <4>2 DEF Begins
        <5>2. k = (k - 1) + 1  BY <4>1
        <5> QED  BY <5>1, <5>2
      <4> QED  BY <4>2
    <3>3. ASSUME NEW k \in before PROVE k + 1 \in Begins(text, first, last)
      <4>1. k \in Int /\ (k + 1) - 1 = k /\ k + 1 \in first..last  BY <1>1
      <4> QED  BY <4>1 DEF Begins
    <3>4. first \in Begins(text, first, last)  BY <1>1, <1>3 DEF Begins
    <3> QED  BY <3>1, <3>2, <3>3, <3>4
  <2>8. /\ IsFiniteSet(Begins(text, first, last))
        /\ Cardinality(Begins(text, first, last)) = Cardinality(before) + 1
    <3> HIDE DEF before, next
    <3> QED  BY <2>6, <2>7, FS_AddElement
  <2> HIDE DEF before, newlines
  <2> QED  BY <2>2, <2>4, <2>5, <2>8
<1> QED  BY <1>1, <1>2, <1>3

\* The first share begins at the first byte.
LEMMA FirstShare ==
  ASSUME NEW size \in Nat, NEW n \in Nat \ {0}
  PROVE  Calculate(size, n, 0).first = 0
<1>1. CASE size < n  BY <1>1 DEF Calculate, SmallChunk
<1>2. CASE size >= n
  <2> DEFINE each == size \div n
             rest == size % n
  <2>1. each \in Nat /\ rest \in Nat  BY <1>2, Parts
  <2>2. 0 * each = 0
    <3> HIDE DEF each
    <3> QED  BY <2>1
  <2>3. MinOf(0, rest) = 0  BY <2>1 DEF MinOf
  <2>4. Calculate(size, n, 0).first = 0 * each + MinOf(0, rest)
    BY <1>2 DEF Calculate, EvenChunk
  <2> HIDE DEF each, rest
  <2> QED  BY <2>2, <2>3, <2>4
<1> QED  BY <1>1, <1>2

\* The lines of the whole text.
Lines(text) == {k \in 0..(Len(text) - 1) : k = 0 \/ Byte(text, k - 1) = "newline"}

\* The lines that begin in the shares are those of the text, and those that a share cuts.
LEMMA CutLines ==
  ASSUME NEW text \in Seq({"x", "newline"}), NEW n \in Nat \ {0},
         NEW P, \A i \in 0..(n - 1) :
           LET range == Calculate(Len(text), n, i)
           IN  P[i] = Begins(text, range.first, range.last)
  PROVE  LET all == AllOf(P, 0..(n - 1))
         IN  IsFiniteSet(all) =>
               /\ Cardinality(Lines(text)) <= Cardinality(all)
               /\ Cardinality(all) <= Cardinality(Lines(text)) + n - 1
<1> DEFINE all == AllOf(P, 0..(n - 1))
           cut == [i \in 1..(n - 1) |-> Calculate(Len(text), n, i).first]
           cuts == {cut[i] : i \in 1..(n - 1)}
<1> SUFFICES ASSUME IsFiniteSet(all)
             PROVE  /\ Cardinality(Lines(text)) <= Cardinality(all)
                    /\ Cardinality(all) <= Cardinality(Lines(text)) + n - 1
  OBVIOUS
<1>1. Len(text) \in Nat /\ n - 1 \in Int /\ 0 \in 0..(n - 1)  OBVIOUS
<1>2. \A i \in 0..(n - 1) : Calculate(Len(text), n, i) \in [first : Nat, last : Int]
  BY <1>1, RangesAreOfIntegers
<1>3. ASSUME NEW i \in 0..(n - 1)
      PROVE  /\ P[i] \subseteq Share(Len(text), n, i)
             /\ P[i] \subseteq 0..(Len(text) - 1)
             /\ \A k \in P[i] : k = Calculate(Len(text), n, i).first \/ Byte(text, k - 1) = "newline"
  <2>1. P[i] \subseteq Share(Len(text), n, i)  BY DEF Begins, Share
  <2>2. Share(Len(text), n, i) \subseteq 0..(Len(text) - 1)  BY <1>1, SharesAreInside
  <2> QED  BY <2>1, <2>2 DEF Begins
<1>4. Lines(text) \subseteq all
  <2> SUFFICES ASSUME NEW k \in Lines(text) PROVE k \in all  OBVIOUS
  <2>1. k \in 0..(Len(text) - 1) /\ (k = 0 \/ Byte(text, k - 1) = "newline")  BY DEF Lines
  <2>0. UNION {Share(Len(text), n, i) : i \in 0..(n - 1)} = 0..(Len(text) - 1)
    BY <1>1, SharesCoverTheInput
  <2>2. PICK i \in 0..(n - 1) : k \in Share(Len(text), n, i)
    BY <2>0, <2>1
  <2> DEFINE range == Calculate(Len(text), n, i)
  <2>3. range \in [first : Nat, last : Int]  BY <1>2
  <2>4. k \in range.first..range.last  BY <2>2 DEF Share
  <2>5. P[i] = Begins(text, range.first, range.last)  OBVIOUS
  <2> HIDE DEF range
  <2>6. k = 0 => k = range.first  BY <2>3, <2>4
  <2>7. k \in P[i]  BY <2>1, <2>4, <2>5, <2>6 DEF Begins
  <2> QED  BY <2>7 DEF AllOf
<1>5. all \subseteq Lines(text) \cup cuts
  <2> SUFFICES ASSUME NEW i \in 0..(n - 1), NEW k \in P[i] PROVE k \in Lines(text) \cup cuts
    BY DEF AllOf
  <2>1. k \in 0..(Len(text) - 1)  BY <1>3
  <2>2. CASE Byte(text, k - 1) = "newline"  BY <2>1, <2>2 DEF Lines
  <2>3. CASE k = Calculate(Len(text), n, i).first /\ i # 0
    <3>1. i \in 1..(n - 1)  BY <2>3
    <3> QED  BY <2>3, <3>1
  <2>4. CASE k = Calculate(Len(text), n, i).first /\ i = 0
    <3>1. Calculate(Len(text), n, 0).first = 0  BY <1>1, FirstShare
    <3> QED  BY <2>1, <2>4, <3>1 DEF Lines
  <2> QED  BY <1>3, <2>2, <2>3, <2>4
<1>6. IsFiniteSet(cuts) /\ Cardinality(cuts) <= n - 1
  <2>1. IsFiniteSet(1..(n - 1)) /\ Cardinality(1..(n - 1)) = n - 1
    <3>1. 1 \in Int /\ n - 1 \in Int  OBVIOUS
    <3>2. /\ IsFiniteSet(1..(n - 1))
          /\ Cardinality(1..(n - 1)) = IF 1 > n - 1 THEN 0 ELSE (n - 1) - 1 + 1
      BY <3>1, FS_Interval
    <3> QED  BY <3>2
  <2>2. cut \in Surjection(1..(n - 1), cuts)  BY DEF Surjection
  <2> HIDE DEF cut, cuts
  <2> QED  BY <2>1, <2>2, FS_Surjection
<1>7. IsFiniteSet(Lines(text))  BY <1>4, FS_Subset
<1>8. Cardinality(Lines(text)) <= Cardinality(all)  BY <1>4, FS_Subset
<1>9. Cardinality(all) <= Cardinality(Lines(text)) + Cardinality(cuts)
  <2> HIDE DEF all, cuts
  <2>1. /\ IsFiniteSet(Lines(text) \cup cuts)
        /\ Cardinality(Lines(text) \cup cuts)
             = Cardinality(Lines(text)) + Cardinality(cuts) - Cardinality(Lines(text) \cap cuts)
    BY <1>6, <1>7, FS_Union
  <2>2. IsFiniteSet(Lines(text) \cap cuts)
    <3>1. Lines(text) \cap cuts \in SUBSET cuts  OBVIOUS
    <3> QED  BY <1>6, <3>1, FS_Subset
  <2>3. Cardinality(Lines(text) \cap cuts) \in Nat  BY <2>2, FS_CardinalityType
  <2>4. Cardinality(all) <= Cardinality(Lines(text) \cup cuts)  BY <1>5, <2>1, FS_Subset
  <2>5. /\ Cardinality(all) \in Nat /\ Cardinality(Lines(text)) \in Nat
        /\ Cardinality(cuts) \in Nat
    BY <1>6, <1>7, FS_CardinalityType
  <2> QED  BY <2>1, <2>3, <2>4, <2>5
<1>10. Cardinality(all) \in Nat /\ Cardinality(Lines(text)) \in Nat /\ Cardinality(cuts) \in Nat
  BY <1>6, <1>7, FS_CardinalityType
<1> HIDE DEF all, cuts
<1> QED  BY <1>6, <1>8, <1>9, <1>10

\* The lines that a job split by bytes has counted are those that begin in its shares.
LEMMA LinesAreThose ==
  ASSUME WorkInv, Steady, job.mode = "BYTE_RANGE"
  PROVE  CutLinesCountTwice
<1> DEFINE g == [i \in DOMAIN instance |-> instance[i].metrics.lines]
           range(i) == Calculate(Len(input), job.n, i)
           P == [i \in DOMAIN instance |-> Begins(input, range(i).first, range(i).last)]
           all == AllOf(P, DOMAIN instance)
<1>1. /\ IInv /\ FileInv /\ Whole /\ job.mode # "RECORD"
      /\ input \in Seq({"x", "newline"}) /\ Len(input) \in Nat
      /\ job.n \in Nat \ {0} /\ DOMAIN instance = 0..(job.n - 1)
      /\ \A i \in DOMAIN instance : instance[i].pc = "done"
  BY DEF WorkInv, Steady, AllDone, Whole, IInv, Shape
<1>2. ASSUME NEW i \in DOMAIN instance
      PROVE  /\ g[i] = LinesIn(input, range(i))
             /\ range(i) \in [first : Nat, last : Int]
             /\ range(i).first..range(i).last \subseteq 0..(Len(input) - 1)
  <2>1. Splitting /\ SizeAtWork = Len(input)
    BY <1>1 DEF Splitting, SizeAtWork, Whole, IInv, Shape
  <2>2. instance[i].range = range(i)  BY <1>1, <2>1 DEF IInv, HasItsShare, Sized
  <2>3. HasMeasured(instance[i])  BY <1>1 DEF FileInv
  <2>4. g[i] = LinesIn(input, range(i))  BY <1>1, <2>2, <2>3 DEF HasMeasured
  <2>5. range(i) \in [first : Nat, last : Int]  BY <1>1, RangesAreOfIntegers
  <2>6. Share(Len(input), job.n, i) \subseteq 0..(Len(input) - 1)  BY <1>1, SharesAreInside
  <2> QED  BY <2>4, <2>5, <2>6 DEF Share
<1>3. ASSUME NEW i \in DOMAIN instance
      PROVE  IsFiniteSet(P[i]) /\ g[i] = Cardinality(P[i])
  <2>1. P[i] = Begins(input, range(i).first, range(i).last)  OBVIOUS
  <2> HIDE DEF g, P, range
  <2> QED  BY <1>1, <1>2, <2>1, LinesBegin
<1>4. ASSUME NEW i \in DOMAIN instance, NEW k \in DOMAIN instance, i # k
      PROVE  P[i] \cap P[k] = {}
  <2>1. Share(Len(input), job.n, i) \cap Share(Len(input), job.n, k) = {}
    BY <1>1, <1>4, SharesAreDisjoint
  <2>2. \A m \in DOMAIN instance : P[m] \subseteq Share(Len(input), job.n, m)
    BY DEF Begins, Share
  <2> QED  BY <2>1, <2>2
<1>5. IsFiniteSet(DOMAIN instance)
  <2>1. 0 \in Int /\ job.n - 1 \in Int  BY <1>1
  <2> QED  BY <1>1, <2>1, FS_Interval
<1>6. IsFiniteSet(all) /\ SumFunction(g) = Cardinality(all)
  <2>1. DOMAIN g = DOMAIN instance  OBVIOUS
  <2> HIDE DEF g, P
  <2> QED  BY <1>3, <1>4, <1>5, <2>1, SumCounts
<1>7. /\ Cardinality(Lines(input)) <= Cardinality(all)
      /\ Cardinality(all) <= Cardinality(Lines(input)) + job.n - 1
  <2>1. \A i \in 0..(job.n - 1) : P[i] = Begins(input, range(i).first, range(i).last)
    BY <1>1
  <2> HIDE DEF P
  <2> QED  BY <1>1, <1>6, <2>1, CutLines
<1> QED  BY <1>6, <1>7 DEF CutLinesCountTwice, Lines

\* Splitting by bytes counts no line less than once, and no more lines twice than there are
\* cuts (CutLinesCountTwice; the scanner of internal/demo/processor.go).
THEOREM LinesAreCounted == Spec => []CutLinesCountTwice
<1>1. WorkInv => CutLinesCountTwice  BY LinesAreThose DEF CutLinesCountTwice
<1> QED  BY <1>1, InitWork, NextWork, PTL DEF Spec

=============================================================================
