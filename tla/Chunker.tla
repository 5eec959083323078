------------------------------ MODULE Chunker ------------------------------
(***************************************************************************)
(* How the instances of a distributed job divide an input among them       *)
(* (internal/demo/chunker.go): each computes its own range of the bytes,   *)
(* or of the records, from the size of the input, the number of instances  *)
(* and its own number.                                                     *)
(***************************************************************************)
EXTENDS Integers

MinOf(a, b) == IF a < b THEN a ELSE b

\* Of an input smaller than the number of instances, the first get one byte each.
SmallChunk(size, i) == IF i < size THEN [first |-> i, last |-> i] ELSE [first |-> 0, last |-> -1]

\* Otherwise the bytes left over by the division go to the first instances.
EvenChunk(size, n, i) ==
  LET each == size \div n
      rest == size % n
  IN [first |-> i * each + MinOf(i, rest),
      last |-> IF i = n - 1 THEN size - 1 ELSE (i + 1) * each + MinOf(i + 1, rest) - 1]

Calculate(size, n, i) == IF size < n THEN SmallChunk(size, i) ELSE EvenChunk(size, n, i)

Size(range) == IF range.last < range.first THEN 0 ELSE range.last - range.first + 1
IsEmpty(range) == range.last < range.first
=============================================================================
