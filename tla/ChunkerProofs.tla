--------------------------- MODULE ChunkerProofs ---------------------------
(***************************************************************************)
(* The shares that the instances compute for themselves divide the input,  *)
(* for every size and every number of instances.                           *)
(***************************************************************************)
EXTENDS Chunker, TLAPS

Share(size, n, i) == Calculate(size, n, i).first..Calculate(size, n, i).last

\* Where the share of instance i begins when the input has a byte for each of them.
Start(size, n, i) == i * (size \div n) + MinOf(i, size % n)

\* Division, as the facts that the solver needs of it.
LEMMA Division ==
  ASSUME NEW a \in Nat, NEW d \in Nat, d > 0
  PROVE  /\ a \div d \in Nat /\ a % d \in Nat
         /\ a % d < d
         /\ a = (a \div d) * d + (a % d)
  BY SMT

LEMMA Distributive ==
  ASSUME NEW a \in Int, NEW b \in Int, NEW c \in Int
  PROVE  (a + b) * c = a * c + b * c /\ b * c \in Int
  BY SMT

LEMMA Products ==
  ASSUME NEW a \in Nat, NEW b \in Nat
  PROVE  a * b \in Nat
  BY SMT

\* The size is made up of equal parts and the rest.
LEMMA Parts ==
  ASSUME NEW size \in Nat, NEW n \in Nat \ {0}, size >= n
  PROVE  /\ size \div n \in Nat /\ size \div n >= 1
         /\ size % n \in Nat /\ size % n < n
         /\ size = n * (size \div n) + (size % n)
<1>1. n > 0 /\ n \in Nat  OBVIOUS
<1>2. /\ size \div n \in Nat /\ size % n \in Nat /\ size % n < n
      /\ size = (size \div n) * n + (size % n)
  BY <1>1, Division
<1>3. (size \div n) * n = n * (size \div n)  BY <1>2
<1>4. size \div n # 0  BY <1>2, <1>3
<1> QED  BY <1>2, <1>3, <1>4

\* Starts are numbers, begin at 0, end at the size, and each is the end of the share before.
LEMMA Starts ==
  ASSUME NEW size \in Nat, NEW n \in Nat \ {0}, size >= n, NEW i \in 0..(n - 1)
  PROVE  /\ Start(size, n, i) \in Nat /\ Start(size, n, i + 1) \in Nat
         /\ Share(size, n, i) = Start(size, n, i)..(Start(size, n, i + 1) - 1)
<1> DEFINE each == size \div n
           rest == size % n
<1>1. each \in Nat /\ rest \in Nat /\ rest < n /\ size = n * each + rest  BY Parts
<1>2. i \in Nat /\ n \in Nat  OBVIOUS
<1>3. i * each \in Nat /\ (i + 1) * each \in Nat  BY <1>1, <1>2
<1>4. Start(size, n, i) = i * each + MinOf(i, rest)  BY DEF Start
<1>5. Start(size, n, i + 1) = (i + 1) * each + MinOf(i + 1, rest)  BY DEF Start
<1>6. MinOf(i, rest) \in Nat /\ MinOf(i + 1, rest) \in Nat  BY <1>1, <1>2 DEF MinOf
<1>7. i = n - 1 => Start(size, n, i + 1) = size
  <2> SUFFICES ASSUME i = n - 1 PROVE Start(size, n, i + 1) = size  OBVIOUS
  <2>1. i + 1 = n  BY <1>2
  <2>2. MinOf(n, rest) = rest  BY <1>1, <1>2 DEF MinOf
  <2> QED  BY <2>1, <2>2, <1>1, <1>5
<1>8. Calculate(size, n, i) = EvenChunk(size, n, i)  BY DEF Calculate
<1>9. /\ Calculate(size, n, i).first = i * each + MinOf(i, rest)
      /\ Calculate(size, n, i).last
           = IF i = n - 1 THEN size - 1 ELSE (i + 1) * each + MinOf(i + 1, rest) - 1
  BY <1>8 DEF EvenChunk
<1>10. Start(size, n, i) \in Nat /\ Start(size, n, i + 1) \in Nat
  BY <1>3, <1>4, <1>5, <1>6
<1>11. Calculate(size, n, i).first = Start(size, n, i)  BY <1>4, <1>9
<1>12. Calculate(size, n, i).last = Start(size, n, i + 1) - 1
  <2>1. CASE i = n - 1  BY <2>1, <1>7, <1>9
  <2>2. CASE i # n - 1  BY <2>2, <1>3, <1>5, <1>6, <1>9
  <2> QED  BY <2>1, <2>2
<1> QED  BY <1>10, <1>11, <1>12 DEF Share

\* A later share begins where an earlier one has ended.
LEMMA StartsGrow ==
  ASSUME NEW size \in Nat, NEW n \in Nat \ {0}, size >= n,
         NEW i \in 0..(n - 1), NEW k \in 0..(n - 1), i < k
  PROVE  Start(size, n, i + 1) <= Start(size, n, k)
<1> DEFINE each == size \div n
           rest == size % n
<1>1. each \in Nat /\ rest \in Nat  BY Parts
<1>2. i + 1 \in Nat /\ k \in Nat /\ i + 1 <= k  OBVIOUS
<1>3. PICK d \in Nat : k = i + 1 + d
  <2>1. k - (i + 1) \in Nat /\ k = i + 1 + (k - (i + 1))  BY <1>2
  <2> QED  BY <2>1
<1>4. k * each = (i + 1) * each + d * each /\ d * each \in Nat
  <2> HIDE DEF each
  <2>1. (i + 1 + d) * each = (i + 1) * each + d * each  BY <1>1, <1>2, <1>3
  <2>2. d * each \in Nat  BY <1>1, <1>3
  <2> QED  BY <2>1, <2>2, <1>3
<1>5. (i + 1) * each \in Nat  BY <1>1, <1>2
<1>6. MinOf(i + 1, rest) <= MinOf(k, rest)  BY <1>1, <1>2 DEF MinOf
<1>7. MinOf(i + 1, rest) \in Nat /\ MinOf(k, rest) \in Nat  BY <1>1, <1>2 DEF MinOf
<1> QED
  <2> HIDE DEF each, rest
  <2>1. (i + 1) * each + MinOf(i + 1, rest) <= k * each + MinOf(k, rest)
    BY <1>4, <1>5, <1>6, <1>7
  <2> QED  BY <2>1 DEF Start, each, rest

\* No byte is in the shares of two instances (Calculate, internal/demo/chunker.go).
THEOREM SharesAreDisjoint ==
  ASSUME NEW size \in Nat, NEW n \in Nat \ {0},
         NEW i \in 0..(n - 1), NEW k \in 0..(n - 1), i # k
  PROVE  Share(size, n, i) \cap Share(size, n, k) = {}
<1>1. CASE size < n
  BY <1>1 DEF Share, Calculate, SmallChunk
<1>2. CASE size >= n
  <2>1. ASSUME NEW a \in 0..(n - 1), NEW b \in 0..(n - 1), a < b
        PROVE  Share(size, n, a) \cap Share(size, n, b) = {}
    <3>1. Start(size, n, a + 1) <= Start(size, n, b)  BY <1>2, <2>1, StartsGrow
    <3>2. /\ Start(size, n, a) \in Nat /\ Start(size, n, a + 1) \in Nat
          /\ Share(size, n, a) = Start(size, n, a)..(Start(size, n, a + 1) - 1)
      BY <1>2, Starts
    <3>3. /\ Start(size, n, b) \in Nat /\ Start(size, n, b + 1) \in Nat
          /\ Share(size, n, b) = Start(size, n, b)..(Start(size, n, b + 1) - 1)
      BY <1>2, Starts
    <3> QED  BY <3>1, <3>2, <3>3
  <2>2. i < k \/ k < i  OBVIOUS
  <2> QED  BY <2>1, <2>2
<1> QED  BY <1>1, <1>2

\* The instance that has byte b: the first ones have a byte more than the others.
Holder(size, n, b) ==
  LET each == size \div n
      rest == size % n
  IN IF b < rest * (each + 1) THEN b \div (each + 1)
     ELSE rest + ((b - rest * (each + 1)) \div each)

LEMMA HolderHasIt ==
  ASSUME NEW size \in Nat, NEW n \in Nat \ {0}, size >= n, NEW b \in 0..(size - 1)
  PROVE  \E i \in 0..(n - 1) : b \in Share(size, n, i)
<1> DEFINE each == size \div n
           rest == size % n
           i == Holder(size, n, b)
<1>1. /\ each \in Nat /\ each >= 1 /\ rest \in Nat /\ rest < n /\ n \in Nat
      /\ size = n * each + rest
  BY Parts
<1>2. ASSUME NEW k \in 0..(n - 1), Start(size, n, k) <= b, b < Start(size, n, k + 1)
      PROVE  b \in Share(size, n, k)
  <2>1. /\ Start(size, n, k) \in Nat /\ Start(size, n, k + 1) \in Nat
        /\ Share(size, n, k) = Start(size, n, k)..(Start(size, n, k + 1) - 1)
    BY Starts
  <2> QED  BY <1>2, <2>1
<1>3. CASE b < rest * (each + 1)
  <2>1. i = b \div (each + 1)  BY <1>3 DEF Holder
  <2>2. i \in Nat /\ \E r \in Nat : r < each + 1 /\ b = i * (each + 1) + r
    <3> HIDE DEF i
    <3>1. b \in Nat /\ each + 1 \in Nat /\ each + 1 > 0  BY <1>1
    <3>2. i \in Nat /\ b % (each + 1) \in Nat /\ b % (each + 1) < each + 1
          /\ b = i * (each + 1) + (b % (each + 1))
      BY <3>1, <2>1, Division
    <3> QED  BY <3>2
  <2>3. PICK r \in Nat : r < each + 1 /\ b = i * (each + 1) + r  BY <2>2
  <2>4. i < rest
    <3> HIDE DEF each, rest, i
    <3>1. SUFFICES ASSUME i >= rest PROVE FALSE  BY <1>1, <2>2
    <3>2. i * (each + 1) >= rest * (each + 1)  BY <3>1, <1>1, <2>2
    <3>3. i * (each + 1) \in Nat /\ rest * (each + 1) \in Nat  BY <1>1, <2>2
    <3> QED  BY <3>2, <3>3, <2>3, <1>3
  <2>5. MinOf(i, rest) = i /\ MinOf(i + 1, rest) = i + 1  BY <2>4, <2>2, <1>1 DEF MinOf
  <2>6. Start(size, n, i) = i * each + i /\ Start(size, n, i + 1) = (i + 1) * each + (i + 1)
    BY <2>5 DEF Start
  <2>7. i \in 0..(n - 1)  BY <2>2, <2>4, <1>1
  <2>8. Start(size, n, i) <= b /\ b < Start(size, n, i + 1)
    <3> HIDE DEF each, rest, i
    <3>1. i * (each + 1) = i * each + i /\ (i + 1) * each = i * each + each  BY <1>1, <2>2
    <3>2. i * each \in Nat  BY <1>1, <2>2
    <3> QED  BY <3>1, <3>2, <2>2, <2>3, <2>6, <1>1
  <2> QED  BY <1>2, <2>7, <2>8
<1>4. CASE b >= rest * (each + 1)
  <2> DEFINE c == b - rest * (each + 1)
             m == c \div each
  <2>1. i = rest + m
    <3>1. ~(b < rest * (each + 1))  BY <1>1, <1>4
    <3> QED  BY <3>1 DEF Holder
  <2>2. c \in Nat  BY <1>1, <1>4
  <2>3. m \in Nat /\ \E r \in Nat : r < each /\ c = m * each + r  
    <3>1. each > 0  BY <1>1
    <3>2. m \in Nat /\ c % each \in Nat /\ c % each < each /\ c = m * each + (c % each)
      BY <3>1, <2>2, <1>1, Division
    <3> QED  BY <3>2
  <2>4. PICK r \in Nat : r < each /\ c = m * each + r  BY <2>3
  <2>5. rest * (each + 1) = rest * each + rest /\ rest * each \in Nat  BY <1>1
  <2>6. b = rest * each + rest + m * each + r  BY <2>4, <2>5, <1>1, <2>3
  <2>7. (rest + m) * each = rest * each + m * each /\ m * each \in Nat
    <3> HIDE DEF each, rest, m
    <3> QED  BY <1>1, <2>3, Distributive, Products
  <2>8. i < n
    <3> HIDE DEF each, rest, i, m, c
    <3>1. SUFFICES ASSUME rest + m >= n PROVE FALSE  BY <1>1, <2>1, <2>3
    <3>2. (rest + m) * each >= n * each  BY <3>1, <1>1, <2>3
    <3>3. n * each \in Nat  BY <1>1
    <3> QED  BY <3>2, <3>3, <2>6, <2>7, <2>5, <1>1, <2>3, <2>4
  <2>9. MinOf(i, rest) = rest /\ MinOf(i + 1, rest) = rest  BY <2>1, <2>3, <1>1 DEF MinOf
  <2>10. Start(size, n, i) = i * each + rest /\ Start(size, n, i + 1) = (i + 1) * each + rest
    BY <2>9 DEF Start
  <2>11. i \in 0..(n - 1)  BY <2>1, <2>3, <2>8, <1>1
  <2>12. Start(size, n, i) <= b /\ b < Start(size, n, i + 1)
    <3> HIDE DEF each, rest, i, m, c
    <3>1. (rest + m + 1) * each = rest * each + m * each + each  BY <1>1, <2>3
    <3> QED  BY <3>1, <2>1, <2>3, <2>4, <2>5, <2>6, <2>7, <2>10, <1>1
  <2> QED  BY <1>2, <2>11, <2>12
<1> QED
  <2>1. b \in Int /\ rest * (each + 1) \in Int  BY <1>1
  <2> QED  BY <2>1, <1>3, <1>4

\* A share holds bytes of the input only.
LEMMA SharesAreInside ==
  ASSUME NEW size \in Nat, NEW n \in Nat \ {0}, NEW i \in 0..(n - 1)
  PROVE  Share(size, n, i) \subseteq 0..(size - 1)
<1>1. CASE size < n
  BY <1>1 DEF Share, Calculate, SmallChunk
<1>2. CASE size >= n
  <2>1. /\ Start(size, n, i) \in Nat /\ Start(size, n, i + 1) \in Nat
        /\ Share(size, n, i) = Start(size, n, i)..(Start(size, n, i + 1) - 1)
    BY <1>2, Starts
  <2>2. Start(size, n, (n - 1) + 1) = size
    <3>1. size % n \in Nat /\ size % n < n /\ size = n * (size \div n) + (size % n)
      BY <1>2, Parts
    <3>2. MinOf(n, size % n) = size % n  BY <3>1 DEF MinOf
    <3>3. (n - 1) + 1 = n  OBVIOUS
    <3> QED  BY <3>1, <3>2, <3>3 DEF Start
  <2>3. Start(size, n, i + 1) <= size
    <3>1. CASE i = n - 1  BY <3>1, <2>2
    <3>2. CASE i < n - 1
      <4>1. n - 1 \in 0..(n - 1)  OBVIOUS
      <4>2. Start(size, n, i + 1) <= Start(size, n, n - 1)  BY <1>2, <3>2, <4>1, StartsGrow
      <4>3. /\ Start(size, n, n - 1) \in Nat /\ Start(size, n, (n - 1) + 1) \in Nat
            /\ Share(size, n, n - 1) = Start(size, n, n - 1)..(Start(size, n, (n - 1) + 1) - 1)
        BY <1>2, <4>1, Starts
      <4>4. Start(size, n, n - 1) <= Start(size, n, (n - 1) + 1)
        <5>1. size \div n \in Nat /\ size % n \in Nat /\ size % n < n  BY <1>2, Parts
        <5>2. MinOf(n - 1, size % n) = size % n  BY <5>1 DEF MinOf
        <5>3. MinOf((n - 1) + 1, size % n) = size % n  BY <5>1 DEF MinOf
        <5>4. ((n - 1) + 1) * (size \div n) = (n - 1) * (size \div n) + (size \div n)
          <6>1. n - 1 \in Int /\ 1 \in Int /\ size \div n \in Int  BY <5>1
          <6>2. ((n - 1) + 1) * (size \div n) = (n - 1) * (size \div n) + 1 * (size \div n)
            BY <6>1, Distributive
          <6>3. 1 * (size \div n) = size \div n  BY <5>1
          <6> QED  BY <6>2, <6>3
        <5>5. (n - 1) * (size \div n) \in Nat  BY <5>1
        <5> QED  BY <5>1, <5>2, <5>3, <5>4, <5>5 DEF Start
      <4> QED  BY <2>1, <2>2, <4>2, <4>3, <4>4
    <3> QED  BY <3>1, <3>2
  <2> QED  BY <2>1, <2>3
<1> QED  BY <1>1, <1>2

\* The shares together are the whole input.
THEOREM SharesCoverTheInput ==
  ASSUME NEW size \in Nat, NEW n \in Nat \ {0}
  PROVE  UNION {Share(size, n, i) : i \in 0..(n - 1)} = 0..(size - 1)
<1>1. ASSUME NEW b \in 0..(size - 1) PROVE \E i \in 0..(n - 1) : b \in Share(size, n, i)
  <2>1. CASE size < n
    <3>1. b \in 0..(n - 1)  BY <2>1
    <3>2. Share(size, n, b) = b..b  BY <2>1 DEF Share, Calculate, SmallChunk
    <3> QED  BY <3>1, <3>2
  <2>2. CASE size >= n
    BY <2>2, HolderHasIt
  <2> QED  BY <2>1, <2>2
<1> QED  BY <1>1, SharesAreInside
=============================================================================
