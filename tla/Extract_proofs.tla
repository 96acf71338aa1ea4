--------------------------- MODULE Extract_proofs ---------------------------
(***************************************************************************)
(* Proofs about the extraction pipeline. The pipeline is made of functions, *)
(* so most of the work is in what they compute for every page and every set *)
(* of detectors that throw: no page, mark or table of Inputs is enumerated. *)
(*                                                                         *)
(*   1. What filtering, flattening and sorting do to a sequence.           *)
(*   2. Detector by detector, that its section is Faithful to its result.  *)
(*   3. Runner, merge, sort and JSONB column: each dimension keeps its     *)
(*      result, SectionResult, wherever the sections travel.               *)
(*   4. The document: levels of confidence, findings, rows, diagram.       *)
(*   5. The inductive invariant ExtractInv, and the seven properties.      *)
(***************************************************************************)
EXTENDS Extract, Integers, FiniteSetTheorems, SequenceTheorems, WellFoundedInduction, TLAPS

------------------------------------------------------------------------------
(* Sequences: flattening, filtering, sorting by a list of dimensions. The *)
(* operators are recursive functions; what they compute is proved by      *)
(* counting up.                                                           *)

(* Counting up from m to n: what holds of m and is handed on by every     *)
(* number below n holds up to n. The least counterexample is what a well- *)
(* founded order has.                                                     *)
LEMMA CountUp ==
  ASSUME NEW m \in Nat, NEW n \in Nat, NEW S, m \in S,
         \A i \in m..(n - 1) : i \in S => i + 1 \in S
  PROVE  \A i \in m..n : i \in S
<1> DEFINE R == OpToRel(<, Nat)
           T == (m..n) \ S
<1>1. SUFFICES ASSUME T # {} PROVE FALSE
  OBVIOUS
<1>2. \E x \in T : \A y \in T : <<y, x>> \notin R
  <2>1. IsWellFoundedOn(R, Nat)
    BY NatLessThanWellFounded
  <2>2. T \subseteq Nat
    OBVIOUS
  <2> HIDE DEF R, T
  <2> QED BY <1>1, <2>1, <2>2, WFMin
<1>3. PICK x \in T : \A y \in T : <<y, x>> \notin R
  BY <1>2
<1>4. \A y \in T : ~(y < x)
  <2>1. T \subseteq Nat
    OBVIOUS
  <2> HIDE DEF T
  <2> QED BY <1>3, <2>1, Zenon DEF OpToRel
<1>5. x > m
  OBVIOUS
<1>6. x - 1 \in S
  BY <1>4, <1>5
<1> QED BY <1>5, <1>6

(* The prefixes of a flattened sequence: f[i] holds the first i of n *)
(* sequences.                                                        *)
Chain(f, T, n, ss) ==
  /\ f \in [0..n -> Seq(T)]
  /\ f[0] = <<>>
  /\ \A i \in 1..n : f[i] = f[i - 1] \o ss[i]

LEMMA ChainExists ==
  ASSUME NEW T, NEW n \in Nat, NEW ss \in [1..n -> Seq(T)]
  PROVE  \E f : Chain(f, T, n, ss)
<1> DEFINE S == {k \in Nat : \E g : Chain(g, T, k, ss)}
<1>1. 0 \in S
  <2>1. Chain([i \in 0..0 |-> <<>>], T, 0, ss)
    BY DEF Chain
  <2> QED BY <2>1
<1>2. ASSUME NEW k \in 0..(n - 1), k \in S PROVE k + 1 \in S
  <2>1. PICK g : Chain(g, T, k, ss)
    BY <1>2
  <2> DEFINE w == g[k] \o ss[k + 1]
             e == [i \in 0..(k + 1) |-> IF i = k + 1 THEN w ELSE g[i]]
  <2>2. w \in Seq(T)
    <3>1. g[k] \in Seq(T) /\ ss[k + 1] \in Seq(T)
      BY <2>1 DEF Chain
    <3> QED BY <3>1, ConcatProperties
  <2>w. w = g[k] \o ss[k + 1]
    OBVIOUS
  <2> HIDE DEF w
  <2>3. e \in [0..(k + 1) -> Seq(T)]
    BY <2>1, <2>2 DEF Chain
  <2>4. e[0] = <<>>
    BY <2>1 DEF Chain
  <2>5. ASSUME NEW i \in 1..(k + 1) PROVE e[i] = e[i - 1] \o ss[i]
    <3>1. e[i - 1] = g[i - 1]
      OBVIOUS
    <3>2. CASE i = k + 1
      <4>1. e[i] = w /\ i - 1 = k
        BY <3>2
      <4> HIDE DEF e
      <4> QED BY <4>1, <3>1, <3>2, <2>w, Zenon
    <3>3. CASE i # k + 1
      <4>1. e[i] = g[i] /\ i \in 1..k
        BY <3>3
      <4> HIDE DEF e
      <4> QED BY <4>1, <3>1, <2>1 DEF Chain
    <3> QED BY <3>2, <3>3
  <2> HIDE DEF e
  <2>6. Chain(e, T, k + 1, ss)
    BY <2>3, <2>4, <2>5, Zenon DEF Chain
  <2>7. k + 1 \in Nat
    OBVIOUS
  <2> QED BY <2>6, <2>7, Zenon
<1>3. n \in S
  <2> HIDE DEF S
  <2>1. \A i \in 0..n : i \in S
    BY <1>1, <1>2, CountUp
  <2> QED BY <2>1
<1> QED BY <1>3

(* FlattenSeq is the last of these prefixes. *)
LEMMA Flattened ==
  ASSUME NEW T, NEW n \in Nat, NEW ss \in [1..n -> Seq(T)]
  PROVE  \E f : Chain(f, T, n, ss) /\ FlattenSeq(ss) = f[n]
<1>0. PICK f : Chain(f, T, n, ss)
  BY ChainExists
<1>1. /\ f \in [0..n -> Seq(T)] /\ f[0] = <<>>
      /\ \A i \in 1..n : f[i] = f[i - 1] \o ss[i]
  BY <1>0 DEF Chain
<1>2. Len(ss) = n
  OBVIOUS
<1>3. CASE n = 0
  <2>1. FlattenSeq(ss) = ss /\ ss = <<>>
    BY <1>2, <1>3 DEF FlattenSeq
  <2> QED BY <2>1, <1>0, <1>1, <1>3
<1>4. CASE n # 0
  <2>0. \A i \in 1..n : f[i] = IF i = 1 THEN ss[i] ELSE f[i - 1] \o ss[i]
    <3> SUFFICES ASSUME NEW i \in 1..n
                 PROVE  f[i] = IF i = 1 THEN ss[i] ELSE f[i - 1] \o ss[i]
      OBVIOUS
    <3>1. f[i] = f[i - 1] \o ss[i] /\ ss[i] \in Seq(T)
      BY <1>1
    <3>2. CASE i = 1
      <4>1. f[i - 1] = <<>>
        BY <3>2, <1>1
      <4>2. f[i] = ss[i]
        BY <3>1, <4>1
      <4> QED BY <4>2, <3>2
    <3>3. CASE i # 1
      BY <3>1, <3>3, Zenon
    <3> QED BY <3>2, <3>3
  <2> DEFINE Is(g) == g = [i \in 1..Len(ss) |-> IF i = 1 THEN ss[i] ELSE g[i - 1] \o ss[i]]
             c == CHOOSE g : Is(g)
             e == [i \in 1..n |-> f[i]]
  <2>1. FlattenSeq(ss) = c[n]
    BY <1>2, <1>4, Zenon DEF FlattenSeq
  <2>2. Is(e)
    <3> HIDE DEF c
    <3> DEFINE F(i) == IF i = 1 THEN ss[i] ELSE f[i - 1] \o ss[i]
               E(i) == IF i = 1 THEN ss[i] ELSE e[i - 1] \o ss[i]
    <3>1. \A i \in 1..n : F(i) = E(i)
      OBVIOUS
    <3>2. \A i \in 1..n : f[i] = F(i)
      BY <2>0
    <3>3. \A i \in 1..n : f[i] = E(i)
      <4> HIDE DEF F, E
      <4> QED BY <3>1, <3>2
    <3>4. e = [i \in 1..n |-> E(i)]
      <4> HIDE DEF E
      <4> QED BY <3>3
    <3> QED BY <3>4, <1>2, Zenon
  <2>3. Is(c)
    <3> HIDE DEF Is
    <3> QED BY <2>2
  <2>c. \A i \in 1..n : c[i] = IF i = 1 THEN ss[i] ELSE c[i - 1] \o ss[i]
    <3> HIDE DEF c
    <3> QED BY <2>3, <1>2
  <2> HIDE DEF Is, c, e
  <2>4. \A i \in 1..n : i \in {k \in 1..n : c[k] = f[k]}
    <3> DEFINE S == {k \in 1..n : c[k] = f[k]}
    <3>1. 1 \in S
      <4>1. 1 \in 1..n
        BY <1>4
      <4>2. c[1] = ss[1] /\ f[1] = ss[1]
        BY <2>0, <2>c, <4>1, Zenon
      <4> QED BY <4>1, <4>2
    <3>2. ASSUME NEW i \in 1..(n - 1), i \in S PROVE i + 1 \in S
      <4>1. i + 1 \in 1..n /\ i + 1 # 1 /\ (i + 1) - 1 = i
        OBVIOUS
      <4>2. c[i + 1] = c[i] \o ss[i + 1] /\ f[i + 1] = f[i] \o ss[i + 1]
        BY <2>0, <2>c, <4>1, Zenon
      <4>3. c[i] = f[i]
        BY <3>2
      <4> QED BY <4>1, <4>2, <4>3, Zenon
    <3> HIDE DEF S
    <3>3. 1 \in Nat
      OBVIOUS
    <3>4. \A i \in 1..n : i \in S
      BY <3>1, <3>2, <3>3, CountUp, Zenon
    <3> QED BY <3>4 DEF S
  <2>5. c[n] = f[n]
    BY <2>4, <1>4
  <2> QED BY <2>1, <2>5, <1>0
<1> QED BY <1>3, <1>4

(* The prefixes of what Only keeps of s *)
Keeping(f, T, s, S) ==
  /\ f \in [0..Len(s) -> Seq(T \cap S)]
  /\ f[0] = <<>>
  /\ \A i \in 1..Len(s) : f[i] = IF s[i] \in S THEN Append(f[i - 1], s[i]) ELSE f[i - 1]

LEMMA SetOfAppend ==
  ASSUME NEW T, NEW q \in Seq(T), NEW x
  PROVE  ToSet(Append(q, x)) = ToSet(q) \union {x}
<1> DEFINE a == Append(q, x)
<1>1. Len(q) \in Nat /\ DOMAIN q = 1..Len(q) /\ DOMAIN a = 1..(Len(q) + 1)
  OBVIOUS
<1>2. a[Len(q) + 1] = x /\ \A i \in 1..Len(q) : a[i] = q[i]
  OBVIOUS
<1> HIDE DEF a
<1>3. ToSet(a) = ToSet(q) \union {x}
  BY <1>1, <1>2 DEF ToSet
<1> QED BY <1>3 DEF a

(* Only, as a chain of prefixes: each element is kept or dropped in its turn. *)
LEMMA OnlySteps ==
  ASSUME NEW T, NEW s \in Seq(T), NEW S
  PROVE  \E f : Keeping(f, T, s, S) /\ Only(s, S) = f[Len(s)]
<1> DEFINE n == Len(s)
           ss == [i \in 1..n |-> When(s[i] \in S, s[i])]
<1>1. n \in Nat /\ DOMAIN s = 1..n /\ \A i \in 1..n : s[i] \in T
  OBVIOUS
<1>2. \A i \in 1..n : ss[i] = (IF s[i] \in S THEN <<s[i]>> ELSE <<>>) /\ ss[i] \in Seq(T \cap S)
  <2> SUFFICES ASSUME NEW i \in 1..n
               PROVE  /\ ss[i] = (IF s[i] \in S THEN <<s[i]>> ELSE <<>>)
                      /\ ss[i] \in Seq(T \cap S)
    BY Zenon
  <2>1. ss[i] = (IF s[i] \in S THEN <<s[i]>> ELSE <<>>)
    BY DEF When
  <2>2. s[i] \in T
    BY <1>1
  <2> HIDE DEF ss, n
  <2>3. s[i] \in S => <<s[i]>> \in Seq(T \cap S)
    BY <2>2
  <2>4. <<>> \in Seq(T \cap S)
    OBVIOUS
  <2> QED BY <2>1, <2>3, <2>4, Zenon
<1>3. ss \in [1..n -> Seq(T \cap S)]
  BY <1>2
<1>4. Only(s, S) = FlattenSeq(ss)
  BY <1>1 DEF Only
<1> HIDE DEF ss, n
<1>5. PICK f : Chain(f, T \cap S, n, ss) /\ FlattenSeq(ss) = f[n]
  BY <1>1, <1>3, Flattened, Zenon
<1>6. /\ f \in [0..n -> Seq(T \cap S)] /\ f[0] = <<>>
      /\ \A i \in 1..n : f[i] = f[i - 1] \o ss[i]
  BY <1>5 DEF Chain
<1>7. ASSUME NEW i \in 1..n
      PROVE  f[i] = IF s[i] \in S THEN Append(f[i - 1], s[i]) ELSE f[i - 1]
  <2>1. f[i - 1] \in Seq(T \cap S) /\ f[i] = f[i - 1] \o ss[i]
    <3>1. i - 1 \in 0..n
      BY <1>1
    <3> QED BY <1>6, <3>1, Zenon
  <2>2. CASE s[i] \in S
    <3>1. ss[i] = <<s[i]>>
      BY <1>2, <2>2, Zenon
    <3>2. f[i - 1] \o <<s[i]>> = Append(f[i - 1], s[i])
      BY <2>1, AppendIsConcat, <1>1, <2>2
    <3> QED BY <2>1, <2>2, <3>1, <3>2, Zenon
  <2>3. CASE s[i] \notin S
    <3>1. ss[i] = <<>>
      BY <1>2, <2>3, Zenon
    <3>2. f[i - 1] \o <<>> = f[i - 1]
      BY <2>1, ConcatEmptySeq
    <3> QED BY <2>1, <2>3, <3>1, <3>2, Zenon
  <2> QED BY <2>2, <2>3
<1>8. Keeping(f, T, s, S)
  BY <1>6, <1>7, Zenon DEF Keeping, n
<1> QED BY <1>4, <1>5, <1>8, Zenon DEF n

(* What Only keeps is in S and was in the sequence, and nothing in S is lost. *)
LEMMA OnlySet ==
  ASSUME NEW T, NEW s \in Seq(T), NEW S
  PROVE  Only(s, S) \in Seq(T \cap S) /\ ToSet(Only(s, S)) = ToSet(s) \cap S
<1> DEFINE n == Len(s)
<1>1. n \in Nat /\ DOMAIN s = 1..n /\ \A i \in 1..n : s[i] \in T
  OBVIOUS
<1>f. PICK f : Keeping(f, T, s, S) /\ Only(s, S) = f[n]
  BY OnlySteps, Zenon
<1>2. /\ f \in [0..n -> Seq(T \cap S)]
      /\ f[0] = <<>>
      /\ \A i \in 1..n : f[i] = IF s[i] \in S THEN Append(f[i - 1], s[i]) ELSE f[i - 1]
      /\ Only(s, S) = f[n]
  BY <1>f, Zenon DEF Keeping
<1> HIDE DEF n
<1> DEFINE K == {i \in 0..n : ToSet(f[i]) = {s[k] : k \in 1..i} \cap S}
<1>3. 0 \in K
  BY <1>1, <1>2 DEF ToSet
<1>4. ASSUME NEW i \in 0..(n - 1), i \in K PROVE i + 1 \in K
  <2>1. i + 1 \in 1..n /\ i + 1 \in 0..n /\ (i + 1) - 1 = i /\ f[i] \in Seq(T \cap S)
    BY <1>1, <1>2
  <2>2. f[i + 1] = IF s[i + 1] \in S THEN Append(f[i], s[i + 1]) ELSE f[i]
    BY <1>2, <2>1, Zenon
  <2>3. {s[k] : k \in 1..(i + 1)} = {s[k] : k \in 1..i} \union {s[i + 1]}
    BY <1>1
  <2>4. ToSet(f[i]) = {s[k] : k \in 1..i} \cap S
    BY <1>4
  <2>5. CASE s[i + 1] \in S
    <3>1. ToSet(Append(f[i], s[i + 1])) = ToSet(f[i]) \union {s[i + 1]}
      BY <2>1, SetOfAppend, Zenon
    <3> QED BY <2>1, <2>2, <2>3, <2>4, <2>5, <3>1, Zenon
  <2>6. CASE s[i + 1] \notin S
    BY <2>1, <2>2, <2>3, <2>4, <2>6, Zenon
  <2> QED BY <2>5, <2>6
<1> HIDE DEF K
<1>5. n \in K
  <2>1. 0 \in Nat /\ n \in 0..n
    BY <1>1
  <2> QED BY <1>1, <1>3, <1>4, <2>1, CountUp
<1>6. ToSet(f[n]) = ToSet(s) \cap S
  BY <1>5, <1>1, Zenon DEF K, ToSet
<1>7. f[n] \in Seq(T \cap S)
  BY <1>1, <1>2
<1> QED BY <1>2, <1>6, <1>7, Zenon

(* The first element Only keeps is the first in S. *)
LEMMA OnlyFirst ==
  ASSUME NEW T, NEW s \in Seq(T), NEW S, NEW k \in 1..Len(s),
         s[k] \in S, \A j \in 1..(k - 1) : s[j] \notin S
  PROVE  Only(s, S) # <<>> /\ Head(Only(s, S)) = s[k]
<1> DEFINE n == Len(s)
<1>1. n \in Nat /\ k \in 1..n /\ k \in Nat /\ \A i \in 1..n : s[i] \in T
  OBVIOUS
<1>f. PICK f : Keeping(f, T, s, S) /\ Only(s, S) = f[n]
  BY OnlySteps, Zenon
<1>2. /\ f \in [0..n -> Seq(T \cap S)]
      /\ f[0] = <<>>
      /\ \A i \in 1..n : f[i] = IF s[i] \in S THEN Append(f[i - 1], s[i]) ELSE f[i - 1]
      /\ Only(s, S) = f[n]
  BY <1>f, Zenon DEF Keeping
<1> HIDE DEF n
<1> DEFINE E == {i \in 0..(k - 1) : f[i] = <<>>}
           K == {i \in k..n : f[i] # <<>> /\ Head(f[i]) = s[k]}
<1>3. k - 1 \in E
  <2>1. 0 \in E
    BY <1>1, <1>2
  <2>2. ASSUME NEW i \in 0..(k - 1 - 1), i \in E PROVE i + 1 \in E
    <3>1. i + 1 \in 1..n /\ i + 1 \in 1..(k - 1) /\ i + 1 \in 0..(k - 1) /\ (i + 1) - 1 = i
      BY <1>1
    <3>2. f[i + 1] = f[i]
      BY <1>2, <3>1, Zenon
    <3> QED BY <3>1, <3>2, <2>2
  <2> HIDE DEF E
  <2>3. 0 \in Nat /\ k - 1 \in Nat /\ k - 1 \in 0..(k - 1)
    BY <1>1
  <2> QED BY <2>1, <2>2, <2>3, CountUp
<1>4. n \in K
  <2>1. k \in K
    <3>1. f[k] = Append(f[k - 1], s[k])
      BY <1>1, <1>2, Zenon
    <3>2. f[k - 1] = <<>> /\ s[k] \in T
      BY <1>3
    <3> QED BY <3>1, <3>2, <1>1
  <2>2. ASSUME NEW i \in k..(n - 1), i \in K PROVE i + 1 \in K
    <3>1. i + 1 \in 1..n /\ i + 1 \in k..n /\ (i + 1) - 1 = i
      BY <1>1
    <3>2. f[i + 1] = IF s[i + 1] \in S THEN Append(f[i], s[i + 1]) ELSE f[i]
      BY <1>2, <3>1, Zenon
    <3>3. f[i] # <<>> /\ Head(f[i]) = s[k] /\ f[i] \in Seq(T \cap S)
      BY <1>1, <1>2, <2>2
    <3>4. s[i + 1] \in S => /\ Append(f[i], s[i + 1]) # <<>>
                            /\ Head(Append(f[i], s[i + 1])) = s[k]
      <4> DEFINE q == f[i]
      <4>1. q \in Seq(T \cap S) /\ q # <<>> /\ s[i + 1] \in T
        BY <1>1, <3>1, <3>3, Zenon
      <4> HIDE DEF q
      <4>2. Len(q) \in Nat /\ Len(q) >= 1 /\ Head(q) = q[1]
        BY <4>1
      <4> QED BY <3>3, <4>1, <4>2 DEF q
    <3>5. f[i + 1] # <<>> /\ Head(f[i + 1]) = s[k]
      <4>1. CASE s[i + 1] \in S
        BY <3>2, <3>4, <4>1, Zenon
      <4>2. CASE s[i + 1] \notin S
        BY <3>2, <3>3, <4>2, Zenon
      <4> QED BY <4>1, <4>2, Zenon
    <3> QED BY <3>1, <3>5, Zenon
  <2> HIDE DEF K
  <2>3. n \in k..n
    BY <1>1
  <2> QED BY <2>1, <2>2, <2>3, <1>1, CountUp
<1> QED BY <1>2, <1>4, Zenon DEF K

LEMMA SetOfConcat ==
  ASSUME NEW T, NEW p \in Seq(T), NEW q \in Seq(T)
  PROVE  ToSet(p \o q) = ToSet(p) \union ToSet(q)
<1> DEFINE c == p \o q
<1>1. /\ Len(p) \in Nat /\ Len(q) \in Nat /\ Len(c) = Len(p) + Len(q)
      /\ DOMAIN p = 1..Len(p) /\ DOMAIN q = 1..Len(q) /\ DOMAIN c = 1..Len(c)
      /\ \A i \in 1..Len(c) : c[i] = IF i <= Len(p) THEN p[i] ELSE q[i - Len(p)]
  BY ConcatProperties
<1> HIDE DEF c
<1>2. ToSet(c) \subseteq ToSet(p) \union ToSet(q)
  BY <1>1 DEF ToSet
<1>3. ToSet(p) \subseteq ToSet(c)
  BY <1>1 DEF ToSet
<1>4. ASSUME NEW j \in 1..Len(q) PROVE q[j] \in ToSet(c)
  <2>1. /\ j + Len(p) \in 1..Len(c) /\ ~(j + Len(p) <= Len(p))
        /\ (j + Len(p)) - Len(p) = j
    BY <1>1
  <2>2. c[j + Len(p)] = q[j]
    BY <2>1, <1>1
  <2> QED BY <2>1, <2>2, <1>1, Zenon DEF ToSet
<1>5. ToSet(q) \subseteq ToSet(c)
  BY <1>4, <1>1, Zenon DEF ToSet
<1>6. ToSet(c) = ToSet(p) \union ToSet(q)
  BY <1>2, <1>3, <1>5
<1> QED BY <1>6 DEF c

(* Flattening loses no element and adds none. *)
LEMMA SetOfFlatten ==
  ASSUME NEW T, NEW n \in Nat, NEW ss \in [1..n -> Seq(T)]
  PROVE  /\ FlattenSeq(ss) \in Seq(T)
         /\ ToSet(FlattenSeq(ss)) = UNION {ToSet(q) : q \in ToSet(ss)}
<1>1. PICK f : Chain(f, T, n, ss) /\ FlattenSeq(ss) = f[n]
  BY Flattened, Zenon
<1>2. /\ f \in [0..n -> Seq(T)]
      /\ f[0] = <<>>
      /\ \A i \in 1..n : f[i] = f[i - 1] \o ss[i]
  BY <1>1, Zenon DEF Chain
<1> DEFINE Upto(i) == UNION {ToSet(ss[k]) : k \in 1..i}
           K == {i \in 0..n : ToSet(f[i]) = Upto(i)}
<1>3. 0 \in K
  <2>1. ToSet(f[0]) = {} /\ Upto(0) = {}
    BY <1>2 DEF ToSet
  <2> QED BY <2>1
<1>4. ASSUME NEW i \in 0..(n - 1), i \in K PROVE i + 1 \in K
  <2>0. i + 1 \in 1..n /\ i + 1 \in 0..n /\ (i + 1) - 1 = i /\ i \in 0..n
    OBVIOUS
  <2>1. f[i] \in Seq(T) /\ ss[i + 1] \in Seq(T) /\ f[i + 1] = f[i] \o ss[i + 1]
    BY <1>2, <2>0, Zenon
  <2>2. ToSet(f[i] \o ss[i + 1]) = ToSet(f[i]) \union ToSet(ss[i + 1])
    BY <2>1, SetOfConcat
  <2>3. ToSet(f[i + 1]) = Upto(i) \union ToSet(ss[i + 1])
    BY <2>1, <2>2, <1>4, Zenon
  <2>4. Upto(i + 1) = Upto(i) \union ToSet(ss[i + 1])
    <3>1. 1..(i + 1) = (1..i) \union {i + 1}
      OBVIOUS
    <3> QED BY <3>1, Zenon
  <2> QED BY <2>0, <2>3, <2>4, Zenon
<1> HIDE DEF K
<1>5. n \in K
  <2>1. 0 \in Nat /\ n \in 0..n
    OBVIOUS
  <2> QED BY <1>3, <1>4, <2>1, CountUp
<1>6. f[n] \in Seq(T)
  BY <1>2
<1>7. {ToSet(ss[k]) : k \in 1..n} = {ToSet(q) : q \in ToSet(ss)}
  <2>1. DOMAIN ss = 1..n
    OBVIOUS
  <2>2. ToSet(ss) = {ss[k] : k \in 1..n}
    BY <2>1 DEF ToSet
  <2> QED BY <2>2
<1>8. ToSet(f[n]) = UNION {ToSet(ss[k]) : k \in 1..n}
  BY <1>5, Zenon DEF K
<1> QED BY <1>1, <1>6, <1>7, <1>8, Zenon

(* The dimensions of a list of sections *)
Dims(q) == [j \in DOMAIN q |-> q[j].dim]

LEMMA ConcatOf ==
  ASSUME NEW T, NEW p \in Seq(T), NEW q \in Seq(T)
  PROVE  /\ Len(p \o q) = Len(p) + Len(q) /\ p \o q \in Seq(T)
         /\ DOMAIN (p \o q) = 1..Len(p \o q)
         /\ \A i \in 1..Len(p \o q) : (p \o q)[i] = IF i <= Len(p) THEN p[i] ELSE q[i - Len(p)]
BY ConcatProperties

LEMMA DimsOfConcat ==
  ASSUME NEW T, NEW p \in Seq(T), NEW q \in Seq(T)
  PROVE  Dims(p \o q) = Dims(p) \o Dims(q)
<1> DEFINE c == p \o q
           U == {x.dim : x \in T}
<1>1. /\ Len(p) \in Nat /\ Len(q) \in Nat /\ Len(c) = Len(p) + Len(q)
      /\ DOMAIN p = 1..Len(p) /\ DOMAIN q = 1..Len(q) /\ DOMAIN c = 1..Len(c)
      /\ \A i \in 1..Len(c) : c[i] = IF i <= Len(p) THEN p[i] ELSE q[i - Len(p)]
      /\ c \in Seq(T)
  BY ConcatProperties
<1>2. ASSUME NEW s \in Seq(T)
      PROVE  /\ Dims(s) \in Seq(U) /\ Len(Dims(s)) = Len(s)
             /\ DOMAIN Dims(s) = 1..Len(s)
             /\ \A i \in 1..Len(s) : Dims(s)[i] = s[i].dim
  BY DEF Dims
<1> DEFINE d == Dims(p) \o Dims(q)
<1>3. /\ Len(d) = Len(p) + Len(q) /\ DOMAIN d = 1..(Len(p) + Len(q))
      /\ \A i \in 1..Len(d) : d[i] = IF i <= Len(p) THEN Dims(p)[i] ELSE Dims(q)[i - Len(p)]
      /\ d \in Seq(U)
  <2>1. Dims(p) \in Seq(U) /\ Dims(q) \in Seq(U) /\ Len(Dims(p)) = Len(p) /\ Len(Dims(q)) = Len(q)
    BY <1>2
  <2> DEFINE a == Dims(p)
             b == Dims(q)
  <2> HIDE DEF U, a, b
  <2>2. a \in Seq(U) /\ b \in Seq(U) /\ Len(a) = Len(p) /\ Len(b) = Len(q)
    BY <2>1 DEF a, b
  <2>3. /\ Len(a \o b) = Len(a) + Len(b) /\ a \o b \in Seq(U)
        /\ \A i \in 1..Len(a \o b) : (a \o b)[i] = IF i <= Len(a) THEN a[i] ELSE b[i - Len(a)]
    BY <2>2, ConcatOf, Zenon
  <2>4. DOMAIN (a \o b) = 1..Len(a \o b)
    BY <2>2, ConcatOf, Zenon
  <2> QED BY <2>2, <2>3, <2>4, Zenon DEF a, b
<1> HIDE DEF c, d, U
<1>4. Dims(c) \in Seq(U) /\ Len(Dims(c)) = Len(d)
  BY <1>1, <1>2, <1>3
<1>5. ASSUME NEW i \in 1..Len(d) PROVE Dims(c)[i] = d[i]
  <2>1. i \in 1..Len(c) /\ Dims(c)[i] = c[i].dim
    BY <1>1, <1>2, <1>3
  <2>2. CASE i <= Len(p)
    <3>1. i \in 1..Len(p)
      BY <2>2, <1>1
    <3> QED BY <2>1, <2>2, <3>1, <1>1, <1>2, <1>3
  <2>3. CASE ~(i <= Len(p))
    <3>1. i - Len(p) \in 1..Len(q)
      BY <2>3, <1>1, <1>3
    <3> QED BY <2>1, <2>3, <3>1, <1>1, <1>2, <1>3
  <2> QED BY <2>2, <2>3
<1>6. Dims(c) = d
  BY <1>3, <1>4, <1>5, SeqEqual
<1> QED BY <1>6 DEF c, d

LEMMA FlattenDims ==
  ASSUME NEW T, NEW n \in Nat, NEW ss \in [1..n -> Seq(T)], NEW tt \in [1..n -> Seq(T)],
         \A i \in 1..n : tt[i] = Dims(ss[i])
  PROVE  FlattenSeq(tt) = Dims(FlattenSeq(ss))
<1>1. PICK f : Chain(f, T, n, ss) /\ FlattenSeq(ss) = f[n]
  BY Flattened, Zenon
<1>2. /\ f \in [0..n -> Seq(T)]
      /\ f[0] = <<>>
      /\ \A i \in 1..n : f[i] = f[i - 1] \o ss[i]
  BY <1>1, Zenon DEF Chain
<1>3. PICK g : Chain(g, T, n, tt) /\ FlattenSeq(tt) = g[n]
  BY Flattened, Zenon
<1>4. /\ g[0] = <<>>
      /\ \A i \in 1..n : g[i] = g[i - 1] \o tt[i]
  BY <1>3, Zenon DEF Chain
<1> DEFINE K == {i \in 0..n : g[i] = Dims(f[i])}
<1>5. 0 \in K
  <2>1. Dims(<<>>) = <<>>
    BY DEF Dims
  <2> QED BY <2>1, <1>2, <1>4
<1>6. ASSUME NEW i \in 0..(n - 1), i \in K PROVE i + 1 \in K
  <2>0. i + 1 \in 1..n /\ i + 1 \in 0..n /\ (i + 1) - 1 = i /\ i \in 0..n
    OBVIOUS
  <2>1. f[i] \in Seq(T) /\ ss[i + 1] \in Seq(T)
    BY <1>2, <2>0, Zenon
  <2>2. f[i + 1] = f[i] \o ss[i + 1] /\ g[i + 1] = g[i] \o tt[i + 1]
    BY <1>2, <1>4, <2>0, Zenon
  <2>3. g[i] = Dims(f[i])
    BY <1>6
  <2>4. Dims(f[i] \o ss[i + 1]) = Dims(f[i]) \o Dims(ss[i + 1])
    BY <2>1, DimsOfConcat, Zenon
  <2>5. g[i + 1] = Dims(f[i + 1])
    BY <2>0, <2>2, <2>3, <2>4, Zenon
  <2> QED BY <2>0, <2>5
<1> HIDE DEF K
<1>7. n \in K
  <2>1. 0 \in Nat /\ n \in 0..n
    OBVIOUS
  <2> QED BY <1>5, <1>6, <2>1, CountUp
<1> QED BY <1>1, <1>3, <1>7, Zenon DEF K

(* When one element is in S, Only keeps just that one. *)
LEMMA OnlyOne ==
  ASSUME NEW T, NEW s \in Seq(T), NEW S, NEW k \in 1..Len(s),
         s[k] \in S, \A j \in 1..Len(s) : j # k => s[j] \notin S
  PROVE  Only(s, S) = <<s[k]>>
<1> DEFINE n == Len(s)
<1>1. n \in Nat /\ k \in 1..n /\ k \in Nat
  OBVIOUS
<1>f. PICK f : Keeping(f, T, s, S) /\ Only(s, S) = f[n]
  BY OnlySteps, Zenon
<1>2. /\ f \in [0..n -> Seq(T \cap S)]
      /\ f[0] = <<>>
      /\ \A i \in 1..n : f[i] = IF s[i] \in S THEN Append(f[i - 1], s[i]) ELSE f[i - 1]
      /\ Only(s, S) = f[n]
  BY <1>f, Zenon DEF Keeping
<1>3. \A j \in 1..n : j # k => s[j] \notin S
  OBVIOUS
<1> HIDE DEF n
<1> DEFINE E == {i \in 0..(k - 1) : f[i] = <<>>}
           K == {i \in k..n : f[i] = <<s[k]>>}
<1>4. k - 1 \in E
  <2>1. 0 \in E
    BY <1>1, <1>2
  <2>2. ASSUME NEW i \in 0..(k - 1 - 1), i \in E PROVE i + 1 \in E
    <3>1. i + 1 \in 1..n /\ i + 1 # k /\ i + 1 \in 0..(k - 1) /\ (i + 1) - 1 = i
      BY <1>1
    <3>2. f[i + 1] = f[i]
      BY <1>2, <1>3, <3>1, Zenon
    <3> QED BY <3>1, <3>2, <2>2
  <2> HIDE DEF E
  <2>3. 0 \in Nat /\ k - 1 \in Nat /\ k - 1 \in 0..(k - 1)
    BY <1>1
  <2> QED BY <2>1, <2>2, <2>3, CountUp
<1>5. n \in K
  <2>1. k \in K
    <3>1. f[k] = Append(f[k - 1], s[k])
      BY <1>1, <1>2, Zenon
    <3>2. f[k - 1] = <<>>
      BY <1>4
    <3>3. Append(<<>>, s[k]) = <<s[k]>>
      OBVIOUS
    <3> QED BY <3>1, <3>2, <3>3, <1>1
  <2>2. ASSUME NEW i \in k..(n - 1), i \in K PROVE i + 1 \in K
    <3>1. i + 1 \in 1..n /\ i + 1 \in k..n /\ (i + 1) - 1 = i /\ i + 1 # k
      BY <1>1
    <3>2. f[i + 1] = f[i]
      BY <1>2, <1>3, <3>1, Zenon
    <3> QED BY <3>1, <3>2, <2>2, Zenon
  <2> HIDE DEF K
  <2>3. n \in k..n
    BY <1>1
  <2> QED BY <2>1, <2>2, <2>3, <1>1, CountUp
<1> QED BY <1>2, <1>5, Zenon DEF K

(* No two elements of one dimension *)
Once(s) == \A i, j \in DOMAIN s : s[i].dim = s[j].dim => i = j

LEMMA OnlyOnce ==
  ASSUME NEW T, NEW s \in Seq(T), NEW S, Once(s)
  PROVE  Once(Only(s, S))
<1> DEFINE n == Len(s)
<1>1. n \in Nat /\ DOMAIN s = 1..n
  OBVIOUS
<1>f. PICK f : Keeping(f, T, s, S) /\ Only(s, S) = f[n]
  BY OnlySteps, Zenon
<1>2. /\ f \in [0..n -> Seq(T \cap S)]
      /\ f[0] = <<>>
      /\ \A i \in 1..n : f[i] = IF s[i] \in S THEN Append(f[i - 1], s[i]) ELSE f[i - 1]
      /\ Only(s, S) = f[n]
  BY <1>f, Zenon DEF Keeping
<1> HIDE DEF n
<1> DEFINE From(q, i) == \A j \in DOMAIN q : \E k \in 1..i : q[j] = s[k]
           K == {i \in 0..n : Once(f[i]) /\ From(f[i], i)}
<1>3. 0 \in K
  BY <1>1, <1>2 DEF Once
<1>4. ASSUME NEW i \in 0..(n - 1), i \in K PROVE i + 1 \in K
  <2>0. i + 1 \in 1..n /\ i + 1 \in 0..n /\ (i + 1) - 1 = i /\ i \in 0..n
    BY <1>1
  <2>1. f[i] \in Seq(T \cap S) /\ Once(f[i]) /\ From(f[i], i)
    BY <1>2, <1>4, <2>0
  <2>2. f[i + 1] = IF s[i + 1] \in S THEN Append(f[i], s[i + 1]) ELSE f[i]
    BY <1>2, <2>0, Zenon
  <2>3. From(f[i], i + 1)
    BY <2>1, <1>1
  <2>4. CASE s[i + 1] \notin S
    BY <2>0, <2>1, <2>2, <2>3, <2>4, Zenon
  <2>5. CASE s[i + 1] \in S
    <3> DEFINE q == f[i]
               a == Append(q, s[i + 1])
    <3>1. /\ Len(q) \in Nat /\ DOMAIN q = 1..Len(q) /\ DOMAIN a = 1..(Len(q) + 1)
          /\ a[Len(q) + 1] = s[i + 1] /\ \A j \in 1..Len(q) : a[j] = q[j]
      BY <2>1
    <3>2. f[i + 1] = a
      BY <2>2, <2>5, Zenon
    <3> HIDE DEF a
    <3>3. From(a, i + 1)
      <4> SUFFICES ASSUME NEW j \in DOMAIN a PROVE \E k \in 1..(i + 1) : a[j] = s[k]
        OBVIOUS
      <4>1. CASE j = Len(q) + 1
        BY <4>1, <3>1, <2>0
      <4>2. CASE j \in 1..Len(q)
        <5>1. PICK k \in 1..i : q[j] = s[k]
          BY <4>2, <3>1, <2>1
        <5> QED BY <5>1, <4>2, <3>1
      <4> QED BY <4>1, <4>2, <3>1
    <3>4. \A j \in 1..Len(q) : q[j].dim # s[i + 1].dim
      <4> SUFFICES ASSUME NEW j \in 1..Len(q) PROVE q[j].dim # s[i + 1].dim
        OBVIOUS
      <4>1. PICK k \in 1..i : q[j] = s[k]
        BY <3>1, <2>1
      <4>2. k \in DOMAIN s /\ i + 1 \in DOMAIN s /\ k # i + 1
        BY <1>1, <2>0
      <4> QED BY <4>1, <4>2, Zenon DEF Once
    <3>5. Once(a)
      <4> SUFFICES ASSUME NEW j \in DOMAIN a, NEW k \in DOMAIN a, a[j].dim = a[k].dim
                   PROVE  j = k
        BY DEF Once
      <4>1. CASE j \in 1..Len(q) /\ k \in 1..Len(q)
        <5>1. j \in DOMAIN q /\ k \in DOMAIN q /\ q[j].dim = q[k].dim
          BY <3>1, <4>1
        <5> QED BY <5>1, <2>1, Zenon DEF Once
      <4>2. CASE j = Len(q) + 1 /\ k \in 1..Len(q)
        BY <3>1, <3>4, <4>2
      <4>3. CASE k = Len(q) + 1 /\ j \in 1..Len(q)
        BY <3>1, <3>4, <4>3
      <4> QED BY <4>1, <4>2, <4>3, <3>1
    <3> HIDE DEF From
    <3> QED BY <2>0, <3>2, <3>3, <3>5
  <2> QED BY <2>4, <2>5
<1> HIDE DEF K
<1>5. n \in K
  <2>1. 0 \in Nat /\ n \in 0..n
    BY <1>1
  <2> QED BY <1>1, <1>3, <1>4, <2>1, CountUp
<1> QED BY <1>2, <1>5, Zenon DEF K

(* The element of a dimension, when there is only one *)
LEMMA OfDimensionOnce ==
  ASSUME NEW T, NEW s \in Seq(T), Once(s), NEW d
  PROVE  /\ \A i \in DOMAIN s : s[i].dim = d => OfDimension(s, d) = <<s[i]>>
         /\ (\A i \in DOMAIN s : s[i].dim # d) => OfDimension(s, d) = <<>>
<1> DEFINE S == {r \in ToSet(s) : r.dim = d}
<1>0. OfDimension(s, d) = Only(s, S) /\ DOMAIN s = 1..Len(s)
  BY DEF OfDimension
<1>1. ASSUME NEW i \in DOMAIN s, s[i].dim = d PROVE OfDimension(s, d) = <<s[i]>>
  <2>1. s[i] \in S
    BY <1>1 DEF ToSet
  <2>2. \A j \in 1..Len(s) : j # i => s[j] \notin S
    BY <1>0, <1>1 DEF Once
  <2> HIDE DEF S
  <2> QED BY <1>0, <2>1, <2>2, OnlyOne
<1>2. ASSUME \A i \in DOMAIN s : s[i].dim # d PROVE OfDimension(s, d) = <<>>
  <2>1. S = {}
    BY <1>2 DEF ToSet
  <2> HIDE DEF S
  <2>2. Only(s, S) \in Seq(T \cap S)
    BY OnlySet, Zenon
  <2> QED BY <1>0, <2>1, <2>2
<1> QED BY <1>1, <1>2, Zenon

(* Sorting keeps every result whose dimension is in the order, *)
LEMMA InOrderSet ==
  ASSUME NEW O, NEW order \in Seq(O), NEW T, NEW results \in Seq(T)
  PROVE  /\ InOrder(order, results) \in Seq(T)
         /\ ToSet(InOrder(order, results)) = {r \in ToSet(results) : r.dim \in ToSet(order)}
<1> DEFINE n == Len(order)
           ss == [i \in 1..n |-> OfDimension(results, order[i])]
           At(d) == {r \in ToSet(results) : r.dim = d}
<1>1. n \in Nat /\ DOMAIN order = 1..n
  OBVIOUS
<1>2. InOrder(order, results) = FlattenSeq(ss)
  BY <1>1, Zenon DEF InOrder
<1>3. ASSUME NEW d PROVE OfDimension(results, d) \in Seq(T) /\ ToSet(OfDimension(results, d)) = At(d)
  <2>1. OfDimension(results, d) = Only(results, At(d)) /\ ToSet(results) \cap At(d) = At(d)
    BY DEF OfDimension
  <2> HIDE DEF At
  <2>2. /\ Only(results, At(d)) \in Seq(T \cap At(d))
        /\ ToSet(Only(results, At(d))) = ToSet(results) \cap At(d)
    BY OnlySet, Zenon
  <2>3. Seq(T \cap At(d)) \subseteq Seq(T)
    BY SeqMonotonic
  <2> QED BY <2>1, <2>2, <2>3
<1>4. ss \in [1..n -> Seq(T)]
  BY <1>3
<1>5. {ToSet(q) : q \in ToSet(ss)} = {At(d) : d \in ToSet(order)}
  <2>1. ToSet(ss) = {OfDimension(results, order[i]) : i \in 1..n}
    BY DEF ToSet
  <2>2. ToSet(order) = {order[i] : i \in 1..n}
    BY <1>1 DEF ToSet
  <2> HIDE DEF ss, At, n
  <2>3. {ToSet(q) : q \in ToSet(ss)} = {ToSet(OfDimension(results, order[i])) : i \in 1..n}
    BY <2>1, Zenon
  <2>4. \A i \in 1..n : ToSet(OfDimension(results, order[i])) = At(order[i])
    BY <1>3, Zenon
  <2>5. {At(d) : d \in ToSet(order)} = {At(order[i]) : i \in 1..n}
    BY <2>2, Zenon
  <2> QED BY <2>3, <2>4, <2>5, Zenon
<1>6. FlattenSeq(ss) \in Seq(T) /\ ToSet(FlattenSeq(ss)) = UNION {ToSet(q) : q \in ToSet(ss)}
  <2> HIDE DEF ss, n
  <2> QED BY <1>1, <1>4, SetOfFlatten, Zenon
<1>7. UNION {At(d) : d \in ToSet(order)} = {r \in ToSet(results) : r.dim \in ToSet(order)}
  OBVIOUS
<1> HIDE DEF ss, At
<1> QED BY <1>2, <1>5, <1>6, <1>7, Zenon

(* and puts the dimensions of the results in that order. *)
LEMMA InOrderDims ==
  ASSUME NEW O, NEW order \in Seq(O), NEW T, NEW results \in Seq(T), Once(results)
  PROVE  Dims(InOrder(order, results)) = Only(order, {r.dim : r \in ToSet(results)})
<1> DEFINE n == Len(order)
           D == {r.dim : r \in ToSet(results)}
           ss == [i \in 1..n |-> OfDimension(results, order[i])]
           tt == [i \in 1..n |-> When(order[i] \in D, order[i])]
<1>1. n \in Nat /\ DOMAIN order = 1..n /\ \A i \in 1..n : order[i] \in O
  OBVIOUS
<1>2. InOrder(order, results) = FlattenSeq(ss) /\ Only(order, D) = FlattenSeq(tt)
  BY <1>1, Zenon DEF InOrder, Only
<1>3. ASSUME NEW i \in 1..n
      PROVE  ss[i] \in Seq(T) /\ tt[i] \in Seq(O) /\ tt[i] = Dims(ss[i])
  <2>1. ss[i] = OfDimension(results, order[i])
    OBVIOUS
  <2>2. tt[i] = IF order[i] \in D THEN <<order[i]>> ELSE <<>>
    BY DEF When
  <2>3. DOMAIN results = 1..Len(results) /\ \A k \in 1..Len(results) : results[k] \in T
    OBVIOUS
  <2>4. CASE order[i] \in D
    <3>1. PICK k \in DOMAIN results : results[k].dim = order[i]
      BY <2>4 DEF ToSet
    <3>2. ss[i] = <<results[k]>>
      BY <2>1, <3>1, OfDimensionOnce, Zenon
    <3>3. tt[i] = <<order[i]>>
      BY <2>2, <2>4, Zenon
    <3>4. Dims(<<results[k]>>) = <<results[k].dim>>
      BY DEF Dims
    <3>5. <<results[k]>> \in Seq(T) /\ <<order[i]>> \in Seq(O)
      BY <1>1, <2>3, <3>1
    <3> QED BY <3>1, <3>2, <3>3, <3>4, <3>5, Zenon
  <2>5. CASE order[i] \notin D
    <3>1. \A k \in DOMAIN results : results[k].dim # order[i]
      BY <2>5 DEF ToSet
    <3>2. ss[i] = <<>>
      BY <2>1, <3>1, OfDimensionOnce, Zenon
    <3>3. tt[i] = <<>>
      BY <2>2, <2>5, Zenon
    <3>4. Dims(<<>>) = <<>>
      BY DEF Dims
    <3>5. <<>> \in Seq(T) /\ <<>> \in Seq(O)
      OBVIOUS
    <3> QED BY <3>2, <3>3, <3>4, <3>5, Zenon
  <2> QED BY <2>4, <2>5
<1>4. ss \in [1..n -> Seq(T)] /\ tt \in [1..n -> Seq(O)]
  BY <1>3
<1>5. \A i \in 1..n : tt[i] = Dims(ss[i])
  BY <1>3, Zenon
<1> HIDE DEF ss, tt, n
<1>6. FlattenSeq(tt) = Dims(FlattenSeq(ss))
  <2> DEFINE U == T \union O
  <2>1. Seq(T) \subseteq Seq(U) /\ Seq(O) \subseteq Seq(U)
    BY SeqMonotonic
  <2>2. ss \in [1..n -> Seq(U)] /\ tt \in [1..n -> Seq(U)]
    <3> HIDE DEF U
    <3> QED BY <1>4, <2>1
  <2> HIDE DEF U
  <2> QED BY <1>1, <1>5, <2>2, FlattenDims, Zenon
<1> QED BY <1>2, <1>6, Zenon

------------------------------------------------------------------------------
(* Detectors and what is shown of them, one dimension at a time *)

(* Nothing found that the renderer of a dimension asks for *)
Silent(d, data) ==
  /\ SilentBut(data, Unread(d))
  /\ \A p \in DOMAIN data.parts : SilentBut(data.parts[p], Unread(d))

(* What the reader of the section of a detector that did not throw can rely *)
(* on: the names are there, nothing is shown without a signal, and an empty *)
(* section hides nothing its renderer asks for.                             *)
Faithful(d, result) ==
  LET data == result.data
      shown == HumanizeDetectorData(d, data)
  IN  /\ result.status = "ok"
      /\ DetectedNames(result) \subseteq ToSet(shown.values)
      /\ DetectedNames(result) # {} => HasSignal(data)
      /\ ~shown.empty => HasSignal(data)
      /\ shown.empty => Silent(d, data)

(* What makes a signal *)
LEMMA ListSignal ==
  ASSUME NEW data, NEW f \in DOMAIN data.lists, data.lists[f] # <<>>
  PROVE  HasSignal(data)
BY DEF HasSignal, OwnSignal

LEMMA CountSignal ==
  ASSUME NEW data, NEW f \in DOMAIN data.counts, data.counts[f] > 0
  PROVE  HasSignal(data)
BY DEF HasSignal, OwnSignal

LEMMA TextSignal ==
  ASSUME NEW data, NEW f \in DOMAIN data.texts, data.texts[f] \ {"", "unknown", "none"} # {}
  PROVE  HasSignal(data)
BY DEF HasSignal, OwnSignal

LEMMA FlagSignal ==
  ASSUME NEW data, NEW f \in DOMAIN data.flags, data.flags[f]
  PROVE  HasSignal(data)
BY DEF HasSignal, OwnSignal

(* Most results have no objects inside. *)
LEMMA SilentFlat ==
  ASSUME NEW d, NEW data, DOMAIN data.parts = {}, SilentBut(data, Unread(d))
  PROVE  Silent(d, data)
BY DEF Silent

(* A detector of a list of names, shown as that list *)
LEMMA ListedFaithfully ==
  ASSUME NEW d, NEW r,
         r.status = "ok", "detected" \in DOMAIN r.data.lists,
         HumanizeDetectorData(d, r.data) = RenderList(r.data.lists["detected"]),
         r.data.lists["detected"] = <<>> => Silent(d, r.data)
  PROVE  Faithful(d, r)
<1> DEFINE names == r.data.lists["detected"]
           shown == HumanizeDetectorData(d, r.data)
<1>1. DetectedNames(r) = ToSet(names)
  BY DEF DetectedNames
<1>2. shown.empty = (names = <<>>) /\ shown.values = names
  BY DEF RenderList, Summary
<1>3. names # <<>> => HasSignal(r.data)
  BY ListSignal
<1>4. ToSet(<<>>) = {}
  BY DEF ToSet
<1> HIDE DEF names, shown
<1>5. DetectedNames(r) # {} => HasSignal(r.data)
  BY <1>1, <1>3, <1>4
<1>6. ~shown.empty => HasSignal(r.data)
  BY <1>2, <1>3
<1>7. shown.empty => Silent(d, r.data)
  BY <1>2 DEF names
<1> QED BY <1>1, <1>2, <1>5, <1>6, <1>7, Zenon DEF Faithful, shown

(* A detector of something else *)
LEMMA UnlistedFaithfully ==
  ASSUME NEW d, NEW r, NEW shown, shown = HumanizeDetectorData(d, r.data),
         r.status = "ok", "detected" \notin DOMAIN r.data.lists, "primary" \notin DOMAIN r.data.texts,
         ~shown.empty => HasSignal(r.data),
         shown.empty => Silent(d, r.data)
  PROVE  Faithful(d, r)
<1>1. DetectedNames(r) = {}
  BY DEF DetectedNames, TextField
<1> QED BY <1>1, Zenon DEF Faithful

(* The lists of such a detector are all the list of what it detected, its   *)
(* texts the first of it, apart from what is never read.                    *)
OneList(d, r) ==
  /\ r.status = "ok" /\ "detected" \in DOMAIN r.data.lists
  /\ \A f \in DOMAIN r.data.lists : r.data.lists[f] = r.data.lists["detected"]
  /\ DOMAIN r.data.counts = {} /\ DOMAIN r.data.flags = {} /\ DOMAIN r.data.parts = {}
  /\ \A f \in DOMAIN r.data.texts \ Unread(d) : r.data.texts[f] = First(r.data.lists["detected"])

LEMMA OneListSilent ==
  ASSUME NEW d, NEW r, OneList(d, r), r.data.lists["detected"] = <<>>
  PROVE  Silent(d, r.data)
<1>1. SilentBut(r.data, Unread(d))
  BY DEF OneList, SilentBut, First
<1> QED BY <1>1, SilentFlat DEF OneList

ListDimensions == {"cloudProvider", "cdn", "authProvider", "analytics", "thirdPartyServices",
    "reverseProxy", "libraries", "stateManagement", "routing", "cssFramework", "designSystem",
    "databaseIndicators", "backendFramework"}

(* The section of these dimensions is the list of names. *)
LEMMA HumanizeList ==
  ASSUME NEW d \in ListDimensions, NEW data, "detected" \in DOMAIN data.lists
  PROVE  HumanizeDetectorData(d, data) = RenderList(data.lists["detected"])
BY DEF HumanizeDetectorData, RenderDetectedList, ListField, ListDimensions

LEMMA OneListFaithful ==
  ASSUME NEW d \in ListDimensions, NEW r, OneList(d, r)
  PROVE  Faithful(d, r)
<1>1. HumanizeDetectorData(d, r.data) = RenderList(r.data.lists["detected"])
  BY HumanizeList DEF OneList
<1>2. r.data.lists["detected"] = <<>> => Silent(d, r.data)
  BY OneListSilent
<1> QED BY <1>1, <1>2, ListedFaithfully DEF OneList

(* Detect(d, page) one dimension at a time *)
LEMMA ListDetectors ==
  ASSUME NEW page, NEW d \in ListDimensions, d # "backendFramework"
  PROVE  OneList(d, Detect(d, page))
<1>1. OneList("cloudProvider", DetectCloudProvider(page))
  BY DEF OneList, DetectCloudProvider, Ok, Signalled, Data, NoFields, Unread
<1>2. OneList("cdn", DetectCdn(page))
  BY DEF OneList, DetectCdn, Ok, Signalled, Data, NoFields, Unread
<1>3. OneList("authProvider", DetectAuthProvider(page))
  BY DEF OneList, DetectAuthProvider, Ok, Signalled, Data, NoFields, Unread
<1>4. OneList("reverseProxy", DetectReverseProxy(page))
  BY DEF OneList, DetectReverseProxy, Ok, Signalled, Data, NoFields, Unread
<1>5. OneList("analytics", DetectAnalytics(page))
  BY DEF OneList, DetectAnalytics, Ok, Data, NoFields, Unread
<1>6. OneList("thirdPartyServices", DetectThirdPartyServices(page))
  BY DEF OneList, DetectThirdPartyServices, Ok, Data, NoFields, Unread
<1>7. OneList("libraries", DetectLibraries(page))
  BY DEF OneList, DetectLibraries, Ok, Data, NoFields, Unread
<1>8. OneList("stateManagement", DetectStateManagement(page))
  BY DEF OneList, DetectStateManagement, Ok, Data, NoFields, Unread
<1>9. OneList("routing", DetectRouting(page))
  BY DEF OneList, DetectRouting, Ok, Data, NoFields, Unread
<1>10. OneList("cssFramework", DetectCssFramework(page))
  BY DEF OneList, DetectCssFramework, Ok, Data, NoFields, Unread
<1>11. OneList("designSystem", DetectDesignSystem(page))
  BY DEF OneList, DetectDesignSystem, Ok, Data, NoFields, Unread
<1>12. OneList("databaseIndicators", DetectDatabaseIndicators(page))
  BY DEF OneList, DetectDatabaseIndicators, Ok, Data, NoFields, Unread
<1> QED BY <1>1, <1>2, <1>3, <1>4, <1>5, <1>6, <1>7, <1>8, <1>9, <1>10, <1>11, <1>12
        DEF Detect, ListDimensions

LEMMA NoSetNoSeq == SetToSeq({}) = <<>>
<1> DEFINE F == [1..Cardinality({}) -> {}]
           Is(f) == IsInjective(f)
<1>1. Cardinality({}) = 0
  BY FS_EmptySet
<1>2. <<>> \in F /\ \A f \in F : f = <<>>
  BY <1>1
<1>3. Is(<<>>)
  BY DEF IsInjective
<1> DEFINE c == CHOOSE f \in F : Is(f)
<1>4. c \in F
  <2> HIDE DEF F, Is
  <2> QED BY <1>2, <1>3
<1> HIDE DEF F
<1>5. SetToSeq({}) = c
  BY DEF SetToSeq, F
<1> QED BY <1>2, <1>4, <1>5

(* Its second list, the languages, is made of the first. *)
LEMMA BackendFaithful ==
  ASSUME NEW page PROVE Faithful("backendFramework", Detect("backendFramework", page))
<1> DEFINE r == DetectBackendFramework(page)
           names == r.data.lists["detected"]
           languages == {LanguageOf[n] : n \in ToSet(names) \cap DOMAIN LanguageOf}
<1>1. /\ r.status = "ok" /\ DOMAIN r.data.lists = {"detected", "language"}
      /\ r.data.lists["language"] = SetToSeq(languages)
  BY DEF DetectBackendFramework, Ok, Data
<1>2. /\ DOMAIN r.data.counts = {} /\ DOMAIN r.data.flags = {} /\ DOMAIN r.data.parts = {}
      /\ DOMAIN r.data.texts = {"primary", "server", "poweredBy"}
      /\ r.data.texts["primary"] = First(names)
  <2>1. /\ r.data.counts = <<>> /\ r.data.flags = <<>> /\ r.data.parts = <<>>
    BY DEF DetectBackendFramework, Ok, Data, NoFields
  <2>2. DOMAIN r.data.texts = {"primary", "server", "poweredBy"}
    BY DEF DetectBackendFramework, Ok, Data
  <2>3. r.data.texts["primary"] = First(names)
    BY DEF DetectBackendFramework, Ok, Data
  <2> HIDE DEF r, names
  <2> QED BY <2>1, <2>2, <2>3
<1> HIDE DEF r
<1>3. names = <<>> => languages = {}
  BY DEF ToSet
<1> HIDE DEF languages, names
<1>4. names = <<>> => SetToSeq(languages) = <<>>
  BY <1>3, NoSetNoSeq
<1>5. Unread("backendFramework") = {"server", "poweredBy"}
  BY DEF Unread
<1>6. ASSUME names = <<>> PROVE SilentBut(r.data, Unread("backendFramework"))
  <2>1. \A f \in DOMAIN r.data.lists : r.data.lists[f] = <<>>
    BY <1>1, <1>4, <1>6 DEF names
  <2>2. r.data.texts["primary"] = {}
    BY <1>2, <1>6 DEF First
  <2> QED BY <1>2, <1>5, <2>1, <2>2 DEF SilentBut
<1>7. names = <<>> => Silent("backendFramework", r.data)
  BY <1>2, <1>6, SilentFlat
<1>8. HumanizeDetectorData("backendFramework", r.data) = RenderList(names)
  BY <1>1, HumanizeList DEF names, ListDimensions
<1>9. Faithful("backendFramework", r)
  BY <1>1, <1>7, <1>8, ListedFaithfully DEF names
<1> QED BY <1>9 DEF r, Detect

(* Which of the fields a renderer tries is there *)
LEMMA FirstListSecond ==
  ASSUME NEW data, NEW a, NEW b, NEW c,
         a \notin DOMAIN data.lists \union DOMAIN data.counts, b \in DOMAIN data.lists
  PROVE  FirstList(data, <<a, b, c>>) = data.lists[b]
<1> DEFINE S == DOMAIN data.lists \union DOMAIN data.counts
           s == <<a, b, c>>
<1>1. s \in Seq({a, b, c}) /\ Len(s) = 3 /\ s[1] = a /\ s[2] = b /\ 2 \in 1..3
  OBVIOUS
<1>2. s[2] \in S /\ \A j \in 1..(2 - 1) : s[j] \notin S
  OBVIOUS
<1> HIDE DEF S, s
<1>3. Only(s, S) # <<>> /\ Head(Only(s, S)) = s[2]
  BY <1>1, <1>2, OnlyFirst
<1>4. FirstList(data, s) = ListField(data, b)
  BY <1>1, <1>3 DEF FirstList, S
<1> QED BY <1>4 DEF ListField, s

LEMMA FirstListFirst ==
  ASSUME NEW data, NEW a, NEW b, a \in DOMAIN data.lists
  PROVE  FirstList(data, <<a, b>>) = data.lists[a]
<1> DEFINE S == DOMAIN data.lists \union DOMAIN data.counts
           s == <<a, b>>
<1>1. s \in Seq({a, b}) /\ Len(s) = 2 /\ s[1] = a /\ 1 \in 1..2
  OBVIOUS
<1>2. s[1] \in S /\ \A j \in 1..(1 - 1) : s[j] \notin S
  OBVIOUS
<1> HIDE DEF S, s
<1>3. Only(s, S) # <<>> /\ Head(Only(s, S)) = s[1]
  BY <1>1, <1>2, OnlyFirst
<1>4. FirstList(data, s) = ListField(data, a)
  BY <1>1, <1>3 DEF FirstList, S
<1> QED BY <1>4 DEF ListField, s

LEMMA FirstListNone ==
  ASSUME NEW data, NEW T, NEW s \in Seq(T), 
         T \cap (DOMAIN data.lists \union DOMAIN data.counts) = {}
  PROVE  FirstList(data, s) = <<>>
<1> DEFINE S == DOMAIN data.lists \union DOMAIN data.counts
<1> HIDE DEF S
<1>1. Only(s, S) \in Seq(T \cap S)
  BY OnlySet, Zenon
<1>2. Only(s, S) = <<>>
  BY <1>1 DEF S
<1> QED BY <1>2 DEF FirstList, S

(* Weights and the sizes of headings accompany the families. *)
LEMMA TypographyFaithful ==
  ASSUME NEW page PROVE Faithful("typography", Detect("typography", page))
<1> DEFINE r == DetectTypography(page)
           shown == HumanizeDetectorData("typography", r.data)
<1>1. /\ r.status = "ok" /\ DOMAIN r.data.lists = {"families", "weights", "scale"}
      /\ DOMAIN r.data.counts = {} /\ DOMAIN r.data.texts = {"baseSize"}
      /\ DOMAIN r.data.flags = {} /\ DOMAIN r.data.parts = {}
  BY DEF DetectTypography, Ok, Data, NoFields
<1> HIDE DEF r
<1>2. FirstList(r.data, <<"fonts", "families", "detected">>) = r.data.lists["families"]
  BY <1>1, FirstListSecond
<1>3. shown = RenderList(r.data.lists["families"])
  BY <1>2 DEF HumanizeDetectorData, RenderTypography
<1>4. shown.empty = (r.data.lists["families"] = <<>>)
  BY <1>3 DEF RenderList, Summary
<1>5. ~shown.empty => HasSignal(r.data)
  BY <1>1, <1>4, ListSignal
<1>6. shown.empty => Silent("typography", r.data)
  <2>1. shown.empty => SilentBut(r.data, Unread("typography"))
    BY <1>1, <1>4 DEF SilentBut, Unread
  <2> QED BY <1>1, <2>1, SilentFlat
<1> HIDE DEF shown
<1>7. Faithful("typography", r)
  BY <1>1, <1>5, <1>6, UnlistedFaithfully DEF shown
<1> QED BY <1>7 DEF r, Detect

LEMMA EmptyConcat ==
  ASSUME NEW T, NEW p \in Seq(T), NEW q \in Seq(T)
  PROVE  p \o q \in Seq(T) /\ ((p \o q = <<>>) <=> (p = <<>> /\ q = <<>>))
<1>1. p \o q \in Seq(T) /\ Len(p \o q) = Len(p) + Len(q) /\ Len(p) \in Nat /\ Len(q) \in Nat
  BY ConcatProperties
<1>2. \A s \in Seq(T) : s = <<>> <=> Len(s) = 0
  BY EmptySeq
<1> QED BY <1>1, <1>2

LEMMA WhenSeq ==
  ASSUME NEW T, NEW c \in BOOLEAN, NEW x \in T
  PROVE  When(c, x) \in Seq(T) /\ (When(c, x) = <<>> <=> ~c)
<1>1. CASE c
  <2>1. When(c, x) = <<x>>
    BY <1>1, Zenon DEF When
  <2>2. <<x>> \in Seq(T) /\ <<x>> # <<>>
    OBVIOUS
  <2> QED BY <1>1, <2>1, <2>2, Zenon
<1>2. CASE ~c
  <2>1. When(c, x) = <<>> /\ <<>> \in Seq(T)
    BY <1>2 DEF When
  <2> QED BY <1>2, <2>1, Zenon
<1> QED BY <1>1, <1>2

LEMMA HitWhenSeq ==
  ASSUME NEW page, NEW p, NEW d, NEW w, NEW T, NEW x \in T
  PROVE  When(Hit(page, p, d, w), x) \in Seq(T)
<1> DEFINE c == Hit(page, p, d, w)
<1>1. c \in BOOLEAN
  BY DEF Hit
<1> HIDE DEF c
<1>2. When(c, x) \in Seq(T)
  BY <1>1, WhenSeq
<1> QED BY <1>2 DEF c

(* Three lists, shown as one *)
LEMMA PaletteFaithful ==
  ASSUME NEW page PROVE Faithful("palette", Detect("palette", page))
<1> DEFINE Kinds == {"background", "text", "border"}
           r == DetectPalette(page)
           l == r.data.lists
           shown == HumanizeDetectorData("palette", r.data)
           all == l["backgroundColors"] \o l["textColors"] \o l["borderColors"]
<1>1. /\ r.status = "ok" /\ DOMAIN l = {"backgroundColors", "textColors", "borderColors"}
      /\ DOMAIN r.data.counts = {} /\ DOMAIN r.data.texts = {}
      /\ DOMAIN r.data.flags = {} /\ DOMAIN r.data.parts = {}
  BY DEF DetectPalette, Ok, Data, NoFields
<1>2. \A f \in DOMAIN l : l[f] \in Seq(Kinds)
  <2> DEFINE colours(kind) == When(Hit(page, "style", "palette", kind), kind)
  <2>1. \A kind \in Kinds : colours(kind) \in Seq(Kinds)
    BY HitWhenSeq
  <2>2. /\ l["backgroundColors"] = colours("background") /\ l["textColors"] = colours("text")
        /\ l["borderColors"] = colours("border")
    BY Zenon DEF DetectPalette, Ok, Data
  <2> HIDE DEF colours
  <2>3. colours("background") \in Seq(Kinds) /\ colours("text") \in Seq(Kinds)
        /\ colours("border") \in Seq(Kinds)
    BY <2>1
  <2> HIDE DEF colours, l
  <2>4. \A f \in {"backgroundColors", "textColors", "borderColors"} : l[f] \in Seq(Kinds)
    BY <2>2, <2>3
  <2> QED BY <1>1, <2>4
<1> HIDE DEF r, l, Kinds
<1>3. (all = <<>>) <=> (\A f \in DOMAIN l : l[f] = <<>>)
  <2>1. l["backgroundColors"] \in Seq(Kinds) /\ l["textColors"] \in Seq(Kinds)
        /\ l["borderColors"] \in Seq(Kinds)
    BY <1>1, <1>2
  <2> QED BY <1>1, <2>1, EmptyConcat
<1> HIDE DEF all
<1>4. shown = RenderList(all)
  BY <1>1 DEF HumanizeDetectorData, RenderPalette, ListField, l, all
<1>5. shown.empty = (all = <<>>)
  BY <1>4 DEF RenderList, Summary
<1> HIDE DEF shown
<1>6. ~shown.empty => HasSignal(r.data)
  BY <1>3, <1>5, ListSignal DEF l
<1>7. shown.empty => Silent("palette", r.data)
  <2>1. shown.empty => SilentBut(r.data, Unread("palette"))
    BY <1>1, <1>3, <1>5 DEF SilentBut, Unread, l
  <2> QED BY <1>1, <2>1, SilentFlat
<1>8. Faithful("palette", r)
  BY <1>1, <1>6, <1>7, UnlistedFaithfully DEF shown, l
<1> QED BY <1>8 DEF r, Detect

(* No list; empty when no text, no count and no flag is there *)
LEMMA SeoFaithful ==
  ASSUME NEW page PROVE Faithful("seo", Detect("seo", page))
<1> DEFINE r == DetectSeo(page)
           shown == HumanizeDetectorData("seo", r.data)
<1>1. /\ r.status = "ok" /\ DOMAIN r.data.lists = {}
      /\ DOMAIN r.data.counts = {"openGraph", "twitter", "jsonLd"}
      /\ DOMAIN r.data.texts = {"title", "description", "canonical", "robots"}
      /\ DOMAIN r.data.flags = {"hasSitemap", "hasRobotsTxt"} /\ DOMAIN r.data.parts = {}
  BY DEF DetectSeo, Ok, Data, NoFields
<1>2. r.data.counts["openGraph"] \in Nat /\ r.data.counts["twitter"] \in Nat
  BY DEF DetectSeo, Ok, Data, Count
<1>3. r.data.texts["title"] \subseteq {"title"} /\ r.data.texts["description"] \subseteq {"description"}
  BY DEF DetectSeo, Ok, Data, Text
<1> HIDE DEF r
<1>4. shown.empty = (/\ ~HasText(r.data, "title") /\ ~HasText(r.data, "description")
                     /\ CountField(r.data, "openGraph") = 0 /\ CountField(r.data, "twitter") = 0
                     /\ ~FlagField(r.data, "hasSitemap") /\ ~FlagField(r.data, "hasRobotsTxt"))
  BY DEF HumanizeDetectorData, RenderSeo, Summary
<1> HIDE DEF shown
<1>5. ~shown.empty => HasSignal(r.data)
  <2>1. ASSUME HasText(r.data, "title") PROVE HasSignal(r.data)
    BY <1>1, <1>3, <2>1, TextSignal DEF HasText, TextField
  <2>2. ASSUME HasText(r.data, "description") PROVE HasSignal(r.data)
    BY <1>1, <1>3, <2>2, TextSignal DEF HasText, TextField
  <2>3. ASSUME CountField(r.data, "openGraph") # 0 PROVE HasSignal(r.data)
    BY <1>1, <1>2, <2>3, CountSignal DEF CountField
  <2>4. ASSUME CountField(r.data, "twitter") # 0 PROVE HasSignal(r.data)
    BY <1>1, <1>2, <2>4, CountSignal DEF CountField
  <2>5. ASSUME NEW f \in {"hasSitemap", "hasRobotsTxt"}, FlagField(r.data, f) PROVE HasSignal(r.data)
    BY <1>1, <2>5, FlagSignal DEF FlagField
  <2> QED BY <1>4, <2>1, <2>2, <2>3, <2>4, <2>5
<1>6. shown.empty => Silent("seo", r.data)
  <2>1. Unread("seo") = {"canonical", "robots", "jsonLd"}
    BY DEF Unread
  <2>2. shown.empty => SilentBut(r.data, Unread("seo"))
    BY <1>1, <1>4, <2>1 DEF SilentBut, HasText, TextField, CountField, FlagField
  <2> QED BY <1>1, <2>2, SilentFlat
<1>7. Faithful("seo", r)
  BY <1>1, <1>5, <1>6, UnlistedFaithfully DEF shown
<1> QED BY <1>7 DEF r, Detect

(* The five sections that are empty whatever was found *)
LEMMA ScrollAnimationFaithful ==
  ASSUME NEW page PROVE Faithful("scrollAnimation", Detect("scrollAnimation", page))
<1> DEFINE r == DetectScrollAnimation(page)
           shown == HumanizeDetectorData("scrollAnimation", r.data)
<1>1. /\ r.status = "ok" /\ DOMAIN r.data.lists = {"libs"} /\ DOMAIN r.data.counts = {}
      /\ DOMAIN r.data.texts = {} /\ DOMAIN r.data.parts = {}
      /\ DOMAIN r.data.flags = {"hasDataScroll", "hasIntersectionObserver"}
  BY DEF DetectScrollAnimation, Ok, Data, NoFields
<1> HIDE DEF r
<1>2. FirstList(r.data, <<"libraries", "detected">>) = <<>>
  <2>1. <<"libraries", "detected">> \in Seq({"libraries", "detected"})
    OBVIOUS
  <2> QED BY <1>1, <2>1, FirstListNone
<1>3. shown.empty
  BY <1>2 DEF HumanizeDetectorData, RenderScrollAnimation, RenderList, Summary
<1>4. shown.empty => Silent("scrollAnimation", r.data)
  <2>1. shown.empty => SilentBut(r.data, Unread("scrollAnimation"))
    BY <1>1 DEF SilentBut, Unread
  <2> QED BY <1>1, <2>1, SilentFlat
<1> HIDE DEF shown
<1>5. Faithful("scrollAnimation", r)
  BY <1>1, <1>3, <1>4, UnlistedFaithfully DEF shown
<1> QED BY <1>5 DEF r, Detect

LEMMA TransitionFaithful ==
  ASSUME NEW page PROVE Faithful("transition", Detect("transition", page))
<1> DEFINE r == DetectTransition(page)
           shown == HumanizeDetectorData("transition", r.data)
<1>1. /\ r.status = "ok" /\ DOMAIN r.data.lists = {"libs"}
      /\ DOMAIN r.data.counts = {"cssTransitionCount"} /\ DOMAIN r.data.texts = {}
      /\ DOMAIN r.data.flags = {"viewTransitionsApi"} /\ DOMAIN r.data.parts = {}
  BY DEF DetectTransition, Ok, Data, NoFields
<1> HIDE DEF r
<1>2. FirstList(r.data, <<"sample", "transitions", "detected">>) = <<>>
  <2>1. <<"sample", "transitions", "detected">> \in Seq({"sample", "transitions", "detected"})
    OBVIOUS
  <2> QED BY <1>1, <2>1, FirstListNone
<1>3. shown.empty
  BY <1>2 DEF HumanizeDetectorData, RenderTransition, RenderList, Summary
<1>4. shown.empty => Silent("transition", r.data)
  <2>1. shown.empty => SilentBut(r.data, Unread("transition"))
    BY <1>1 DEF SilentBut, Unread
  <2> QED BY <1>1, <2>1, SilentFlat
<1> HIDE DEF shown
<1>5. Faithful("transition", r)
  BY <1>1, <1>3, <1>4, UnlistedFaithfully DEF shown
<1> QED BY <1>5 DEF r, Detect

LEMMA DesignTokensFaithful ==
  ASSUME NEW page PROVE Faithful("designTokens", Detect("designTokens", page))
<1> DEFINE r == DetectDesignTokens(page)
           shown == HumanizeDetectorData("designTokens", r.data)
<1>1. /\ r.status = "ok" /\ DOMAIN r.data.lists = {"customProperties"}
      /\ DOMAIN r.data.counts = {"groups"} /\ DOMAIN r.data.texts = {"namingConvention"}
      /\ DOMAIN r.data.flags = {} /\ DOMAIN r.data.parts = {}
  BY DEF DetectDesignTokens, Ok, Data, NoFields
<1> HIDE DEF r
<1>2. FirstList(r.data, <<"tokens", "variables", "detected">>) = <<>>
  <2>1. <<"tokens", "variables", "detected">> \in Seq({"tokens", "variables", "detected"})
    OBVIOUS
  <2> QED BY <1>1, <2>1, FirstListNone
<1>3. shown.empty
  BY <1>2 DEF HumanizeDetectorData, RenderDesignTokens, RenderList, Summary
<1>4. shown.empty => Silent("designTokens", r.data)
  <2>1. shown.empty => SilentBut(r.data, Unread("designTokens"))
    BY <1>1 DEF SilentBut, Unread
  <2> QED BY <1>1, <2>1, SilentFlat
<1> HIDE DEF shown
<1>5. Faithful("designTokens", r)
  BY <1>1, <1>3, <1>4, UnlistedFaithfully DEF shown
<1> QED BY <1>5 DEF r, Detect

LEMMA ArchitectureFaithful ==
  ASSUME NEW page PROVE Faithful("architecture", Detect("architecture", page))
<1> DEFINE r == DetectArchitecture(page)
           shown == HumanizeDetectorData("architecture", r.data)
<1>1. /\ r.status = "ok" /\ DOMAIN r.data.lists = {"signals", "evidence"}
      /\ DOMAIN r.data.texts = {"rendering", "apiStyle", "monolith"}
      /\ DOMAIN r.data.counts = {} /\ DOMAIN r.data.flags = {} /\ DOMAIN r.data.parts = {}
  BY DEF DetectArchitecture, Ok, Data, NoFields
<1> HIDE DEF r
<1>3. shown.empty
  BY <1>1 DEF HumanizeDetectorData, RenderArchitecture, HasText, TextField, Summary
<1>4. shown.empty => Silent("architecture", r.data)
  <2>1. shown.empty => SilentBut(r.data, Unread("architecture"))
    BY <1>1 DEF SilentBut, Unread
  <2> QED BY <1>1, <2>1, SilentFlat
<1> HIDE DEF shown
<1>5. Faithful("architecture", r)
  BY <1>1, <1>3, <1>4, UnlistedFaithfully DEF shown
<1> QED BY <1>5 DEF r, Detect

LEMMA CssCustomizationFaithful ==
  ASSUME NEW page PROVE Faithful("cssCustomization", Detect("cssCustomization", page))
<1> DEFINE r == DetectCssCustomization(page)
           shown == HumanizeDetectorData("cssCustomization", r.data)
<1>1. /\ r.status = "ok" /\ DOMAIN r.data.lists = {"customProperties", "cssInJsRuntime"}
      /\ DOMAIN r.data.counts = {"cssInJsSerialized", "overrideCount"}
      /\ DOMAIN r.data.texts = {} /\ DOMAIN r.data.flags = {} /\ DOMAIN r.data.parts = {}
  BY DEF DetectCssCustomization, Ok, Data, NoFields
<1> HIDE DEF r
<1>3. shown.empty
  BY <1>1 DEF HumanizeDetectorData, RenderCssCustomization, HasText, TextField, Summary
<1>4. shown.empty => Silent("cssCustomization", r.data)
  <2>1. shown.empty => SilentBut(r.data, Unread("cssCustomization"))
    BY <1>1 DEF SilentBut, Unread
  <2> QED BY <1>1, <2>1, SilentFlat
<1> HIDE DEF shown
<1>5. Faithful("cssCustomization", r)
  BY <1>1, <1>3, <1>4, UnlistedFaithfully DEF shown
<1> QED BY <1>5 DEF r, Detect

(* Counts only *)
LEMMA PerformanceFaithful ==
  ASSUME NEW page PROVE Faithful("performance", Detect("performance", page))
<1> DEFINE r == DetectPerformance(page)
           shown == HumanizeDetectorData("performance", r.data)
<1>1. /\ r.status = "ok" /\ DOMAIN r.data.lists = {} /\ DOMAIN r.data.texts = {}
      /\ DOMAIN r.data.counts = PaintMetrics \union
                                   {"totalRequests", "preloads", "preconnects", "totalImages"}
      /\ DOMAIN r.data.flags = {} /\ DOMAIN r.data.parts = {}
  BY DEF DetectPerformance, Ok, Data, NoFields, PaintMetrics
<1>2. \A m \in PaintMetrics : r.data.counts[m] \in Nat
  BY DEF DetectPerformance, Ok, Data, PaintMetrics, Count
<1> HIDE DEF r
<1>3. shown.empty = (\A m \in PaintMetrics : CountField(r.data, m) = 0)
  BY DEF HumanizeDetectorData, RenderPerformance, Summary
<1>4. ~shown.empty => HasSignal(r.data)
  <2> SUFFICES ASSUME ~shown.empty PROVE HasSignal(r.data)
    OBVIOUS
  <2> HIDE DEF shown
  <2>1. PICK m \in PaintMetrics : CountField(r.data, m) # 0
    BY <1>3
  <2>2. m \in DOMAIN r.data.counts /\ r.data.counts[m] > 0
    BY <1>1, <1>2, <2>1 DEF CountField
  <2> QED BY <2>2, CountSignal
<1>5. shown.empty => Silent("performance", r.data)
  <2>1. shown.empty => SilentBut(r.data, Unread("performance"))
    BY <1>1, <1>3 DEF SilentBut, Unread, CountField
  <2> QED BY <1>1, <2>1, SilentFlat
<1> HIDE DEF shown
<1>6. Faithful("performance", r)
  BY <1>1, <1>4, <1>5, UnlistedFaithfully DEF shown
<1> QED BY <1>6 DEF r, Detect

LEMMA GridSystemFaithful ==
  ASSUME NEW page PROVE Faithful("gridSystem", Detect("gridSystem", page))
<1> DEFINE r == DetectGridSystem(page)
           shown == HumanizeDetectorData("gridSystem", r.data)
<1> DEFINE F == {"displayFlexCount", "displayGridCount", "inlineStyleFlex", "inlineStyleGrid"}
<1>1. /\ r.status = "ok" /\ DOMAIN r.data.lists = {} /\ DOMAIN r.data.texts = {}
      /\ DOMAIN r.data.counts = F /\ DOMAIN r.data.flags = {} /\ DOMAIN r.data.parts = {}
  BY DEF DetectGridSystem, Ok, Data, NoFields
<1>2. \A f \in F : r.data.counts[f] \in Nat
  BY DEF DetectGridSystem, Ok, Data, Count
<1> HIDE DEF r
<1>3. shown.empty = (\A m \in F : CountField(r.data, m) = 0)
  BY DEF HumanizeDetectorData, RenderGridSystem, Summary
<1>4. ~shown.empty => HasSignal(r.data)
  <2> SUFFICES ASSUME ~shown.empty PROVE HasSignal(r.data)
    OBVIOUS
  <2> HIDE DEF shown
  <2>1. PICK m \in F : CountField(r.data, m) # 0
    BY <1>3
  <2>2. m \in DOMAIN r.data.counts /\ r.data.counts[m] > 0
    BY <1>1, <1>2, <2>1 DEF CountField
  <2> QED BY <2>2, CountSignal
<1>5. shown.empty => Silent("gridSystem", r.data)
  <2>1. shown.empty => SilentBut(r.data, Unread("gridSystem"))
    BY <1>1, <1>3 DEF SilentBut, Unread, CountField
  <2> QED BY <1>1, <2>1, SilentFlat
<1> HIDE DEF shown
<1>6. Faithful("gridSystem", r)
  BY <1>1, <1>4, <1>5, UnlistedFaithfully DEF shown
<1> QED BY <1>6 DEF r, Detect

(* A tuple is a sequence of its elements. *)
LEMMA TupleSeq ==
  ASSUME NEW n \in Nat, NEW s, s = [i \in 1..n |-> s[i]]
  PROVE  s \in Seq(ToSet(s)) /\ Len(s) = n /\ DOMAIN s = 1..n
<1>1. DOMAIN s = 1..n
  OBVIOUS
<1>2. \A i \in 1..n : s[i] \in ToSet(s)
  BY <1>1 DEF ToSet
<1> DEFINE T == ToSet(s)
<1> HIDE DEF T
<1>3. s \in [1..n -> T]
  BY <1>2, Zenon DEF T
<1>4. s \in Seq(T) /\ Len(s) = n
  BY <1>3
<1> QED BY <1>1, <1>4 DEF T

(* What a table detector finds is made of its table. *)
LEMMA FoundSeq ==
  ASSUME NEW page, NEW dim, NEW table, table \in Seq(ToSet(table)), NEW places
  PROVE  /\ Found(page, dim, table, places) \in Seq(ToSet(table))
         /\ ToSet(Found(page, dim, table, places)) \subseteq ToSet(table)
<1> DEFINE T == ToSet(table)
           S == {n \in T : FoundAt(page, dim, n, places) # "nowhere"}
<1>1. Found(page, dim, table, places) = Only(table, S)
  BY DEF Found
<1>2. T \cap S = S /\ S \subseteq T
  OBVIOUS
<1> HIDE DEF S, T
<1>3. Only(table, S) \in Seq(T \cap S) /\ ToSet(Only(table, S)) = ToSet(table) \cap S
  BY OnlySet DEF T
<1>4. Only(table, S) \in Seq(T)
  BY <1>2, <1>3
<1> QED BY <1>1, <1>3, <1>4 DEF T

LEMMA HeadInSet ==
  ASSUME NEW T, NEW s \in Seq(T), s # <<>>
  PROVE  Head(s) \in T /\ Head(s) = s[1] /\ 1 \in DOMAIN s /\ Head(s) \in ToSet(s)
<1>1. Head(s) \in T /\ Head(s) = s[1] /\ 1 \in DOMAIN s
  OBVIOUS
<1> QED BY <1>1 DEF ToSet

(* No framework has a name that reads as none. *)
LEMMA FrameworkMarkersSeq == FrameworkMarkers \in Seq(ToSet(FrameworkMarkers))
                             /\ "" \notin ToSet(FrameworkMarkers)
                             /\ "unknown" \notin ToSet(FrameworkMarkers)
                             /\ "none" \notin ToSet(FrameworkMarkers)
<1> DEFINE s == FrameworkMarkers
<1>1. s = [i \in 1..9 |-> s[i]]
  BY DEF FrameworkMarkers
<1>2. \A i \in 1..9 : s[i] \notin {"", "unknown", "none"}
  <2> DEFINE N == {"next.js", "nuxt", "remix", "gatsby", "sveltekit", "astro", "react", "vue", "angular"}
  <2>1. \A i \in 1..9 : s[i] \in N
    BY DEF FrameworkMarkers
  <2>2. "" \notin N /\ "unknown" \notin N /\ "none" \notin N
    OBVIOUS
  <2> QED BY <2>1, <2>2, Zenon
<1> HIDE DEF s
<1>3. s \in Seq(ToSet(s)) /\ DOMAIN s = 1..9
  BY <1>1, TupleSeq
<1>4. \A x \in ToSet(s) : x \notin {"", "unknown", "none"}
  BY <1>2, <1>3 DEF ToSet
<1> QED BY <1>3, <1>4 DEF s

LEMMA ComponentFaithful ==
  ASSUME NEW page PROVE Faithful("componentArchitecture", Detect("componentArchitecture", page))
<1> DEFINE r == DetectComponentArchitecture(page)
           shown == HumanizeDetectorData("componentArchitecture", r.data)
           markers == Tagged(page, "componentArchitecture", FrameworkMarkers)
           T == ToSet(FrameworkMarkers)
<1>1. /\ r.status = "ok" /\ DOMAIN r.data.lists = {"markers", "versionHints"}
      /\ r.data.lists["markers"] = markers /\ r.data.lists["versionHints"] = <<>>
      /\ DOMAIN r.data.texts = {"framework", "hydration"}
      /\ r.data.texts["framework"] = First(markers)
  BY DEF DetectComponentArchitecture, Ok, Data
<1>h. /\ markers = <<>> => r.data.texts["hydration"] = {"unknown"}
      /\ DOMAIN r.data.counts = {} /\ DOMAIN r.data.flags = {} /\ DOMAIN r.data.parts = {}
  <2>1. /\ r.data.counts = <<>> /\ r.data.flags = <<>> /\ r.data.parts = <<>>
    BY DEF DetectComponentArchitecture, Ok, Data, NoFields
  <2> DEFINE h == CASE markers = <<>> -> "unknown"
                    [] ToSet(markers) \intersect ServerRendered # {} -> "ssr"
                    [] OTHER -> "spa"
  <2>2. r.data.texts["hydration"] = {h}
    BY DEF DetectComponentArchitecture, Ok, Data
  <2>3. ASSUME markers = <<>> PROVE h = "unknown"
    <3>1. ToSet(markers) \intersect ServerRendered = {}
      BY <2>3 DEF ToSet
    <3> HIDE DEF markers
    <3> QED BY <2>3, <3>1
  <2> HIDE DEF r, markers, h
  <2> QED BY <2>1, <2>2, <2>3
<1>2. markers \in Seq(T)
  BY FoundSeq, FrameworkMarkersSeq, Zenon DEF Tagged
<1> HIDE DEF r, markers, T
<1>3. markers # <<>> => First(markers) \ {"", "unknown", "none"} # {} /\ First(markers) \ {""} # {}
  <2> SUFFICES ASSUME markers # <<>>
               PROVE First(markers) \ {"", "unknown", "none"} # {} /\ First(markers) \ {""} # {}
    OBVIOUS
  <2>1. Head(markers) \in T
    BY <1>2, HeadInSet
  <2>2. Head(markers) \notin {"", "unknown", "none"}
    BY <2>1, FrameworkMarkersSeq DEF T
  <2> QED BY <2>2 DEF First
<1>4. markers = <<>> => First(markers) = {}
  BY DEF First
<1>5. shown.empty = (First(markers) \ {""} = {})
  BY <1>1 DEF HumanizeDetectorData, RenderComponentArchitecture, HasText, TextField, Summary
<1> HIDE DEF shown
<1>6. ~shown.empty => HasSignal(r.data)
  BY <1>1, <1>3, <1>4, <1>5, TextSignal
<1>7. shown.empty => Silent("componentArchitecture", r.data)
  <2>1. shown.empty => markers = <<>>
    BY <1>3, <1>5
  <2>2. markers = <<>> => SilentBut(r.data, Unread("componentArchitecture"))
    BY <1>1, <1>h, <1>4 DEF SilentBut
  <2> QED BY <1>h, <2>1, <2>2, SilentFlat
<1>8. Faithful("componentArchitecture", r)
  BY <1>1, <1>6, <1>7, UnlistedFaithfully DEF shown
<1> QED BY <1>8 DEF r, Detect

LEMMA IconsFaithful ==
  ASSUME NEW page PROVE Faithful("icons", Detect("icons", page))
<1> DEFINE r == DetectIcons(page)
           shown == HumanizeDetectorData("icons", r.data)
<1>1. /\ r.status = "ok" /\ DOMAIN r.data.lists = {"libraries"}
      /\ DOMAIN r.data.counts = {"inlineSvgCount", "totalIcons"} /\ DOMAIN r.data.texts = {}
      /\ DOMAIN r.data.flags = {} /\ DOMAIN r.data.parts = {}
  BY DEF DetectIcons, Ok, Data, NoFields
<1>2. /\ r.data.counts["totalIcons"] \in Nat
      /\ r.data.counts["totalIcons"] = 0 => r.data.counts["inlineSvgCount"] = 0
  BY DEF DetectIcons, Ok, Data, Count
<1> HIDE DEF r
<1>3. shown.empty = (r.data.lists["libraries"] = <<>> /\ r.data.counts["totalIcons"] = 0)
  BY <1>1 DEF HumanizeDetectorData, RenderIcons, ListField, CountField, Summary
<1> HIDE DEF shown
<1>4. ~shown.empty => HasSignal(r.data)
  <2>1. r.data.lists["libraries"] # <<>> => HasSignal(r.data)
    BY <1>1, ListSignal
  <2>2. r.data.counts["totalIcons"] # 0 => r.data.counts["totalIcons"] > 0
    BY <1>2
  <2>3. r.data.counts["totalIcons"] # 0 => HasSignal(r.data)
    BY <1>1, <2>2, CountSignal
  <2> QED BY <1>3, <2>1, <2>3
<1>5. shown.empty => Silent("icons", r.data)
  <2>1. shown.empty => SilentBut(r.data, Unread("icons"))
    BY <1>1, <1>2, <1>3 DEF SilentBut, Unread
  <2> QED BY <1>1, <2>1, SilentFlat
<1>6. Faithful("icons", r)
  BY <1>1, <1>4, <1>5, UnlistedFaithfully DEF shown
<1> QED BY <1>6 DEF r, Detect

LEMMA AnimationFaithful ==
  ASSUME NEW page PROVE Faithful("animation", Detect("animation", page))
<1> DEFINE r == DetectAnimation(page)
           shown == HumanizeDetectorData("animation", r.data)
           libs == Tagged(page, "animation", AnimationSignatures)
           T == ToSet(AnimationSignatures)
           all == <<>> \o <<>> \o <<>> \o libs
<1>1. /\ r.status = "ok" /\ DOMAIN r.data.lists = {"libs"} /\ DOMAIN r.data.texts = {}
      /\ r.data.lists["libs"] = libs
      /\ DOMAIN r.data.counts = {"keyframes", "cssTransitions", "cssAnimations"}
      /\ DOMAIN r.data.flags = {} /\ DOMAIN r.data.parts = {}
  BY DEF DetectAnimation, Ok, Data, NoFields
<1>2. libs \in Seq(T)
  <2>1. AnimationSignatures = [i \in 1..5 |-> AnimationSignatures[i]]
    BY DEF AnimationSignatures
  <2>2. AnimationSignatures \in Seq(T)
    BY <2>1, TupleSeq
  <2> QED BY <2>2, FoundSeq, Zenon DEF Tagged
<1> HIDE DEF r, libs, T
<1>3. all = <<>> <=> libs = <<>>
  <2>1. <<>> \in Seq(T)
    OBVIOUS
  <2> QED BY <1>2, <2>1, EmptyConcat
<1>4. shown = RenderList(all)
  BY <1>1 DEF HumanizeDetectorData, RenderAnimation, ListField
<1> HIDE DEF all
<1>5. shown.empty = (libs = <<>>)
  BY <1>3, <1>4 DEF RenderList, Summary
<1> HIDE DEF shown
<1>6. ~shown.empty => HasSignal(r.data)
  BY <1>1, <1>5, ListSignal
<1>7. shown.empty => Silent("animation", r.data)
  <2>1. shown.empty => SilentBut(r.data, Unread("animation"))
    BY <1>1, <1>5 DEF SilentBut, Unread
  <2> QED BY <1>1, <2>1, SilentFlat
<1>8. Faithful("animation", r)
  BY <1>1, <1>6, <1>7, UnlistedFaithfully DEF shown
<1> QED BY <1>8 DEF r, Detect

LEMMA ResponsiveFaithful ==
  ASSUME NEW page PROVE Faithful("responsive", Detect("responsive", page))
<1> DEFINE r == DetectResponsive(page)
           shown == HumanizeDetectorData("responsive", r.data)
<1>1. /\ r.status = "ok" /\ DOMAIN r.data.lists = {} /\ DOMAIN r.data.texts = {"viewport"}
      /\ r.data.texts["viewport"] \subseteq {"viewport"} /\ DOMAIN r.data.parts = {}
      /\ DOMAIN r.data.counts = {"mediaQueries", "containerQueries"} /\ DOMAIN r.data.flags = {}
  BY DEF DetectResponsive, Ok, Data, NoFields, Text
<1> HIDE DEF r
<1>2. shown = RenderResponsive(r.data)
  BY <1>1 DEF HumanizeDetectorData
<1>3. shown.empty = (r.data.texts["viewport"] \ {""} = {})
  <2>1. HasText(r.data, "viewport") <=> r.data.texts["viewport"] \ {""} # {}
    BY <1>1 DEF HasText, TextField
  <2>2. ListField(r.data, "mediaQueries") = <<>>
    BY <1>1 DEF ListField
  <2>3. shown.empty = (~HasText(r.data, "viewport") /\ ListField(r.data, "mediaQueries") = <<>>)
    BY <1>2 DEF RenderResponsive, Summary
  <2> HIDE DEF shown
  <2> QED BY <2>1, <2>2, <2>3
<1> HIDE DEF shown
<1>4. ~shown.empty => HasSignal(r.data)
  BY <1>1, <1>3, TextSignal
<1>5. shown.empty => Silent("responsive", r.data)
  <2>1. shown.empty => SilentBut(r.data, Unread("responsive"))
    BY <1>1, <1>3 DEF SilentBut, Unread
  <2> QED BY <1>1, <2>1, SilentFlat
<1>6. Faithful("responsive", r)
  BY <1>1, <1>4, <1>5, UnlistedFaithfully DEF shown
<1> QED BY <1>6 DEF r, Detect

(* The endpoints hold all that the two other lists hold. *)
LEMMA ApisFaithful ==
  ASSUME NEW page PROVE Faithful("apisConsumed", Detect("apisConsumed", page))
<1> DEFINE r == DetectApisConsumed(page)
           shown == HumanizeDetectorData("apisConsumed", r.data)
           Kinds == {"graphql", "rest", "call"}
           g == When(GraphqlCall(page), "graphql")
           e == When(RestCall(page), "rest")
           c == When(PlainCall(page), "call")
<1>1. /\ r.status = "ok" /\ DOMAIN r.data.lists = {"endpoints", "restHosts", "graphqlEndpoints"}
      /\ r.data.lists["endpoints"] = g \o e \o c
      /\ r.data.lists["restHosts"] = When(RestCall(page), "host")
      /\ r.data.lists["graphqlEndpoints"] = g /\ DOMAIN r.data.texts = {}
      /\ DOMAIN r.data.counts = {"restCount", "graphqlCount", "totalRequests"}
      /\ r.data.counts["restCount"] = (IF RestCall(page) THEN 1 ELSE 0)
      /\ DOMAIN r.data.flags = {} /\ DOMAIN r.data.parts = {}
  BY DEF DetectApisConsumed, Ok, Data, NoFields
<1>2. /\ g \in Seq(Kinds) /\ e \in Seq(Kinds) /\ c \in Seq(Kinds)
      /\ e = <<>> => ~RestCall(page)
  <2>1. GraphqlCall(page) \in BOOLEAN /\ RestCall(page) \in BOOLEAN /\ PlainCall(page) \in BOOLEAN
    BY DEF GraphqlCall, RestCall, JsonCall, PlainCall, Hit
  <2>2. "graphql" \in Kinds /\ "rest" \in Kinds /\ "call" \in Kinds
    OBVIOUS
  <2> HIDE DEF Kinds
  <2>3. g \in Seq(Kinds)
    BY <2>1, <2>2, WhenSeq, Zenon
  <2>4. e \in Seq(Kinds) /\ (e = <<>> => ~RestCall(page))
    BY <2>1, <2>2, WhenSeq, Zenon
  <2>5. c \in Seq(Kinds)
    BY <2>1, <2>2, WhenSeq, Zenon
  <2> QED BY <2>3, <2>4, <2>5, Zenon
<1>3. ~RestCall(page) => When(RestCall(page), "host") = <<>>
  BY DEF When
<1> HIDE DEF r, g, e, c, Kinds
<1>4. g \o e \o c = <<>> => g = <<>> /\ e = <<>>
  BY <1>2, EmptyConcat
<1>5. FirstList(r.data, <<"endpoints", "detected">>) = r.data.lists["endpoints"]
  BY <1>1, FirstListFirst
<1>6. shown = RenderList(r.data.lists["endpoints"])
  BY <1>5 DEF HumanizeDetectorData, RenderApisConsumed
<1>7. shown.empty = (r.data.lists["endpoints"] = <<>>)
  BY <1>6 DEF RenderList, Summary
<1> HIDE DEF shown
<1>8. ~shown.empty => HasSignal(r.data)
  BY <1>1, <1>7, ListSignal
<1>9. shown.empty => Silent("apisConsumed", r.data)
  <2>1. shown.empty => SilentBut(r.data, Unread("apisConsumed"))
    BY <1>1, <1>2, <1>3, <1>4, <1>7 DEF SilentBut, Unread
  <2> QED BY <1>1, <2>1, SilentFlat
<1>10. Faithful("apisConsumed", r)
  BY <1>1, <1>8, <1>9, UnlistedFaithfully DEF shown
<1> QED BY <1>10 DEF r, Detect

LEMMA DockerFaithful ==
  ASSUME NEW page PROVE Faithful("dockerKubernetes", Detect("dockerKubernetes", page))
<1> DEFINE r == DetectDockerKubernetes(page)
           shown == HumanizeDetectorData("dockerKubernetes", r.data)
           Kinds == {"docker", "healthz", "url"}
           when(what, item) == When(Hit(page, "network", "dockerKubernetes", what), item)
           l == r.data.lists
<1>1. /\ r.status = "ok" /\ DOMAIN l = {"docker", "kubernetes"} /\ DOMAIN r.data.texts = {}
      /\ DOMAIN r.data.counts = {} /\ DOMAIN r.data.flags = {} /\ DOMAIN r.data.parts = {}
      /\ l["docker"] = when("docker", "docker")
      /\ l["kubernetes"] = when("healthz", "healthz") \o when("kubernetes", "url")
  BY DEF DetectDockerKubernetes, Ok, Data, NoFields
<1>2. \A what, item \in Kinds \union {"kubernetes"} : item \in Kinds => when(what, item) \in Seq(Kinds)
  BY HitWhenSeq
<1> HIDE DEF when
<1>3. l["docker"] \in Seq(Kinds) /\ l["kubernetes"] \in Seq(Kinds)
  <2>1. when("docker", "docker") \in Seq(Kinds) /\ when("healthz", "healthz") \in Seq(Kinds)
        /\ when("kubernetes", "url") \in Seq(Kinds)
    BY <1>2
  <2> HIDE DEF Kinds, r, l
  <2> QED BY <1>1, <2>1, EmptyConcat
<1> HIDE DEF r, l, Kinds
<1>4. shown = RenderList(l["docker"] \o l["kubernetes"])
  BY <1>1 DEF HumanizeDetectorData, RenderDockerKubernetes, ListField, l
<1>5. shown.empty = (l["docker"] \o l["kubernetes"] = <<>>)
  BY <1>4 DEF RenderList, Summary
<1> HIDE DEF shown
<1>6. shown.empty <=> (l["docker"] = <<>> /\ l["kubernetes"] = <<>>)
  <2>1. (l["docker"] \o l["kubernetes"] = <<>>) <=> (l["docker"] = <<>> /\ l["kubernetes"] = <<>>)
    BY <1>3, EmptyConcat, Zenon
  <2> QED BY <1>5, <2>1
<1>7. ~shown.empty => HasSignal(r.data)
  BY <1>1, <1>6, ListSignal DEF l
<1>8. shown.empty => Silent("dockerKubernetes", r.data)
  <2>1. shown.empty => SilentBut(r.data, Unread("dockerKubernetes"))
    BY <1>1, <1>6 DEF SilentBut, Unread, l
  <2> QED BY <1>1, <2>1, SilentFlat
<1>9. Faithful("dockerKubernetes", r)
  BY <1>1, <1>7, <1>8, UnlistedFaithfully DEF shown, l
<1> QED BY <1>9 DEF r, Detect

LEMMA LanguageFaithful ==
  ASSUME NEW page PROVE Faithful("language", Detect("language", page))
<1> DEFINE r == DetectLanguage(page)
<1>1. OneList("language", r)
  BY DEF OneList, DetectLanguage, Ok, Data, NoFields
<1> HIDE DEF r
<1>2. FirstList(r.data, <<"detected", "languages">>) = r.data.lists["detected"]
  BY <1>1, FirstListFirst DEF OneList
<1>3. HumanizeDetectorData("language", r.data) = RenderList(r.data.lists["detected"])
  BY <1>2 DEF HumanizeDetectorData, RenderLanguage
<1>4. r.data.lists["detected"] = <<>> => Silent("language", r.data)
  BY <1>1, OneListSilent
<1>5. Faithful("language", r)
  BY <1>1, <1>3, <1>4, ListedFaithfully DEF OneList
<1> QED BY <1>5 DEF r, Detect

------------------------------------------------------------------------------
(* All thirty, and the sections of a report *)

(* The thirty dimensions *)
Dimensions == {"cssFramework", "cssCustomization", "designSystem", "typography",
    "responsive", "gridSystem", "animation", "scrollAnimation", "transition", "seo",
    "performance", "componentArchitecture", "designTokens", "palette", "icons",
    "backendFramework", "language", "libraries", "stateManagement", "routing",
    "authProvider", "apisConsumed", "thirdPartyServices", "analytics", "cdn",
    "cloudProvider", "reverseProxy", "databaseIndicators", "dockerKubernetes", "architecture"}

LEMMA DetectorListSeq ==
  /\ DetectorList \in Seq(ToSet(DetectorList)) /\ Len(DetectorList) = 30
  /\ DOMAIN DetectorList = 1..30
<1> DEFINE s == DetectorList
<1>1. s = [i \in 1..30 |-> s[i]]
  BY DEF DetectorList
<1> HIDE DEF s
<1>2. s \in Seq(ToSet(s)) /\ Len(s) = 30 /\ DOMAIN s = 1..30
  BY <1>1, TupleSeq
<1> QED BY <1>2 DEF s

LEMMA DetectorListSet == ToSet(DetectorList) = Dimensions
<1>1. DOMAIN DetectorList = 1..30
  BY DetectorListSeq
<1>2. 1..30 = {1, 2, 3, 4, 5, 6, 7, 8, 9, 10, 11, 12, 13, 14, 15, 16, 17, 18, 19, 20,
               21, 22, 23, 24, 25, 26, 27, 28, 29, 30}
  OBVIOUS
<1>3. ToSet(DetectorList) = {DetectorList[i] : i \in 1..30}
  BY <1>1, Zenon DEF ToSet
<1>4. {DetectorList[i] : i \in {1, 2, 3, 4, 5, 6, 7, 8, 9, 10, 11, 12, 13, 14, 15, 16, 17, 18, 19, 20,
               21, 22, 23, 24, 25, 26, 27, 28, 29, 30}} = Dimensions
  BY DEF DetectorList, Dimensions
<1> QED BY <1>2, <1>3, <1>4, Zenon

(* No detector is registered twice. *)
LEMMA DetectorListOnce ==
  \A i, j \in DOMAIN DetectorList : DetectorList[i] = DetectorList[j] => i = j
<1>1. \A i, j \in 1..30 : DetectorList[i] = DetectorList[j] => i = j
  BY SMTT(100) DEF DetectorList
<1> QED BY <1>1, DetectorListSeq, Zenon

(* Every detector is shown faithfully, *)
LEMMA DetectFaithful ==
  ASSUME NEW page, NEW d \in ToSet(DetectorList)
  PROVE  Faithful(d, Detect(d, page))
<1>1. d \in Dimensions
  BY DetectorListSet
<1>2. CASE d \in ListDimensions /\ d # "backendFramework"
  <2>1. OneList(d, Detect(d, page))
    BY <1>2, ListDetectors
  <2> QED BY <1>2, <2>1, OneListFaithful
<1>3. CASE d \notin ListDimensions \/ d = "backendFramework"
  <2>1. \/ d = "cssCustomization" \/ d = "typography" \/ d = "responsive" \/ d = "gridSystem"
        \/ d = "animation" \/ d = "scrollAnimation" \/ d = "transition" \/ d = "seo"
        \/ d = "performance" \/ d = "componentArchitecture" \/ d = "designTokens"
        \/ d = "palette" \/ d = "icons" \/ d = "backendFramework" \/ d = "language"
        \/ d = "apisConsumed" \/ d = "dockerKubernetes" \/ d = "architecture"
    BY <1>1, <1>3 DEF Dimensions, ListDimensions
  <2> QED BY <2>1, TypographyFaithful, PaletteFaithful, SeoFaithful, ScrollAnimationFaithful,
             TransitionFaithful, DesignTokensFaithful, ArchitectureFaithful,
             CssCustomizationFaithful, PerformanceFaithful, GridSystemFaithful,
             ComponentFaithful, IconsFaithful, AnimationFaithful, ResponsiveFaithful,
             ApisFaithful, DockerFaithful, LanguageFaithful, BackendFaithful, Zenon
<1> QED BY <1>2, <1>3

(* and so is the merged result of responsive and gridSystem. *)
Both(page) ==
  Ok([Data(NoFields, NoFields, NoFields, NoFields) EXCEPT
        !.parts = [responsive |-> Detect("responsive", page).data,
                   grid |-> Detect("gridSystem", page).data]], <<>>)

LEMMA PartsNone ==
  ASSUME NEW page
  PROVE  Detect("responsive", page).data.parts = <<>> /\ Detect("gridSystem", page).data.parts = <<>>
BY DEF Detect, DetectResponsive, DetectGridSystem, Ok, Data

LEMMA BothFaithful ==
  ASSUME NEW page PROVE Faithful("responsive", Both(page))
<1> DEFINE r == Both(page)
           shown == HumanizeDetectorData("responsive", r.data)
           a == Detect("responsive", page).data
           b == Detect("gridSystem", page).data
           ra == RenderResponsive(a)
           rb == RenderGridSystem(b)
<1>1. /\ r.status = "ok" /\ DOMAIN r.data.lists = {} /\ DOMAIN r.data.texts = {}
      /\ DOMAIN r.data.counts = {} /\ DOMAIN r.data.flags = {}
      /\ DOMAIN r.data.parts = {"responsive", "grid"}
      /\ r.data.parts["responsive"] = a /\ r.data.parts["grid"] = b
  BY DEF Both, Ok, Data, NoFields
<1>2. a.parts = <<>> /\ b.parts = <<>>
  BY PartsNone
<1>3. ra = HumanizeDetectorData("responsive", a) /\ rb = HumanizeDetectorData("gridSystem", b)
  BY <1>2 DEF HumanizeDetectorData
<1>4. "responsive" \in ToSet(DetectorList) /\ "gridSystem" \in ToSet(DetectorList)
  BY DetectorListSet DEF Dimensions
<1>5. /\ (~ra.empty => HasSignal(a)) /\ (~rb.empty => HasSignal(b))
      /\ (ra.empty => Silent("responsive", a)) /\ (rb.empty => Silent("gridSystem", b))
  BY <1>3, <1>4, DetectFaithful, Zenon DEF Faithful
<1>6. ra.empty \in BOOLEAN /\ rb.empty \in BOOLEAN
  BY DEF RenderResponsive, RenderGridSystem, Summary
<1> HIDE DEF r, a, b
<1>7. (HasSignal(a) => OwnSignal(a)) /\ (HasSignal(b) => OwnSignal(b))
  BY <1>2 DEF HasSignal
<1>8. shown = RenderResponsiveGridMerged(r.data)
  BY <1>1 DEF HumanizeDetectorData
<1> HIDE DEF ra, rb
<1>9. shown.empty = (ra.empty /\ rb.empty)
  <2>1. shown = Summary(ra.empty /\ rb.empty, rb.values \o ra.values)
    BY <1>1, <1>8 DEF RenderResponsiveGridMerged, ra, rb
  <2> QED BY <2>1 DEF Summary
<1> HIDE DEF shown
<1>10. ~shown.empty => HasSignal(r.data)
  BY <1>1, <1>5, <1>6, <1>7, <1>9 DEF HasSignal
<1>11. shown.empty => Silent("responsive", r.data)
  <2> SUFFICES ASSUME shown.empty PROVE Silent("responsive", r.data)
    BY Zenon
  <2>1. SilentBut(a, Unread("responsive")) /\ SilentBut(b, Unread("gridSystem"))
    BY <1>5, <1>6, <1>9 DEF Silent
  <2>2. Unread("gridSystem") = {}
    BY DEF Unread
  <2>3. SilentBut(b, Unread("responsive"))
    BY <2>1, <2>2 DEF SilentBut
  <2>4. SilentBut(r.data, Unread("responsive"))
    BY <1>1 DEF SilentBut
  <2> QED BY <1>1, <2>1, <2>3, <2>4 DEF Silent
<1>12. Faithful("responsive", r)
  BY <1>1, <1>10, <1>11, UnlistedFaithfully DEF shown
<1> QED BY <1>12 DEF r

(* The sections of a report, by their dimension *)
Sectioned(broken) ==
  {d \in ToSet(DetectorList) : broken \cap Pair = {} => d # "gridSystem"}

SectionResult(page, broken, d) ==
  IF d \in broken THEN Failed
  ELSE IF d = "responsive" /\ broken \cap Pair = {} THEN Both(page) ELSE Detect(d, page)

Section(page, broken, d) == [dim |-> d, result |-> SectionResult(page, broken, d)]

SectionSet(page, broken) == {Section(page, broken, d) : d \in Sectioned(broken)}

LEMMA ResultFaithful ==
  ASSUME NEW page, NEW broken, NEW d \in Sectioned(broken)
  PROVE  \/ SectionResult(page, broken, d) = Failed
         \/ Faithful(d, SectionResult(page, broken, d))
<1>1. d \in ToSet(DetectorList)
  BY DEF Sectioned
<1> QED BY <1>1, BothFaithful, DetectFaithful, Zenon DEF SectionResult

(* What a dimension identifies uniquely is what is found under it. *)
LEMMA FoundUnder ==
  ASSUME NEW T, NEW s \in Seq(T), NEW r \in ToSet(s), \A q \in ToSet(s) : q.dim = r.dim => q = r
  PROVE  Head(OfDimension(s, r.dim)) = r
<1> DEFINE S == {q \in ToSet(s) : q.dim = r.dim}
           o == Only(s, S)
<1>1. OfDimension(s, r.dim) = o
  BY DEF OfDimension
<1>2. S = {r} /\ ToSet(s) \cap S = {r}
  OBVIOUS
<1> HIDE DEF S
<1>3. o \in Seq(T \cap S) /\ ToSet(o) = {r}
  BY <1>2, OnlySet
<1> HIDE DEF o
<1>4. o # <<>>
  <2>1. ToSet(<<>>) = {}
    BY DEF ToSet
  <2> QED BY <1>3, <2>1
<1>5. Head(o) \in ToSet(o)
  BY <1>3, <1>4, HeadInSet
<1> QED BY <1>1, <1>3, <1>5

(* The results before the merge *)
Entry(page, broken, d) ==
  [dim |-> d, result |-> IF d \in broken THEN Failed ELSE Detect(d, page)]

Entries(page, broken) == {Entry(page, broken, d) : d \in ToSet(DetectorList)}

LEMMA RunFacts ==
  ASSUME NEW page, NEW broken
  PROVE  /\ RunDetectorsSafely(page, broken) \in Seq(Entries(page, broken))
         /\ ToSet(RunDetectorsSafely(page, broken)) = Entries(page, broken)
         /\ Once(RunDetectorsSafely(page, broken))
<1> DEFINE L == RunDetectorsSafely(page, broken)
           E(d) == Entry(page, broken, d)
           U == Entries(page, broken)
           D == ToSet(DetectorList)
<1>1. DOMAIN DetectorList = 1..30 /\ DetectorList \in Seq(D)
  BY DetectorListSeq
<1>2. L = [i \in 1..30 |-> E(DetectorList[i])]
  BY <1>1 DEF RunDetectorsSafely, Entry
<1>3. \A d : E(d).dim = d
  BY DEF Entry
<1>4. U = {E(d) : d \in D} /\ D = {DetectorList[i] : i \in 1..30}
  BY <1>1, Zenon DEF Entries, ToSet
<1> HIDE DEF L, E, U, D
<1>5. DOMAIN L = 1..30 /\ \A i \in 1..30 : L[i] = E(DetectorList[i]) /\ L[i] \in U
  BY <1>2, <1>4
<1>6. L = [i \in 1..30 |-> L[i]]
  BY <1>2
<1>7. L \in Seq(ToSet(L))
  BY <1>6, TupleSeq
<1>8. ToSet(L) = U
  <2>1. ToSet(L) = {L[i] : i \in 1..30}
    BY <1>5, Zenon DEF ToSet
  <2>2. {L[i] : i \in 1..30} = {E(DetectorList[i]) : i \in 1..30}
    BY <1>5, Zenon
  <2>3. U = {E(DetectorList[i]) : i \in 1..30}
    BY <1>4, Zenon
  <2> QED BY <2>1, <2>2, <2>3, Zenon
<1>9. Once(L)
  <2> SUFFICES ASSUME NEW i \in 1..30, NEW j \in 1..30, L[i].dim = L[j].dim PROVE i = j
    BY <1>5, Zenon DEF Once
  <2>1. DetectorList[i] = DetectorList[j]
    BY <1>3, <1>5
  <2> QED BY <1>1, <2>1, DetectorListOnce
<1> QED BY <1>7, <1>8, <1>9 DEF L, U

LEMMA RunResult ==
  ASSUME NEW page, NEW broken, NEW d \in ToSet(DetectorList)
  PROVE  ResultIn(RunDetectorsSafely(page, broken), d)
           = IF d \in broken THEN Failed ELSE Detect(d, page)
<1> DEFINE L == RunDetectorsSafely(page, broken)
           U == Entries(page, broken)
           r == Entry(page, broken, d)
<1>1. L \in Seq(U) /\ ToSet(L) = U
  BY RunFacts
<1>2. r \in U /\ r.dim = d /\ r.result = IF d \in broken THEN Failed ELSE Detect(d, page)
  BY DEF Entries, Entry
<1>3. \A q \in U : q.dim = d => q = r
  BY DEF Entries, Entry
<1> HIDE DEF L, U, r
<1>4. Head(OfDimension(L, r.dim)) = r
  BY <1>1, <1>2, <1>3, FoundUnder
<1> QED BY <1>2, <1>4 DEF ResultIn, L

(* The merge and the sort lose no section and repeat none. *)
LEMMA MergeFacts ==
  ASSUME NEW page, NEW broken
  PROVE  LET M == MergeResponsiveAndGrid(RunDetectorsSafely(page, broken))
         IN  /\ M \in Seq(SectionSet(page, broken))
             /\ ToSet(M) = SectionSet(page, broken)
             /\ Once(M)
<1> DEFINE L == RunDetectorsSafely(page, broken)
           M == MergeResponsiveAndGrid(L)
           U == Entries(page, broken)
           V == SectionSet(page, broken)
           D == ToSet(DetectorList)
           responsive == ResultIn(L, "responsive")
           grid == ResultIn(L, "gridSystem")
           S == {r \in U : r.dim \notin Pair}
           merged == [dim |-> "responsive", result |-> Both(page)]
<1>1. L \in Seq(U) /\ ToSet(L) = U /\ Once(L)
  BY RunFacts
<1>2. "responsive" \in D /\ "gridSystem" \in D
  BY DetectorListSet DEF Dimensions
<1>3. /\ responsive = IF "responsive" \in broken THEN Failed ELSE Detect("responsive", page)
      /\ grid = IF "gridSystem" \in broken THEN Failed ELSE Detect("gridSystem", page)
  BY <1>2, RunResult, Zenon
<1>4. Detect("responsive", page).status = "ok" /\ Detect("gridSystem", page).status = "ok"
  BY <1>2, DetectFaithful, Zenon DEF Faithful
<1>5. Failed.status # "ok"
  BY DEF Failed
<1>6. \A d : Section(page, broken, d).dim = d /\ Entry(page, broken, d).dim = d
  BY DEF Section, Entry
<1>7. CASE broken \cap Pair # {}
  <2>1. responsive.status # "ok" \/ grid.status # "ok"
    BY <1>3, <1>5, <1>7 DEF Pair
  <2>2. M = L
    BY <2>1, Zenon DEF MergeResponsiveAndGrid
  <2>3. Sectioned(broken) = D
    BY <1>7 DEF Sectioned
  <2>4. \A d : Section(page, broken, d) = Entry(page, broken, d)
    BY <1>7, Zenon DEF Section, Entry, SectionResult
  <2>5. V = U
    BY <2>3, <2>4 DEF SectionSet, Entries
  <2> QED BY <1>1, <2>2, <2>5
<1>8. CASE broken \cap Pair = {}
  <2>1. "responsive" \notin broken /\ "gridSystem" \notin broken
    BY <1>8 DEF Pair
  <2>2. responsive = Detect("responsive", page) /\ grid = Detect("gridSystem", page)
    BY <1>3, <2>1
  <2>3. M = Append(Only(L, {r \in ToSet(L) : r.dim \notin Pair}), merged)
    BY <1>4, <2>2 DEF MergeResponsiveAndGrid, Both
  <2>4. Sectioned(broken) = D \ {"gridSystem"}
    BY <1>8 DEF Sectioned
  <2>5. SectionResult(page, broken, "responsive") = Both(page)
    BY <1>8, <2>1 DEF SectionResult
  <2>6. \A d : d # "responsive" => Section(page, broken, d) = Entry(page, broken, d)
    BY Zenon DEF Section, Entry, SectionResult
  <2>7. merged = Section(page, broken, "responsive")
    BY <2>5 DEF Section
  <2>8. V = S \union {merged}
    <3>1. ASSUME NEW v \in V PROVE v \in S \union {merged}
      <4>1. PICK d \in D \ {"gridSystem"} : v = Section(page, broken, d)
        BY <2>4 DEF SectionSet
      <4>2. CASE d = "responsive"
        BY <2>7, <4>1, <4>2
      <4>3. CASE d # "responsive"
        <5>1. v = Entry(page, broken, d) /\ d \notin Pair
          BY <2>6, <4>1, <4>3 DEF Pair
        <5> QED BY <1>6, <5>1 DEF Entries
      <4> QED BY <4>2, <4>3
    <3>2. ASSUME NEW v \in S PROVE v \in V
      <4>1. PICK d \in D : v = Entry(page, broken, d)
        BY DEF Entries
      <4>2. d \notin Pair
        BY <1>6, <4>1
      <4>3. d # "responsive" /\ d # "gridSystem"
        BY <4>2 DEF Pair
      <4>4. v = Section(page, broken, d) /\ d \in Sectioned(broken)
        BY <2>4, <2>6, <4>1, <4>3
      <4> QED BY <4>4 DEF SectionSet
    <3>3. merged \in V
      <4>1. "responsive" \in Sectioned(broken)
        BY <1>2, <2>4
      <4> QED BY <2>7, <4>1 DEF SectionSet
    <3> QED BY <3>1, <3>2, <3>3
  <2> DEFINE o == Only(L, S)
  <2>9. U \cap S = S
    OBVIOUS
  <2>10. merged.dim = "responsive" /\ "responsive" \in Pair
    BY DEF Pair
  <2>11. M = Append(o, merged)
    BY <1>1, <2>3
  <2>12. \A r \in S : r.dim \notin Pair
    OBVIOUS
  <2> HIDE DEF L, M, U, V, S, merged
  <2>13. o \in Seq(U \cap S) /\ ToSet(o) = U \cap S
    BY <1>1, OnlySet
  <2>14. Once(o)
    BY <1>1, OnlyOnce
  <2> HIDE DEF o
  <2>15. o \in Seq(V) /\ merged \in V /\ ToSet(o) = S
    BY <2>8, <2>9, <2>13
  <2>16. M \in Seq(V) /\ ToSet(M) = V
    BY <2>8, <2>11, <2>15, SetOfAppend
  <2>17. Once(M)
    <3>1. /\ Len(o) \in Nat /\ DOMAIN o = 1..Len(o) /\ DOMAIN M = 1..(Len(o) + 1)
          /\ M[Len(o) + 1] = merged /\ \A i \in 1..Len(o) : M[i] = o[i]
      BY <2>11, <2>15
    <3>2. \A i \in 1..Len(o) : o[i].dim # "responsive"
      BY <2>10, <2>12, <2>15, <3>1 DEF ToSet
    <3> SUFFICES ASSUME NEW i \in DOMAIN M, NEW j \in DOMAIN M, M[i].dim = M[j].dim PROVE i = j
      BY DEF Once
    <3>3. CASE i \in 1..Len(o) /\ j \in 1..Len(o)
      BY <2>14, <3>1, <3>3 DEF Once
    <3>4. CASE i \notin 1..Len(o) \/ j \notin 1..Len(o)
      BY <2>10, <3>1, <3>2, <3>4
    <3> QED BY <3>3, <3>4
  <2> QED BY <2>16, <2>17 DEF M, V, L
<1> QED BY <1>7, <1>8

(* Sections by dimension *)
LEMMA SectionSetOnce ==
  ASSUME NEW page, NEW broken
  PROVE  /\ \A q, r \in SectionSet(page, broken) : q.dim = r.dim => q = r
         /\ {r.dim : r \in SectionSet(page, broken)} = Sectioned(broken)
         /\ \A d \in Sectioned(broken) :
              /\ Section(page, broken, d) \in SectionSet(page, broken)
              /\ Section(page, broken, d).dim = d
              /\ Section(page, broken, d).result = SectionResult(page, broken, d)
<1>1. \A d : Section(page, broken, d).dim = d
             /\ Section(page, broken, d).result = SectionResult(page, broken, d)
  BY DEF Section
<1>2. \A q \in SectionSet(page, broken) : \E d \in Sectioned(broken) : q = Section(page, broken, d)
  BY DEF SectionSet
<1>3. \A d \in Sectioned(broken) : Section(page, broken, d) \in SectionSet(page, broken)
  BY DEF SectionSet
<1> QED BY <1>1, <1>2, <1>3

LEMMA SectionsFacts ==
  ASSUME NEW page, NEW broken
  PROVE  /\ SectionsOf(page, broken) \in Seq(SectionSet(page, broken))
         /\ ToSet(SectionsOf(page, broken)) = SectionSet(page, broken)
         /\ Dims(SectionsOf(page, broken)) = Only(DetectorList, Sectioned(broken))
<1> DEFINE M == MergeResponsiveAndGrid(RunDetectorsSafely(page, broken))
           V == SectionSet(page, broken)
           s == InOrder(DetectorList, M)
<1>1. M \in Seq(V) /\ ToSet(M) = V /\ Once(M)
  BY MergeFacts
<1>2. SectionsOf(page, broken) = s
  BY DEF SectionsOf, SortByDimension
<1>3. {r.dim : r \in V} = Sectioned(broken)
  BY SectionSetOnce
<1>4. \A r \in V : r.dim \in ToSet(DetectorList)
  BY <1>3 DEF Sectioned
<1> HIDE DEF M, V
<1>5. s \in Seq(V) /\ ToSet(s) = {r \in ToSet(M) : r.dim \in ToSet(DetectorList)}
  BY <1>1, DetectorListSeq, InOrderSet, Zenon
<1>6. Dims(s) = Only(DetectorList, {r.dim : r \in ToSet(M)})
  BY <1>1, DetectorListSeq, InOrderDims, Zenon
<1>7. {r \in V : r.dim \in ToSet(DetectorList)} = V
  BY <1>4
<1> HIDE DEF s
<1> QED BY <1>1, <1>2, <1>3, <1>5, <1>6, <1>7 DEF V

(* Wherever the sections of a report are, in whatever order *)
LEMMA ResultUnder ==
  ASSUME NEW page, NEW broken, NEW s \in Seq(SectionSet(page, broken)),
         ToSet(s) = SectionSet(page, broken), NEW d \in Sectioned(broken)
  PROVE  ResultIn(s, d) = SectionResult(page, broken, d)
<1> DEFINE V == SectionSet(page, broken)
           r == Section(page, broken, d)
<1>1. r \in V /\ r.dim = d /\ r.result = SectionResult(page, broken, d)
      /\ \A q \in V : q.dim = d => q = r
  BY SectionSetOnce
<1> HIDE DEF V, r
<1>2. s \in Seq(V) /\ ToSet(s) = V
  BY DEF V
<1>3. Head(OfDimension(s, r.dim)) = r
  BY <1>1, <1>2, FoundUnder
<1> QED BY <1>1, <1>3 DEF ResultIn

LEMMA ByDimensionFacts ==
  ASSUME NEW page, NEW broken
  PROVE  LET results == ResultsOf(page, broken)
         IN  /\ DOMAIN results = Sectioned(broken)
             /\ \A d \in Sectioned(broken) : results[d] = SectionResult(page, broken, d)
<1> DEFINE s == SectionsOf(page, broken)
           V == SectionSet(page, broken)
<1>1. s \in Seq(V) /\ ToSet(s) = V
  BY SectionsFacts
<1>2. {r.dim : r \in V} = Sectioned(broken)
  BY SectionSetOnce
<1>3. \A d \in Sectioned(broken) : ResultIn(s, d) = SectionResult(page, broken, d)
  BY <1>1, ResultUnder
<1> HIDE DEF s, V
<1>4. {s[i].dim : i \in DOMAIN s} = {r.dim : r \in ToSet(s)}
  BY DEF ToSet
<1> QED BY <1>1, <1>2, <1>3, <1>4 DEF ResultsOf, ByDimension, s

(* The JSONB column has the same keys in another order, *)
LEMMA JsonbOrderSeq == JsonbOrder \in Seq(ToSet(JsonbOrder))
                       /\ ToSet(JsonbOrder) = ToSet(DetectorList)
<1>1. JsonbOrder \in Seq(ToSet(JsonbOrder))
  <2> DEFINE s == JsonbOrder
  <2>1. s = [i \in 1..30 |-> s[i]]
    BY DEF JsonbOrder
  <2> HIDE DEF s
  <2>2. s \in Seq(ToSet(s))
    BY <2>1, TupleSeq
  <2> QED BY <2>2 DEF s
<1>2. ToSet(JsonbOrder) = ToSet(DetectorList)
  BY DEF DetectorList, JsonbOrder, ToSet
<1> QED BY <1>1, <1>2

(* so that it keeps every section. *)
LEMMA StoredFacts ==
  ASSUME NEW page, NEW broken
  PROVE  LET s == Stored(ExtractReport(page, broken)).sections
         IN  s \in Seq(SectionSet(page, broken)) /\ ToSet(s) = SectionSet(page, broken)
<1> DEFINE V == SectionSet(page, broken)
           p == SectionsOf(page, broken)
           s == InOrder(JsonbOrder, p)
<1>1. Stored(ExtractReport(page, broken)).sections = s
  BY DEF Stored, ExtractReport
<1>2. p \in Seq(V) /\ ToSet(p) = V
  BY SectionsFacts
<1>3. {r.dim : r \in V} = Sectioned(broken)
  BY SectionSetOnce
<1>4. \A r \in V : r.dim \in ToSet(JsonbOrder)
  BY <1>3, JsonbOrderSeq DEF Sectioned
<1> HIDE DEF V, p
<1>5. s \in Seq(V) /\ ToSet(s) = {r \in ToSet(p) : r.dim \in ToSet(JsonbOrder)}
  BY <1>2, JsonbOrderSeq, InOrderSet, Zenon
<1>6. {r \in V : r.dim \in ToSet(JsonbOrder)} = V
  BY <1>4
<1> HIDE DEF s
<1> QED BY <1>1, <1>2, <1>5, <1>6 DEF V

------------------------------------------------------------------------------
(* The document: how sure it is, and of what *)

(* How sure the document is *)
Levels == {"confirmed", "highly_probable", "probable", "not_identified"}

(* No evidence, not identified; some evidence, identified. *)
LEMMA ConfidenceLevels ==
  ASSUME NEW e
  PROVE  /\ ConfidenceFrom(e) \in Levels
         /\ e # <<>> => Identified(ConfidenceFrom(e))
         /\ e = <<>> => ConfidenceFrom(e) = "not_identified"
<1> DEFINE having(c) == {i \in DOMAIN e : e[i].confidence = c}
           c == ConfidenceFrom(e)
<1>1. CASE having("high") # {}
  <2>1. c = "confirmed"
    BY <1>1 DEF ConfidenceFrom
  <2>2. e # <<>>
    BY <1>1
  <2> QED BY <2>1, <2>2 DEF Levels, Identified
<1>2. CASE having("high") = {} /\ Cardinality(having("medium")) >= 2
  <2>1. c = "highly_probable"
    BY <1>2 DEF ConfidenceFrom
  <2>2. e # <<>>
    <3>1. Cardinality({}) = 0
      BY FS_EmptySet
    <3>2. having("medium") # {}
      <4> DEFINE m == having("medium")
      <4>1. Cardinality(m) >= 2
        BY <1>2
      <4> HIDE DEF m
      <4>2. m # {}
        BY <3>1, <4>1
      <4> QED BY <4>2 DEF m
    <3> QED BY <3>2
  <2> QED BY <2>1, <2>2 DEF Levels, Identified
<1>3. CASE having("high") = {} /\ ~(Cardinality(having("medium")) >= 2)
  <2>1. c = IF e = <<>> THEN "not_identified" ELSE "probable"
    BY <1>3 DEF ConfidenceFrom
  <2> QED BY <2>1 DEF Levels, Identified
<1> QED BY <1>1, <1>2, <1>3

LEMMA OnlyNothing ==
  ASSUME NEW S PROVE Only(<<>>, S) = <<>>
<1>1. <<>> \in Seq({})
  OBVIOUS
<1>2. Only(<<>>, S) \in Seq({} \cap S)
  BY <1>1, OnlySet, Zenon
<1> QED BY <1>2

LEMMA NoEvidence ==
  ASSUME NEW n, NEW result, result.evidence = <<>>
  PROVE  EvidenceFor(n, result) = <<>>
<1> DEFINE matching == Only(result.evidence, {e \in ToSet(result.evidence) : n \in e.names})
<1>1. matching = <<>>
  BY OnlyNothing
<1> HIDE DEF matching
<1> QED BY <1>1, Zenon DEF EvidenceFor, matching

LEMMA RankingSeq ==
  /\ Ranking \in Seq(Levels) /\ Len(Ranking) = 4 /\ DOMAIN Ranking = 1..4
  /\ \A c \in Levels : \E i \in 1..4 : Ranking[i] = c
BY DEF Ranking, Levels

(* The first of the ranking among some levels is one of them, and the *)
(* surest.                                                            *)
LEMMA LeastRanked ==
  ASSUME NEW each, each \subseteq Levels, each # {}
  PROVE  LET c == Head(Only(Ranking, each))
         IN  /\ c \in each
             /\ \A x \in each : \E i, j \in DOMAIN Ranking :
                    i <= j /\ Ranking[i] = c /\ Ranking[j] = x
<1>1. \E k \in 1..4 : Ranking[k] \in each /\ \A j \in 1..(k - 1) : Ranking[j] \notin each
  <2>0. Ranking[1] \in each \/ Ranking[2] \in each \/ Ranking[3] \in each \/ Ranking[4] \in each
    BY DEF Ranking, Levels
  <2>1. CASE Ranking[1] \in each
    BY <2>1
  <2>2. CASE Ranking[1] \notin each /\ Ranking[2] \in each
    BY <2>2
  <2>3. CASE Ranking[1] \notin each /\ Ranking[2] \notin each /\ Ranking[3] \in each
    BY <2>3
  <2>4. CASE Ranking[1] \notin each /\ Ranking[2] \notin each
             /\ Ranking[3] \notin each /\ Ranking[4] \in each
    BY <2>4
  <2> QED BY <2>0, <2>1, <2>2, <2>3, <2>4
<1>2. PICK k \in 1..4 : Ranking[k] \in each /\ \A j \in 1..(k - 1) : Ranking[j] \notin each
  BY <1>1
<1>3. k \in 1..Len(Ranking)
  BY RankingSeq
<1>4. Head(Only(Ranking, each)) = Ranking[k]
  BY <1>2, <1>3, RankingSeq, OnlyFirst
<1>5. ASSUME NEW x \in each
      PROVE \E i, j \in DOMAIN Ranking : i <= j /\ Ranking[i] = Ranking[k] /\ Ranking[j] = x
  <2>1. PICK j \in 1..4 : Ranking[j] = x
    BY RankingSeq
  <2>2. j \notin 1..(k - 1)
    BY <1>2, <2>1
  <2>3. k <= j
    BY <2>2
  <2> QED BY <2>1, <2>3, RankingSeq
<1> QED BY <1>2, <1>4, <1>5

(* Confidence of a result *)
LEMMA ConfidenceFacts ==
  ASSUME NEW r
  PROVE  /\ r.status # "ok" => ConfidenceFor(r) = "not_identified"
         /\ Identified(ConfidenceFor(r)) => r.evidence # <<>>
         /\ r.status = "ok" /\ HasSignal(r.data) /\ DetectedNames(r) # {} =>
              LET c == ConfidenceFor(r)
                  each == {ConfidenceFrom(EvidenceFor(n, r)) : n \in DetectedNames(r)}
              IN  /\ c \in each
                  /\ \A x \in each : \E i, j \in DOMAIN Ranking :
                         i <= j /\ Ranking[i] = c /\ Ranking[j] = x
<1> DEFINE each == {ConfidenceFrom(EvidenceFor(n, r)) : n \in DetectedNames(r)}
           c == ConfidenceFor(r)
<1>1. r.status # "ok" => c = "not_identified"
  BY DEF ConfidenceFor
<1>2. r.status = "ok" /\ ~HasSignal(r.data) => c = "not_identified"
  BY DEF ConfidenceFor
<1>3. r.status = "ok" /\ HasSignal(r.data) /\ DetectedNames(r) = {} => c = ConfidenceFrom(r.evidence)
  BY DEF ConfidenceFor
<1>4. r.status = "ok" /\ HasSignal(r.data) /\ DetectedNames(r) # {} => c = Head(Only(Ranking, each))
  BY DEF ConfidenceFor
<1>5. each \subseteq Levels
  BY ConfidenceLevels
<1>6. DetectedNames(r) # {} => each # {}
  OBVIOUS
<1>7. r.evidence = <<>> => \A x \in each : x = "not_identified"
  BY NoEvidence, ConfidenceLevels
<1> HIDE DEF c
<1>8. r.status = "ok" /\ HasSignal(r.data) /\ DetectedNames(r) # {} =>
        /\ c \in each
        /\ \A x \in each : \E i, j \in DOMAIN Ranking : i <= j /\ Ranking[i] = c /\ Ranking[j] = x
  <2> HIDE DEF each
  <2> QED BY <1>4, <1>5, <1>6, LeastRanked
<1>9. Identified(c) => r.evidence # <<>>
  <2> HIDE DEF each
  <2> QED BY <1>1, <1>2, <1>3, <1>7, <1>8, ConfidenceLevels DEF Identified
<1> QED BY <1>1, <1>8, <1>9 DEF c

(* What a finding of the document is about: a detector or one of six audits *)
Audits(page) == {PwaFinding(page), MediaFinding(page), PublicApiFinding(page), SecurityFinding(page),
                 CmsFinding(page), AccessibilityFinding(page)}

LEMMA FindingKinds ==
  ASSUME NEW page, NEW results,
         NEW f \in Findings(BuildInvestigationReport(page, results))
  PROVE  f \in Audits(page) \/ \E d \in DOMAIN results : f = DetectorFinding(d, results[d])
<1> DEFINE doc == BuildInvestigationReport(page, results)
           ss == Sections(page, results)
<1>1. doc.sections = ss
  BY DEF BuildInvestigationReport
<1> HIDE DEF doc
<1>2. PICK s \in DOMAIN ss : f \in ss[s]
  BY <1>1 DEF Findings, doc
<1>3. DOMAIN ss = {"frontend", "designSystem", "backend", "apisCommunication",
        "authenticationSecurity", "cmsContent", "infrastructureDeploy", "integrations",
        "performanceAccessibility"}
  BY DEF Sections
<1>4. \A dims : \A g \in Select(results, dims) : \E d \in DOMAIN results : g = DetectorFinding(d, results[d])
  BY DEF Select
<1> HIDE DEF ss
<1>5. \E dims : f \in Select(results, dims) \union Audits(page)
  <2>1. CASE s = "frontend"
    BY <1>2, <2>1 DEF ss, Sections, Audits
  <2>2. CASE s = "designSystem"
    BY <1>2, <2>2 DEF ss, Sections, Audits
  <2>3. CASE s = "backend"
    BY <1>2, <2>3 DEF ss, Sections, Audits
  <2>4. CASE s = "apisCommunication"
    BY <1>2, <2>4 DEF ss, Sections, Audits
  <2>5. CASE s = "authenticationSecurity"
    BY <1>2, <2>5 DEF ss, Sections, Audits
  <2>6. CASE s = "cmsContent"
    BY <1>2, <2>6 DEF ss, Sections, Audits
  <2>7. CASE s = "infrastructureDeploy"
    BY <1>2, <2>7 DEF ss, Sections, Audits
  <2>8. CASE s = "integrations"
    BY <1>2, <2>8 DEF ss, Sections, Audits
  <2>9. CASE s = "performanceAccessibility"
    BY <1>2, <2>9 DEF ss, Sections, Audits
  <2> QED BY <1>2, <1>3, <2>1, <2>2, <2>3, <2>4, <2>5, <2>6, <2>7, <2>8, <2>9
<1> QED BY <1>4, <1>5

(* The table has a row for each technology of each result. *)
LEMMA RowKinds ==
  ASSUME NEW page, NEW results
  PROVE  \A f : f \in BuildInvestigationReport(page, results).technologyTable
           <=> \E d \in DOMAIN results : \E n \in DetectedNames(results[d]) :
                 f = Finding(n, d, ConfidenceFrom(EvidenceFor(n, results[d])), EvidenceFor(n, results[d]))
<1>1. BuildInvestigationReport(page, results).technologyTable
        = (UNION {TechnologyFindings(d, results[d]) : d \in DOMAIN results})
  BY DEF BuildInvestigationReport
<1> QED BY <1>1 DEF TechnologyFindings

(* What NothingWithoutEvidence asks of a finding *)
Backed(f) == Identified(f.confidence) /\ f.name # "security" => f.evidence # <<>>

LEMMA AuditsBacked ==
  ASSUME NEW page, NEW f \in Audits(page) PROVE Backed(f)
<1>1. \A n \in Nat : n > 0 => Sure(n) # <<>>
  <2> SUFFICES ASSUME NEW n \in Nat, n > 0 PROVE Sure(n) # <<>>
    OBVIOUS
  <2>1. 1 \in DOMAIN Sure(n)
    BY DEF Sure
  <2> QED BY <2>1
<1>2. Backed(PwaFinding(page))
  BY DEF Backed, PwaFinding, Finding, ConfirmedIf, Identified
<1>3. Backed(MediaFinding(page))
  <2>1. Count(page, "html", "page", "image") \in Nat
    BY DEF Count
  <2> QED BY <1>1, <2>1 DEF Backed, MediaFinding, Finding, ConfirmedIf, Identified
<1>4. Backed(PublicApiFinding(page))
  BY <1>1 DEF Backed, PublicApiFinding, Finding, ConfirmedIf, Identified
<1>5. Backed(SecurityFinding(page))
  BY DEF Backed, SecurityFinding, Finding
<1>6. Backed(CmsFinding(page))
  BY <1>1 DEF Backed, CmsFinding, Finding, ConfirmedIf, Identified
<1>7. Backed(AccessibilityFinding(page))
  BY <1>1 DEF Backed, AccessibilityFinding, Finding
<1> QED BY <1>2, <1>3, <1>4, <1>5, <1>6, <1>7 DEF Audits

LEMMA DocumentBacked ==
  ASSUME NEW page, NEW results
  PROVE  LET doc == BuildInvestigationReport(page, results)
         IN  /\ \A f \in doc.technologyTable \union Findings(doc) : Backed(f)
             /\ doc.overallConfidence = "highly_probable" => doc.confirmedTechnologyNames # {}
<1> DEFINE doc == BuildInvestigationReport(page, results)
<1>1. ASSUME NEW f \in doc.technologyTable PROVE Backed(f)
  <2>1. PICK d \in DOMAIN results : \E n \in DetectedNames(results[d]) :
          f = Finding(n, d, ConfidenceFrom(EvidenceFor(n, results[d])), EvidenceFor(n, results[d]))
    BY RowKinds
  <2>2. PICK n \in DetectedNames(results[d]) :
          f = Finding(n, d, ConfidenceFrom(EvidenceFor(n, results[d])), EvidenceFor(n, results[d]))
    BY <2>1
  <2> DEFINE e == EvidenceFor(n, results[d])
  <2>3. f.confidence = ConfidenceFrom(e) /\ f.evidence = e
    BY <2>2 DEF Finding
  <2> HIDE DEF e
  <2> QED BY <2>3, ConfidenceLevels DEF Backed, Identified
<1>2. ASSUME NEW f \in Findings(doc) PROVE Backed(f)
  <2>1. CASE f \in Audits(page)
    BY <2>1, AuditsBacked
  <2>2. ASSUME NEW d \in DOMAIN results, f = DetectorFinding(d, results[d]) PROVE Backed(f)
    <3>1. f.confidence = ConfidenceFor(results[d]) /\ f.evidence = results[d].evidence
      BY <2>2 DEF DetectorFinding, Finding
    <3> QED BY <3>1, ConfidenceFacts DEF Backed
  <2> QED BY <2>1, <2>2, FindingKinds
<1>3. doc.overallConfidence = IF doc.confirmedTechnologyNames # {} THEN "highly_probable" ELSE "probable"
  BY DEF BuildInvestigationReport
<1> HIDE DEF doc
<1> QED BY <1>1, <1>2, <1>3 DEF doc

(* Every result is an error of its own or what a reader can rely on. *)
Reliable(results) ==
  \A d \in DOMAIN results : results[d] = Failed \/ Faithful(d, results[d])

LEMMA ReliableNames ==
  ASSUME NEW results, Reliable(results), NEW d \in DOMAIN results, DetectedNames(results[d]) # {}
  PROVE  results[d].status = "ok" /\ HasSignal(results[d].data) /\ Faithful(d, results[d])
<1>1. results[d] # Failed
  <2>1. DetectedNames(Failed) = {}
    <3>1. Failed.status # "ok" /\ "detected" \notin DOMAIN Failed.data.lists
      BY DEF Failed, Data
    <3> QED BY <3>1 DEF DetectedNames
  <2> QED BY <2>1
<1> QED BY <1>1 DEF Reliable, Faithful

LEMMA AuditCategories ==
  ASSUME NEW page, NEW f \in Audits(page) PROVE f.category \notin MatrixDimensions
<1>1. f.category \in {"Frontend", "Media", "APIs", "Security", "CMS", "Accessibility"}
  BY DEF Audits, PwaFinding, MediaFinding, PublicApiFinding, SecurityFinding, CmsFinding,
         AccessibilityFinding, Finding
<1>2. \A c \in {"Frontend", "Media", "APIs", "Security", "CMS", "Accessibility"} : c \notin MatrixDimensions
  BY DEF MatrixDimensions
<1> QED BY <1>1, <1>2, Zenon

LEMMA MatrixConfidence ==
  ASSUME NEW page, NEW results, NEW d \in MatrixDimensions, d # "cms"
  PROVE  BuildInvestigationReport(page, results).confidenceMatrix[d].confidence
           = ConfidenceFor(ResultOf(results, d))
BY DEF BuildInvestigationReport, BuildConfidenceMatrix

(* The rows of the table for a dimension *)
Rows(page, results, d) ==
  {f \in BuildInvestigationReport(page, results).technologyTable : f.category = d}

LEMMA RowDetected ==
  ASSUME NEW page, NEW results, NEW d, NEW r \in Rows(page, results, d)
  PROVE  /\ d \in DOMAIN results /\ r.name \in DetectedNames(results[d])
         /\ r.confidence = ConfidenceFrom(EvidenceFor(r.name, results[d]))
<1>1. r \in BuildInvestigationReport(page, results).technologyTable /\ r.category = d
  BY DEF Rows
<1>2. PICK e \in DOMAIN results : \E n \in DetectedNames(results[e]) :
        r = Finding(n, e, ConfidenceFrom(EvidenceFor(n, results[e])), EvidenceFor(n, results[e]))
  BY <1>1, RowKinds
<1>3. PICK n \in DetectedNames(results[e]) :
        r = Finding(n, e, ConfidenceFrom(EvidenceFor(n, results[e])), EvidenceFor(n, results[e]))
  BY <1>2
<1>4. r.name = n /\ r.category = e /\ r.confidence = ConfidenceFrom(EvidenceFor(n, results[e]))
  BY <1>3 DEF Finding
<1> QED BY <1>1, <1>4

LEMMA DetectedRow ==
  ASSUME NEW page, NEW results, NEW d \in DOMAIN results, NEW n \in DetectedNames(results[d])
  PROVE  \E r \in Rows(page, results, d) :
           r.name = n /\ r.confidence = ConfidenceFrom(EvidenceFor(n, results[d]))
<1> DEFINE r == Finding(n, d, ConfidenceFrom(EvidenceFor(n, results[d])), EvidenceFor(n, results[d]))
<1>1. r \in BuildInvestigationReport(page, results).technologyTable
  BY RowKinds
<1>2. r.name = n /\ r.category = d /\ r.confidence = ConfidenceFrom(EvidenceFor(n, results[d]))
  BY DEF Finding
<1> HIDE DEF r
<1> QED BY <1>1, <1>2 DEF Rows

(* A dimension is as sure as its surest row, *)
LEMMA SurestRow ==
  ASSUME NEW page, NEW results, Reliable(results), NEW d \in DOMAIN results
  PROVE  LET rows == Rows(page, results, d)
             c == ConfidenceFor(results[d])
         IN  rows # {} => /\ c \in {r.confidence : r \in rows}
                          /\ \A r \in rows : \E i, j \in DOMAIN Ranking :
                                i <= j /\ Ranking[i] = c /\ Ranking[j] = r.confidence
<1> DEFINE rows == Rows(page, results, d)
           c == ConfidenceFor(results[d])
           each == {ConfidenceFrom(EvidenceFor(n, results[d])) : n \in DetectedNames(results[d])}
<1>1. /\ \A r \in rows : r.name \in DetectedNames(results[d])
                         /\ r.confidence = ConfidenceFrom(EvidenceFor(r.name, results[d]))
      /\ \A n \in DetectedNames(results[d]) :
           \E r \in rows : r.confidence = ConfidenceFrom(EvidenceFor(n, results[d]))
  BY RowDetected, DetectedRow
<1> HIDE DEF rows
<1>2. each = {r.confidence : r \in rows}
  BY <1>1
<1> SUFFICES ASSUME rows # {}
             PROVE /\ c \in {r.confidence : r \in rows}
                   /\ \A r \in rows : \E i, j \in DOMAIN Ranking :
                        i <= j /\ Ranking[i] = c /\ Ranking[j] = r.confidence
  BY DEF rows
<1>3. DetectedNames(results[d]) # {}
  BY <1>1
<1>4. results[d].status = "ok" /\ HasSignal(results[d].data)
  BY <1>3, ReliableNames
<1>5. c \in each /\ \A x \in each : \E i, j \in DOMAIN Ranking : i <= j /\ Ranking[i] = c /\ Ranking[j] = x
  BY <1>3, <1>4, ConfidenceFacts
<1> HIDE DEF c, each
<1> QED BY <1>2, <1>5

(* and the diagram has its edge when it is identified. *)
LEMMA DiagramEdges ==
  ASSUME NEW page, NEW results, NEW d \in {"cdn", "authProvider", "analytics", "backendFramework"}
  PROVE  EdgeOf[d] \in BuildInvestigationReport(page, results).diagram
           <=> Identified(ConfidenceFor(ResultOf(results, d)))
<1> DEFINE known(e) == Identified(ConfidenceFor(ResultOf(results, e)))
           edges(cond, es) == IF cond THEN es ELSE {}
           diagram == {<<"U", "FE">>}
                \union edges(AnyCall(page), {<<"FE", "API">>})
                \union edges(known("authProvider"), {<<"FE", "AUTH">>})
                \union edges(known("analytics"), {<<"FE", "ANALYTICS">>})
                \union edges(known("cdn"), {<<"U", "CDN">>, <<"CDN", "FE">>})
                \union edges(known("backendFramework"), {<<"API", "BE">>})
<1>1. BuildInvestigationReport(page, results).diagram = diagram
  BY DEF BuildInvestigationReport, BuildDiagram
<1> HIDE DEF known
<1>2. CASE d = "cdn"
  <2>1. <<"U", "CDN">> \in diagram <=> known("cdn")
    OBVIOUS
  <2> QED BY <1>1, <1>2, <2>1 DEF EdgeOf, known
<1>3. CASE d = "authProvider"
  <2>1. <<"FE", "AUTH">> \in diagram <=> known("authProvider")
    OBVIOUS
  <2> QED BY <1>1, <1>3, <2>1 DEF EdgeOf, known
<1>4. CASE d = "analytics"
  <2>1. <<"FE", "ANALYTICS">> \in diagram <=> known("analytics")
    OBVIOUS
  <2> QED BY <1>1, <1>4, <2>1 DEF EdgeOf, known
<1>5. CASE d = "backendFramework"
  <2>1. <<"API", "BE">> \in diagram <=> known("backendFramework")
    OBVIOUS
  <2> QED BY <1>1, <1>5, <2>1 DEF EdgeOf, known
<1> QED BY <1>2, <1>3, <1>4, <1>5

LEMMA LibrarySignaturesSeq == LibrarySignatures \in Seq(ToSet(LibrarySignatures))
<1> DEFINE s == LibrarySignatures
<1>1. s = [i \in 1..22 |-> s[i]]
  BY DEF LibrarySignatures
<1> HIDE DEF s
<1>2. s \in Seq(ToSet(s))
  BY <1>1, TupleSeq
<1> QED BY <1>2 DEF s

(* The evidence of a library names it, so that no library found is unsure. *)
LEMMA LibrariesIdentified ==
  ASSUME NEW page
  PROVE  LET r == Detect("libraries", page)
         IN  /\ \A n \in DetectedNames(r) : Identified(ConfidenceFrom(EvidenceFor(n, r)))
             /\ DetectedNames(r) = {} => r.evidence = <<>>
<1> DEFINE r == Detect("libraries", page)
           names == Found(page, "libraries", LibrarySignatures, <<"script", "style", "html">>)
           T == ToSet(LibrarySignatures)
           level(n) == IF n \in SureLibraries THEN "high" ELSE "medium"
           E == {Ev(level(n), NamesIn(n)) : n \in T}
<1>1. r.evidence = [i \in DOMAIN names |-> Ev(level(names[i]), NamesIn(names[i]))]
  BY DEF Detect, DetectLibraries, Ok, Map
<1>2. r.status = "ok" /\ "detected" \in DOMAIN r.data.lists /\ r.data.lists["detected"] = names
  BY DEF Detect, DetectLibraries, Ok, Data
<1>3. DetectedNames(r) = ToSet(names)
  BY <1>2 DEF DetectedNames
<1>4. names \in Seq(T)
  BY FoundSeq, LibrarySignaturesSeq, Zenon
<1>5. \A n : n \in NamesIn(n)
  BY DEF NamesIn
<1>6. \A c, s : Ev(c, s).names = s
  BY DEF Ev
<1> HIDE DEF r, names, T, level
<1>7. r.evidence \in Seq(E)
  <2>1. \A i \in 1..Len(names) : Ev(level(names[i]), NamesIn(names[i])) \in E
    BY <1>4
  <2> DEFINE ev(i) == Ev(level(names[i]), NamesIn(names[i]))
  <2>2. DOMAIN names = 1..Len(names) /\ Len(names) \in Nat
    BY <1>4
  <2> HIDE DEF E, ev
  <2>3. r.evidence = [i \in 1..Len(names) |-> ev(i)] /\ \A i \in 1..Len(names) : ev(i) \in E
    BY <1>1, <2>1, <2>2 DEF ev
  <2> QED BY <2>2, <2>3
<1>8. ASSUME NEW n \in ToSet(names) PROVE EvidenceFor(n, r) # <<>>
  <2> DEFINE S == {e \in ToSet(r.evidence) : n \in e.names}
             matching == Only(r.evidence, S)
  <2>1. PICK i \in DOMAIN names : names[i] = n
    BY DEF ToSet
  <2>2. i \in DOMAIN r.evidence /\ r.evidence[i] = Ev(level(n), NamesIn(n))
    BY <1>1, <2>1
  <2>3. r.evidence[i] \in S
    BY <1>5, <1>6, <2>2 DEF ToSet
  <2>4. r.evidence[i] \in ToSet(r.evidence) \cap S
    BY <2>3
  <2> HIDE DEF S, E
  <2>5. ToSet(matching) = ToSet(r.evidence) \cap S
    BY <1>7, OnlySet
  <2>6. ToSet(<<>>) = {}
    BY DEF ToSet
  <2>7. matching # <<>>
    BY <2>4, <2>5, <2>6
  <2> HIDE DEF matching
  <2>8. EvidenceFor(n, r) = matching
    BY <2>7, Zenon DEF EvidenceFor, matching, S
  <2> QED BY <2>7, <2>8
<1>9. ToSet(names) = {} => r.evidence = <<>>
  <2> SUFFICES ASSUME ToSet(names) = {} PROVE r.evidence = <<>>
    OBVIOUS
  <2>1. DOMAIN names = {}
    BY DEF ToSet
  <2> QED BY <1>1, <2>1
<1> HIDE DEF E
<1>10. \A n \in DetectedNames(r) : Identified(ConfidenceFrom(EvidenceFor(n, r)))
  BY <1>3, <1>8, ConfidenceLevels
<1> QED BY <1>3, <1>9, <1>10 DEF r

(* The document of a report *)
LEMMA ReportResults ==
  ASSUME NEW page, NEW broken
  PROVE  LET results == ResultsOf(page, broken)
         IN  /\ DOMAIN results = Sectioned(broken)
             /\ \A d \in Sectioned(broken) : results[d] = SectionResult(page, broken, d)
             /\ Reliable(results)
<1> DEFINE results == ResultsOf(page, broken)
<1>1. DOMAIN results = Sectioned(broken)
      /\ \A d \in Sectioned(broken) : results[d] = SectionResult(page, broken, d)
  BY ByDimensionFacts DEF ResultsOf
<1> HIDE DEF results
<1>2. Reliable(results)
  BY <1>1, ResultFaithful DEF Reliable
<1> QED BY <1>1, <1>2 DEF results

Document(page, broken) == BuildInvestigationReport(page, ResultsOf(page, broken))

LEMMA ReportFields ==
  ASSUME NEW page, NEW broken
  PROVE  /\ ExtractReport(page, broken).sections = SectionsOf(page, broken)
         /\ ExtractReport(page, broken).investigation = Document(page, broken)
         /\ Stored(ExtractReport(page, broken)).investigation = Document(page, broken)
         /\ ExtractReport(page, broken) # NoReport
<1>1. DOMAIN ExtractReport(page, broken) # DOMAIN NoReport
  BY DEF ExtractReport, NoReport
<1>2. ExtractReport(page, broken).sections = SectionsOf(page, broken)
      /\ ExtractReport(page, broken).investigation = Document(page, broken)
  BY DEF ExtractReport, Document
<1>3. Stored(ExtractReport(page, broken)).investigation = Document(page, broken)
  BY DEF ExtractReport, Document, Stored
<1> QED BY <1>1, <1>2, <1>3

(* What DocumentAgrees asks of a dimension *)
AgreesAt(doc, d) ==
  LET rows == {f \in doc.technologyTable : f.category = d}
      sure == {f.confidence : f \in {g \in Findings(doc) : g.category = d /\ g.name = d}}
      c == doc.confidenceMatrix[d].confidence
  IN  /\ sure \subseteq {c}
      /\ rows # {} =>
           /\ c \in {r.confidence : r \in rows}
           /\ \A r \in rows : \E i, j \in DOMAIN Ranking :
                  i <= j /\ Ranking[i] = c /\ Ranking[j] = r.confidence
      /\ d \in DOMAIN EdgeOf => (EdgeOf[d] \in doc.diagram <=> Identified(c))
      /\ d = "libraries" =>
           (doc.structure = "application"
              <=> \E r \in rows : r.name \in doc.confirmedTechnologyNames)

(* The structure is an application when a library is among the main    *)
(* technologies: a library found is identified, and none is identified *)
(* without being found.                                                *)
LEMMA LibrariesAgree ==
  ASSUME NEW page, NEW results, Reliable(results),
         "libraries" \in DOMAIN results =>
            results["libraries"] = Failed \/ results["libraries"] = Detect("libraries", page)
  PROVE  LET doc == BuildInvestigationReport(page, results)
         IN  doc.structure = "application"
               <=> \E r \in Rows(page, results, "libraries") : r.name \in doc.confirmedTechnologyNames
<1> DEFINE doc == BuildInvestigationReport(page, results)
           d == "libraries"
           rows == Rows(page, results, d)
           c == ConfidenceFor(ResultOf(results, d))
<1>1. doc.structure = "application" <=> Identified(c)
  BY DEF BuildInvestigationReport, EstimatedStructure
<1>2. \A r \in doc.technologyTable : Identified(r.confidence) => r.name \in doc.confirmedTechnologyNames
  BY DEF BuildInvestigationReport
<1>3. rows \subseteq doc.technologyTable
  BY DEF Rows
<1>4. Failed.status # "ok" /\ DetectedNames(Failed) = {}
  <2>1. Failed.status # "ok" /\ "detected" \notin DOMAIN Failed.data.lists
    BY DEF Failed, Data
  <2> QED BY <2>1 DEF DetectedNames
<1>5. ~Identified(ConfidenceFor(Failed))
  BY <1>4, ConfidenceFacts DEF Identified
<1>6. CASE d \notin DOMAIN results \/ results[d] = Failed
  <2>1. c = ConfidenceFor(Failed)
    BY <1>6 DEF ResultOf
  <2>2. rows = {}
    BY <1>4, <1>6, RowDetected
  <2> HIDE DEF rows, doc, c
  <2>3. ~Identified(c) /\ rows = {}
    BY <1>5, <2>1, <2>2
  <2> QED BY <1>1, <2>3 DEF rows, doc
<1>7. CASE d \in DOMAIN results /\ results[d] = Detect(d, page)
  <2> DEFINE result == results[d]
  <2>1. ResultOf(results, d) = result
    BY <1>7 DEF ResultOf
  <2>2. /\ \A n \in DetectedNames(result) : Identified(ConfidenceFrom(EvidenceFor(n, result)))
        /\ DetectedNames(result) = {} => result.evidence = <<>>
    BY <1>7, LibrariesIdentified
  <2>3. \A r \in rows : r.name \in DetectedNames(result)
                        /\ r.confidence = ConfidenceFrom(EvidenceFor(r.name, result))
    BY RowDetected
  <2>4. \A r \in rows : r.name \in doc.confirmedTechnologyNames
    BY <1>2, <1>3, <2>2, <2>3
  <2>5. DetectedNames(result) # {} => rows # {}
    BY <1>7, DetectedRow
  <2>6. rows # {} => DetectedNames(result) # {}
    BY <2>3
  <2>7. rows # {} => c \in {r.confidence : r \in rows}
    BY <1>7, <2>1, SurestRow
  <2> HIDE DEF rows, doc, c, result
  <2>8. rows # {} => Identified(c)
    BY <2>2, <2>3, <2>7
  <2>9. rows = {} => ~Identified(c)
    BY <2>1, <2>2, <2>5, ConfidenceFacts DEF c
  <2> QED BY <1>1, <2>4, <2>8, <2>9 DEF rows, doc
<1> QED BY <1>6, <1>7

LEMMA SureSections ==
  ASSUME NEW page, NEW results, NEW d \in MatrixDimensions,
         NEW f \in Findings(BuildInvestigationReport(page, results)), f.category = d
  PROVE  f.confidence = ConfidenceFor(ResultOf(results, d))
<1>1. f \notin Audits(page)
  BY AuditCategories
<1>2. PICK e \in DOMAIN results : f = DetectorFinding(e, results[e])
  BY <1>1, FindingKinds
<1>3. f.category = e /\ f.confidence = ConfidenceFor(results[e])
  BY <1>2 DEF DetectorFinding, Finding
<1> QED BY <1>3 DEF ResultOf

(* The document agrees at every dimension. *)
LEMMA DocumentAgreement ==
  ASSUME NEW page, NEW broken, NEW d \in MatrixDimensions, d # "cms"
  PROVE  AgreesAt(Document(page, broken), d)
<1> DEFINE results == ResultsOf(page, broken)
           doc == BuildInvestigationReport(page, results)
           rows == {f \in doc.technologyTable : f.category = d}
           sure == {f.confidence : f \in {g \in Findings(doc) : g.category = d /\ g.name = d}}
           c == doc.confidenceMatrix[d].confidence
<1>1. /\ DOMAIN results = Sectioned(broken) /\ Reliable(results)
      /\ \A e \in Sectioned(broken) : results[e] = SectionResult(page, broken, e)
  BY ReportResults
<1> HIDE DEF results
<1>2. c = ConfidenceFor(ResultOf(results, d))
  BY MatrixConfidence
<1>3. sure \subseteq {c}
  BY <1>2, SureSections
<1>4. rows = Rows(page, results, d)
  BY DEF Rows
<1>5. rows # {} => d \in DOMAIN results
  BY <1>4, RowDetected
<1>6. rows # {} =>
           /\ c \in {r.confidence : r \in rows}
           /\ \A r \in rows : \E i, j \in DOMAIN Ranking :
                  i <= j /\ Ranking[i] = c /\ Ranking[j] = r.confidence
  <2> SUFFICES ASSUME rows # {}
               PROVE /\ c \in {r.confidence : r \in rows}
                     /\ \A r \in rows : \E i, j \in DOMAIN Ranking :
                            i <= j /\ Ranking[i] = c /\ Ranking[j] = r.confidence
    OBVIOUS
  <2>1. d \in DOMAIN results
    BY <1>5
  <2>2. c = ConfidenceFor(results[d])
    BY <1>2, <2>1 DEF ResultOf
  <2> HIDE DEF rows, c
  <2> QED BY <1>1, <1>4, <2>1, <2>2, SurestRow
<1>7. d \in DOMAIN EdgeOf => (EdgeOf[d] \in doc.diagram <=> Identified(c))
  <2>1. DOMAIN EdgeOf = {"cdn", "authProvider", "analytics", "backendFramework"}
    BY DEF EdgeOf
  <2> HIDE DEF c
  <2> QED BY <1>2, <2>1, DiagramEdges
<1>8. d = "libraries" => (doc.structure = "application" <=> \E r \in rows : r.name \in doc.confirmedTechnologyNames)
  <2>1. "libraries" \in DOMAIN results =>
            results["libraries"] = Failed \/ results["libraries"] = Detect("libraries", page)
    BY <1>1 DEF SectionResult
  <2> HIDE DEF doc, rows
  <2> QED BY <1>1, <1>4, <2>1, LibrariesAgree DEF doc
<1> HIDE DEF sure, rows, c
<1>9. AgreesAt(doc, d)
  BY <1>3, <1>6, <1>7, <1>8, Zenon DEF AgreesAt, sure, rows, c
<1> QED BY <1>9 DEF Document, results

------------------------------------------------------------------------------
(* The screen *)

(* What Show puts on the screen *)
Shown(s) == [dim |-> s.dim, summary |-> ShowSection(s.dim, s.result)]
ViewOf(sections) == [sections |-> Map(sections, LAMBDA s : Shown(s))]

(* What the browser shows of a dimension, given its sections in any order *)
LEMMA ViewFacts ==
  ASSUME NEW page, NEW broken, NEW s \in Seq(SectionSet(page, broken)),
         ToSet(s) = SectionSet(page, broken)
  PROVE  LET v == ViewOf(s).sections
         IN  /\ \A d \in Sectioned(broken) :
                  Head(OfDimension(v, d)).summary = ShowSection(d, SectionResult(page, broken, d))
             /\ \A i \in DOMAIN v : /\ v[i].dim \in Sectioned(broken)
                                    /\ v[i].summary = ShowSection(v[i].dim, SectionResult(page, broken, v[i].dim))
<1> DEFINE V == SectionSet(page, broken)
           v == ViewOf(s).sections
           W == {Shown(x) : x \in V}
           show(d) == ShowSection(d, SectionResult(page, broken, d))
<1>1. v = [i \in DOMAIN s |-> Shown(s[i])]
  BY DEF ViewOf, Map
<1>2. \A x \in V : \E d \in Sectioned(broken) : x.dim = d /\ x.result = SectionResult(page, broken, d)
  <2> SUFFICES ASSUME NEW x \in V
               PROVE  \E d \in Sectioned(broken) : x.dim = d /\ x.result = SectionResult(page, broken, d)
    OBVIOUS
  <2>1. PICK d \in Sectioned(broken) : x = Section(page, broken, d)
    BY DEF SectionSet
  <2>2. x.dim = d /\ x.result = SectionResult(page, broken, d)
    BY <2>1 DEF Section
  <2> QED BY <2>2
<1>3. \A x \in V : Shown(x).dim = x.dim /\ x.dim \in Sectioned(broken)
                   /\ Shown(x) = [dim |-> x.dim, summary |-> show(x.dim)]
  <2> SUFFICES ASSUME NEW x \in V
               PROVE  /\ Shown(x).dim = x.dim /\ x.dim \in Sectioned(broken)
                      /\ Shown(x) = [dim |-> x.dim, summary |-> show(x.dim)]
    OBVIOUS
  <2>1. x.dim \in Sectioned(broken) /\ x.result = SectionResult(page, broken, x.dim)
    BY <1>2
  <2>2. Shown(x) = [dim |-> x.dim, summary |-> show(x.dim)]
    BY <2>1 DEF Shown
  <2> HIDE DEF show
  <2> QED BY <2>1, <2>2
<1>4. \A d \in Sectioned(broken) : \E x \in V : x.dim = d
  BY SectionSetOnce
<1>5. DOMAIN s = 1..Len(s) /\ Len(s) \in Nat /\ \A i \in 1..Len(s) : s[i] \in V
  OBVIOUS
<1>6. s \in Seq(V) /\ ToSet(s) = V
  OBVIOUS
<1> HIDE DEF V, v, show
<1>7. v \in Seq(W)
  <2> DEFINE w(i) == Shown(s[i])
  <2>1. \A i \in 1..Len(s) : w(i) \in W
    BY <1>5
  <2>2. v = [i \in 1..Len(s) |-> w(i)]
    BY <1>1, <1>5
  <2> HIDE DEF w, W
  <2> QED BY <1>5, <2>1, <2>2
<1>8. ToSet(v) = W
  <2>1. V = {s[i] : i \in DOMAIN s}
    BY <1>6 DEF ToSet
  <2>2. ToSet(v) = {v[i] : i \in DOMAIN s}
    BY <1>1 DEF ToSet
  <2> QED BY <1>1, <2>1, <2>2
<1>9. ASSUME NEW d \in Sectioned(broken) PROVE Head(OfDimension(v, d)).summary = show(d)
  <2>1. PICK x \in V : x.dim = d
    BY <1>4
  <2> DEFINE r == Shown(x)
  <2>2. r \in W /\ r.dim = d /\ r.summary = show(d)
    BY <1>3, <2>1
  <2>3. \A q \in W : q.dim = d => q = r
    BY <1>3, <2>1
  <2> HIDE DEF r, W
  <2>4. Head(OfDimension(v, r.dim)) = r
    BY <1>7, <1>8, <2>2, <2>3, FoundUnder
  <2> QED BY <2>2, <2>4
<1>10. ASSUME NEW i \in DOMAIN v PROVE v[i].dim \in Sectioned(broken) /\ v[i].summary = show(v[i].dim)
  <2>1. i \in 1..Len(s) /\ v[i] = Shown(s[i]) /\ s[i] \in V
    BY <1>1, <1>5
  <2> QED BY <1>3, <2>1
<1> QED BY <1>9, <1>10 DEF v, show

(* An error is shown as an error; the rest as its detector is. *)
LEMMA ShownFaithfully ==
  ASSUME NEW page, NEW broken, NEW d \in Sectioned(broken)
  PROVE  LET r == SectionResult(page, broken, d)
             shown == ShowSection(d, r)
         IN  /\ DetectedNames(r) \subseteq ToSet(shown.values)
             /\ ~shown.empty /\ r.status = "ok" => HasSignal(r.data)
             /\ shown.empty => Silent(d, r.data)
<1> DEFINE r == SectionResult(page, broken, d)
           shown == ShowSection(d, r)
<1>1. r = Failed \/ Faithful(d, r)
  BY ResultFaithful
<1> HIDE DEF r
<1>2. CASE r = Failed
  <2>1. Failed.status = "error" /\ "detected" \notin DOMAIN Failed.data.lists
    BY DEF Failed, Data
  <2>2. DetectedNames(Failed) = {}
    BY <2>1 DEF DetectedNames
  <2>3. shown.empty = FALSE
    BY <1>2, <2>1 DEF ShowSection, Summary
  <2> HIDE DEF shown
  <2> QED BY <1>2, <2>1, <2>2, <2>3 DEF r, shown
<1>3. CASE Faithful(d, r)
  <2>1. r.status = "ok"
    BY <1>3 DEF Faithful
  <2>2. shown = HumanizeDetectorData(d, r.data)
    BY <2>1 DEF ShowSection
  <2> HIDE DEF shown
  <2>3. /\ DetectedNames(r) \subseteq ToSet(shown.values)
        /\ ~shown.empty => HasSignal(r.data)
        /\ shown.empty => Silent(d, r.data)
    BY <1>3, <2>2, Zenon DEF Faithful
  <2> QED BY <2>1, <2>3 DEF r, shown
<1> QED BY <1>1, <1>2, <1>3

(* What can end a job whose crawl succeeded *)
Lost == \/ BuildThrows(Page, ResultsOf(Page, Broken))
        \/ ~Parses(Page, Broken) \/ ~Storable(Page)

(* The inductive invariant: a report, its row and its view are what the     *)
(* functions of this module make of the one page, and a job that failed had *)
(* all its attempts and was lost in the last.                               *)
ExtractInv ==
  /\ attempt \in 0..MaxAttempts
  /\ status \in {"RUNNING", "SUCCEEDED", "FAILED"}
  /\ report # NoReport => status = "RUNNING" /\ report = ExtractReport(Page, Broken)
  /\ status = "RUNNING" => attempt < MaxAttempts \/ report # NoReport
  /\ status = "SUCCEEDED" => payload = Stored(ExtractReport(Page, Broken))
  /\ status = "FAILED" => attempt = MaxAttempts /\ Lost
  /\ view # NoReport => /\ status = "SUCCEEDED"
                        /\ view = ViewOf(Stored(ExtractReport(Page, Broken)).sections)

LEMMA ExtractInvInit == Init => ExtractInv
BY MaxAttemptsAssumption DEF Init, ExtractInv

LEMMA ExtractInvNext == ExtractInv /\ [Next]_vars => ExtractInv'
<1> SUFFICES ASSUME ExtractInv, [Next]_vars PROVE ExtractInv'
  OBVIOUS
<1> DEFINE R == ExtractReport(Page, Broken)
<1>0. R # NoReport
  BY ReportFields
<1> HIDE DEF R
<1>1. CASE Analyse
  <2>1. /\ input' = input /\ payload' = payload /\ view' = view /\ attempt' = attempt + 1
        /\ status = "RUNNING" /\ report = NoReport
    BY <1>1 DEF Analyse
  <2>2. attempt \in 0..MaxAttempts /\ attempt < MaxAttempts /\ view = NoReport
    BY <2>1 DEF ExtractInv
  <2>3. attempt + 1 \in 0..MaxAttempts
    BY <2>2, MaxAttemptsAssumption
  <2>4. Page' = Page /\ Broken' = Broken /\ (Lost <=> Lost') /\ (R = R')
    BY <2>1 DEF Page, Broken, Lost, R
  <2>5. CASE BuildThrows(Page, ResultsOf(Page, Broken)) \/ ~Parses(Page, Broken)
    <3>1. /\ report' = NoReport
          /\ status' = IF attempt + 1 < MaxAttempts THEN "RUNNING" ELSE "FAILED"
      BY <1>1, <2>5 DEF Analyse, AttemptFailed
    <3>2. Lost
      BY <2>5 DEF Lost
    <3> QED BY <2>1, <2>2, <2>3, <2>4, <3>1, <3>2, MaxAttemptsAssumption DEF ExtractInv
  <2>6. CASE ~(BuildThrows(Page, ResultsOf(Page, Broken)) \/ ~Parses(Page, Broken))
    <3>1. report' = R /\ status' = status
      BY <1>1, <2>6 DEF Analyse, R
    <3> QED BY <1>0, <2>1, <2>2, <2>3, <2>4, <3>1 DEF ExtractInv, R
  <2> QED BY <2>5, <2>6
<1>2. CASE Complete
  <2>1. /\ input' = input /\ attempt' = attempt /\ view' = view
        /\ status = "RUNNING" /\ report # NoReport
    BY <1>2 DEF Complete
  <2>2. attempt \in 0..MaxAttempts /\ view = NoReport /\ report = R
    BY <2>1 DEF ExtractInv, R
  <2>3. Page' = Page /\ Broken' = Broken /\ (Lost <=> Lost') /\ (R = R')
    BY <2>1 DEF Page, Broken, Lost, R
  <2>4. CASE Storable(Page)
    <3>1. payload' = Stored(R) /\ status' = "SUCCEEDED" /\ report' = NoReport
      BY <1>2, <2>2, <2>4 DEF Complete
    <3> QED BY <2>1, <2>2, <2>3, <3>1 DEF ExtractInv, R
  <2>5. CASE ~Storable(Page)
    <3>1. /\ report' = NoReport
          /\ status' = IF attempt < MaxAttempts THEN "RUNNING" ELSE "FAILED"
      BY <1>2, <2>5 DEF Complete, AttemptFailed
    <3>2. Lost
      BY <2>5 DEF Lost
    <3> QED BY <2>1, <2>2, <2>3, <3>1, <3>2, MaxAttemptsAssumption DEF ExtractInv
  <2> QED BY <2>4, <2>5
<1>3. CASE Show
  <2>1. /\ UNCHANGED <<input, attempt, status, report, payload>> /\ status = "SUCCEEDED"
        /\ view' = ViewOf(payload.sections)
    BY <1>3 DEF Show, ViewOf, Shown
  <2>2. Page' = Page /\ Broken' = Broken /\ (Lost <=> Lost') /\ (R = R')
    BY <2>1 DEF Page, Broken, Lost, R
  <2>3. payload = Stored(R)
    BY <2>1 DEF ExtractInv, R
  <2> QED BY <2>1, <2>2, <2>3 DEF ExtractInv, R
<1>4. CASE UNCHANGED vars
  <2>1. UNCHANGED <<input, attempt, status, report, payload, view>>
    BY <1>4 DEF vars
  <2>2. Page' = Page /\ Broken' = Broken /\ (Lost <=> Lost')
    BY <2>1 DEF Page, Broken, Lost
  <2> QED BY <2>1, <2>2 DEF ExtractInv
<1> QED BY <1>1, <1>2, <1>3, <1>4 DEF Next

(* From a page to its view, every state is one of these. *)
LEMMA ExtractInvariant == Spec => []ExtractInv
BY ExtractInvInit, ExtractInvNext, PTL DEF Spec

(* What the invariant says of each property *)
LEMMA SectionsAreOrdered == ExtractInv => SectionsInOrder
<1> SUFFICES ASSUME ExtractInv, report # NoReport
             PROVE  Map(report.sections, LAMBDA r : r.dim) = Registry
  BY DEF SectionsInOrder
<1>1. report.sections = SectionsOf(Page, Broken)
  BY ReportFields DEF ExtractInv
<1> DEFINE p == SectionsOf(Page, Broken)
<1>2. Dims(p) = Only(DetectorList, Sectioned(Broken))
  BY SectionsFacts
<1>3. Map(p, LAMBDA r : r.dim) = Dims(p)
  BY DEF Map, Dims
<1>4. Sectioned(Broken) = {d \in ToSet(DetectorList) : Merged => d # "gridSystem"}
  BY DEF Sectioned, Merged
<1> HIDE DEF p
<1>5. Registry = Dims(p)
  BY <1>2, <1>4 DEF Registry
<1> QED BY <1>1, <1>3, <1>5 DEF p

LEMMA DetectorsAreIsolated == ExtractInv => Isolation
<1> SUFFICES ASSUME ExtractInv, report # NoReport, NEW d \in ToSet(DetectorList)
             PROVE  LET clean == Detect(d, Page)
                        result == ResultIn(report.sections, d)
                    IN  CASE d \in Broken -> result = Failed
                          [] d \in Pair /\ Merged ->
                                LET part == IF d = "responsive" THEN "responsive" ELSE "grid"
                                    parts == ResultIn(report.sections, "responsive").data.parts
                                IN  part \in DOMAIN parts /\ parts[part] = clean.data
                          [] OTHER -> /\ result = clean
                                      /\ TechnologyFindings(d, clean)
                                            \subseteq report.investigation.technologyTable
  BY DEF Isolation
<1> DEFINE p == SectionsOf(Page, Broken)
           results == ResultsOf(Page, Broken)
           clean == Detect(d, Page)
           result == ResultIn(report.sections, d)
           part == IF d = "responsive" THEN "responsive" ELSE "grid"
           parts == ResultIn(report.sections, "responsive").data.parts
           table == report.investigation.technologyTable
<1>1. report.sections = p /\ report.investigation = BuildInvestigationReport(Page, results)
  BY ReportFields DEF ExtractInv, Document
<1>2. \A e \in Sectioned(Broken) : ResultIn(p, e) = SectionResult(Page, Broken, e)
  BY SectionsFacts, ResultUnder
<1>3. DOMAIN results = Sectioned(Broken)
      /\ \A e \in Sectioned(Broken) : results[e] = SectionResult(Page, Broken, e)
  BY ReportResults
<1>4. Merged <=> Broken \cap Pair = {}
  BY DEF Merged
<1>5. \A e : e \in Sectioned(Broken) <=> e \in ToSet(DetectorList) /\ (Merged => e # "gridSystem")
  BY <1>4 DEF Sectioned
<1> HIDE DEF p, results
<1>6. CASE d \in Broken
  <2>1. d \in Sectioned(Broken)
    BY <1>4, <1>5, <1>6 DEF Pair
  <2>2. SectionResult(Page, Broken, d) = Failed
    BY <1>6 DEF SectionResult
  <2>3. result = Failed
    BY <1>1, <1>2, <2>1, <2>2
  <2>4. ~(d \in Pair /\ Merged)
    BY <1>4, <1>6
  <2> HIDE DEF result, clean
  <2> QED BY <1>6, <2>3, <2>4 DEF result
<1>7. CASE d \in Pair /\ Merged
  <2>1. "responsive" \in Sectioned(Broken)
    BY <1>5, DetectorListSet DEF Dimensions
  <2>2. "responsive" \notin Broken /\ d \notin Broken
    BY <1>4, <1>7 DEF Pair
  <2>3. SectionResult(Page, Broken, "responsive") = Both(Page)
    BY <1>4, <1>7, <2>2 DEF SectionResult
  <2>4. ResultIn(report.sections, "responsive") = Both(Page)
    BY <1>1, <1>2, <2>1, <2>3
  <2>5. Both(Page).data.parts = [responsive |-> Detect("responsive", Page).data,
                                 grid |-> Detect("gridSystem", Page).data]
    BY DEF Both, Ok, Data
  <2>6. d = "responsive" \/ d = "gridSystem"
    BY <1>7 DEF Pair
  <2>7. part \in DOMAIN parts /\ parts[part] = clean.data
    BY <2>4, <2>5, <2>6
  <2> HIDE DEF result, clean, part, parts
  <2> QED BY <1>7, <2>2, <2>7 DEF part, clean, parts
<1>8. CASE d \notin Broken /\ ~(d \in Pair /\ Merged)
  <2>1. d \in Sectioned(Broken)
    BY <1>5, <1>8 DEF Pair
  <2>2. SectionResult(Page, Broken, d) = clean
    BY <1>4, <1>8 DEF SectionResult, Pair
  <2>3. result = clean
    BY <1>1, <1>2, <2>1, <2>2
  <2>4. results[d] = clean /\ d \in DOMAIN results
    BY <1>3, <2>1, <2>2
  <2>5. TechnologyFindings(d, clean) \subseteq table
    BY <1>1, <2>4 DEF BuildInvestigationReport
  <2> HIDE DEF result, clean, table
  <2> QED BY <1>8, <2>3, <2>5 DEF result, clean, table
<1> QED BY <1>6, <1>7, <1>8

LEMMA EvidenceIsThere == ExtractInv => NothingWithoutEvidence
<1> SUFFICES ASSUME ExtractInv, report # NoReport
             PROVE  LET doc == report.investigation
                    IN  /\ \A f \in doc.technologyTable \union Findings(doc) :
                              Identified(f.confidence) /\ f.name # "security" => f.evidence # <<>>
                        /\ doc.overallConfidence = "highly_probable" => doc.confirmedTechnologyNames # {}
  BY DEF NothingWithoutEvidence
<1> DEFINE doc == report.investigation
<1>1. doc = BuildInvestigationReport(Page, ResultsOf(Page, Broken))
  BY ReportFields DEF ExtractInv, Document
<1> HIDE DEF doc
<1>2. \A f \in doc.technologyTable \union Findings(doc) : Backed(f)
  BY <1>1, DocumentBacked
<1>3. doc.overallConfidence = "highly_probable" => doc.confirmedTechnologyNames # {}
  BY <1>1, DocumentBacked
<1> QED BY <1>2, <1>3 DEF Backed, doc

LEMMA PartsAgree == ExtractInv => DocumentAgrees
<1> DEFINE doc == report.investigation
<1>1. ASSUME ExtractInv, report # NoReport, NEW d \in DOMAIN doc.confidenceMatrix \ {"cms"}
      PROVE  AgreesAt(doc, d)
  <2>1. doc = Document(Page, Broken)
    BY <1>1, ReportFields DEF ExtractInv
  <2>2. DOMAIN doc.confidenceMatrix = MatrixDimensions
    BY <2>1 DEF Document, BuildInvestigationReport, BuildConfidenceMatrix
  <2> HIDE DEF doc
  <2> QED BY <1>1, <2>1, <2>2, DocumentAgreement
<1> HIDE DEF doc
<1>2. ExtractInv /\ report # NoReport => \A d \in DOMAIN doc.confidenceMatrix \ {"cms"} : AgreesAt(doc, d)
  BY <1>1
<1> QED BY <1>2, Zenon DEF AgreesAt, DocumentAgrees, doc

(* What is in the view and in the database *)
LEMMA ViewInv ==
  ASSUME ExtractInv, view # NoReport
  PROVE  /\ payload.investigation = Document(Page, Broken)
         /\ \A d \in Sectioned(Broken) :
              /\ SectionOf(d) = SectionResult(Page, Broken, d)
              /\ ShownOf(d) = ShowSection(d, SectionResult(Page, Broken, d))
         /\ \A i \in DOMAIN view.sections :
              LET s == view.sections[i]
              IN  s.dim \in Sectioned(Broken)
                  /\ s.summary = ShowSection(s.dim, SectionResult(Page, Broken, s.dim))
<1> DEFINE V == SectionSet(Page, Broken)
           st == Stored(ExtractReport(Page, Broken))
           s == st.sections
<1>1. payload = st /\ view = ViewOf(s)
  BY DEF ExtractInv
<1>2. payload.investigation = Document(Page, Broken)
  BY <1>1, ReportFields
<1>3. s \in Seq(V) /\ ToSet(s) = V
  BY StoredFacts
<1>4. \A d \in Sectioned(Broken) : ResultIn(s, d) = SectionResult(Page, Broken, d)
  BY <1>3, ResultUnder
<1>5. /\ \A d \in Sectioned(Broken) :
            Head(OfDimension(ViewOf(s).sections, d)).summary = ShowSection(d, SectionResult(Page, Broken, d))
      /\ \A i \in DOMAIN ViewOf(s).sections :
            LET x == ViewOf(s).sections[i]
            IN  x.dim \in Sectioned(Broken)
                /\ x.summary = ShowSection(x.dim, SectionResult(Page, Broken, x.dim))
  BY <1>3, ViewFacts
<1> HIDE DEF st
<1>6. \A d \in Sectioned(Broken) :
              /\ SectionOf(d) = SectionResult(Page, Broken, d)
              /\ ShownOf(d) = ShowSection(d, SectionResult(Page, Broken, d))
  BY <1>1, <1>4, <1>5 DEF SectionOf, ShownOf
<1> QED BY <1>1, <1>2, <1>5, <1>6

LEMMA TechnologiesAreShown == ExtractInv => TechnologiesShown
<1> SUFFICES ASSUME ExtractInv, view # NoReport
             PROVE  /\ \A f \in payload.investigation.technologyTable :
                          f.name \in ToSet(ShownOf(f.category).values)
                    /\ \A i \in DOMAIN view.sections :
                          LET s == view.sections[i]
                          IN  ~s.summary.empty /\ SectionOf(s.dim).status = "ok"
                                => HasSignal(SectionOf(s.dim).data)
  BY DEF TechnologiesShown
<1> DEFINE results == ResultsOf(Page, Broken)
<1>1. ASSUME NEW f \in payload.investigation.technologyTable
      PROVE  f.name \in ToSet(ShownOf(f.category).values)
  <2> DEFINE d == f.category
  <2>1. payload.investigation = BuildInvestigationReport(Page, results)
    BY ViewInv DEF Document
  <2>2. f \in Rows(Page, results, d)
    BY <2>1 DEF Rows
  <2>3. d \in DOMAIN results /\ f.name \in DetectedNames(results[d])
    BY <2>2, RowDetected
  <2>4. d \in Sectioned(Broken) /\ results[d] = SectionResult(Page, Broken, d)
    BY <2>3, ReportResults
  <2>5. ShownOf(d) = ShowSection(d, SectionResult(Page, Broken, d))
    BY <2>4, ViewInv
  <2> HIDE DEF d, results
  <2>6. DetectedNames(SectionResult(Page, Broken, d))
          \subseteq ToSet(ShowSection(d, SectionResult(Page, Broken, d)).values)
    BY <2>4, ShownFaithfully
  <2> QED BY <2>3, <2>4, <2>5, <2>6 DEF d
<1>2. ASSUME NEW i \in DOMAIN view.sections, ~view.sections[i].summary.empty,
             SectionOf(view.sections[i].dim).status = "ok"
      PROVE  HasSignal(SectionOf(view.sections[i].dim).data)
  <2> DEFINE d == view.sections[i].dim
             r == SectionResult(Page, Broken, d)
  <2>1. d \in Sectioned(Broken) /\ view.sections[i].summary = ShowSection(d, r)
    BY ViewInv
  <2>2. SectionOf(d) = r
    BY <2>1, ViewInv
  <2> HIDE DEF d
  <2>3. ~ShowSection(d, r).empty /\ r.status = "ok" => HasSignal(r.data)
    BY <2>1, ShownFaithfully
  <2> HIDE DEF r
  <2> QED BY <1>2, <2>1, <2>2, <2>3 DEF d
<1> QED BY <1>1, <1>2

LEMMA WhatIsFoundIsShown == ExtractInv => FoundIsShown
<1> SUFFICES ASSUME ExtractInv, view # NoReport, NEW i \in DOMAIN view.sections
             PROVE  LET s == view.sections[i]
                        data == SectionOf(s.dim).data
                    IN  s.summary.empty =>
                          /\ SilentBut(data, Unread(s.dim))
                          /\ \A p \in DOMAIN data.parts : SilentBut(data.parts[p], Unread(s.dim))
  BY DEF FoundIsShown
<1> DEFINE d == view.sections[i].dim
           r == SectionResult(Page, Broken, d)
<1>1. d \in Sectioned(Broken) /\ view.sections[i].summary = ShowSection(d, r)
  BY ViewInv
<1>2. SectionOf(d) = r
  BY <1>1, ViewInv
<1> HIDE DEF d
<1>3. ShowSection(d, r).empty => Silent(d, r.data)
  BY <1>1, ShownFaithfully, Zenon
<1> HIDE DEF r
<1> QED BY <1>1, <1>2, <1>3 DEF d, Silent

(* What a detector that threw leaves to the document *)
LEMMA BrokenFails ==
  ASSUME NEW page, NEW broken, NEW d \in broken
  PROVE  ResultOf(ResultsOf(page, broken), d).status # "ok"
<1> DEFINE results == ResultsOf(page, broken)
<1>1. DOMAIN results = Sectioned(broken)
      /\ \A e \in Sectioned(broken) : results[e] = SectionResult(page, broken, e)
  BY ReportResults
<1> HIDE DEF results
<1>2. ResultOf(results, d) = Failed
  BY <1>1 DEF ResultOf, SectionResult
<1>3. Failed.status = "error"
  BY DEF Failed
<1> QED BY <1>2, <1>3 DEF results

(* A list that is cut fits. *)
LEMMA CutFits ==
  ASSUME NEW page, NEW results, NEW f \in DOMAIN SchemaMax,
         ~(CollectTechnicalEvidence(page, results)[f].entries <= SchemaMax[f])
  PROVE  f \notin DOMAIN Cut /\ Hit(page, "many", "page", f)
<1> DEFINE many == Hit(page, "many", "page", f)
           raw == IF many THEN SchemaMax[f] + 1 ELSE 1
           there == f \in DOMAIN TakenFrom => ResultOf(results, TakenFrom[f]).status = "ok"
           n == CollectTechnicalEvidence(page, results)[f].entries
<1>1. n = CASE ~there -> 0
            [] there /\ f \in DOMAIN Cut -> Min({raw, Cut[f]})
            [] OTHER -> raw
  BY DEF CollectTechnicalEvidence, EvidenceFields
<1>2. SchemaMax[f] \in Nat /\ SchemaMax[f] >= 1 /\ (f \in DOMAIN Cut => Cut[f] = SchemaMax[f])
  BY DEF SchemaMax, Cut
<1>3. raw \in Nat /\ (~many => raw = 1)
  BY <1>2
<1>4. ~(n <= SchemaMax[f])
  OBVIOUS
<1> HIDE DEF n, raw, there, many
<1>5. there
  BY <1>1, <1>2, <1>4
<1>6. f \notin DOMAIN Cut
  <2> SUFFICES ASSUME f \in DOMAIN Cut PROVE FALSE
    OBVIOUS
  <2> DEFINE b == Cut[f]
  <2>1. b \in Nat /\ b = SchemaMax[f] /\ n = Min({raw, b})
    BY <1>1, <1>2, <1>5
  <2> HIDE DEF b
  <2>2. \E x \in {raw, b} : \A y \in {raw, b} : x <= y
    BY <1>3, <2>1
  <2>3. Min({raw, b}) <= b
    BY <2>1, <2>2 DEF Min
  <2> QED BY <1>4, <2>1, <2>3
<1>7. many
  BY <1>1, <1>2, <1>3, <1>4, <1>5, <1>6
<1> QED BY <1>6, <1>7 DEF many

(* The limits of FailsOnlyBeyondLimits that the schema sets *)
Beyond ==
  \/ \E f \in DOMAIN SchemaMax \ DOMAIN Cut : Large(f)
  \/ \E f \in EvidenceFields \ CutTexts : Long(f) /\ Returned(f)
  \/ \E f \in {"title", "finalUrl", "location"} : Long(f)
  \/ \E d \in {"apisConsumed", "dockerKubernetes"} \ Broken : Hit(Page, "many", d, "evidence")

(* What does not fit the schema is beyond one of them. *)
LEMMA UnfitIsBeyond == ~FitsSchema(Page, ResultsOf(Page, Broken)) => Beyond
<1> DEFINE results == ResultsOf(Page, Broken)
           e == CollectTechnicalEvidence(Page, results)
<1>0. \A d \in Broken : ResultOf(results, d).status # "ok"
  BY BrokenFails
<1> SUFFICES ASSUME ~FitsSchema(Page, results) PROVE Beyond
  OBVIOUS
<1> HIDE DEF results
<1>1. \/ \E f \in DOMAIN SchemaMax : ~(e[f].entries <= SchemaMax[f])
      \/ \E f \in EvidenceFields : e[f].long
      \/ Overfull(Page, results)
      \/ LocatedTooFar(Page, results)
      \/ Hit(Page, "long", "page", "title")
  BY DEF FitsSchema
<1>2. CASE \E f \in DOMAIN SchemaMax : ~(e[f].entries <= SchemaMax[f])
  BY <1>2, CutFits DEF Beyond, Large
<1>3. CASE \E f \in EvidenceFields : e[f].long
  <2>1. PICK f \in EvidenceFields : e[f].long
    BY <1>3
  <2>2. /\ f \in DOMAIN TakenFrom => ResultOf(results, TakenFrom[f]).status = "ok"
        /\ f \notin CutTexts /\ Hit(Page, "long", "page", f)
    BY <2>1 DEF CollectTechnicalEvidence
  <2>3. Long(f) /\ Returned(f)
    BY <1>0, <2>2 DEF Long, Returned
  <2> QED BY <2>1, <2>2, <2>3 DEF Beyond
<1>4. CASE Overfull(Page, results)
  <2>1. PICK d \in {"apisConsumed", "dockerKubernetes"} :
          ResultOf(results, d).status = "ok" /\ Hit(Page, "many", d, "evidence")
    BY <1>4 DEF Overfull
  <2>2. d \notin Broken
    BY <1>0, <2>1
  <2> QED BY <2>1, <2>2 DEF Beyond
<1>5. CASE LocatedTooFar(Page, results)
  BY <1>5 DEF LocatedTooFar, Beyond, Long
<1>6. CASE Hit(Page, "long", "page", "title")
  BY <1>6 DEF Beyond, Long
<1> QED BY <1>1, <1>2, <1>3, <1>4, <1>5, <1>6

LEMMA LostBeyondLimits == ExtractInv => FailsOnlyBeyondLimits
<1> SUFFICES ASSUME ExtractInv, status = "FAILED" PROVE FailsOnlyBeyondLimits
  BY DEF FailsOnlyBeyondLimits
<1>1. attempt = MaxAttempts /\ Lost
  BY DEF ExtractInv
<1>2. BuildThrows(Page, ResultsOf(Page, Broken)) => Large("headings") \/ Beyond
  BY UnfitIsBeyond DEF BuildThrows, Large
<1>3. ~Parses(Page, Broken) => Beyond \/ (Large("error") /\ Broken # {})
  BY UnfitIsBeyond DEF Parses, Large
<1>4. Large("headings") \/ Beyond \/ (Large("error") /\ Broken # {}) \/ ~Storable(Page)
  BY <1>1, <1>2, <1>3 DEF Lost
<1> QED BY <1>1, <1>4 DEF FailsOnlyBeyondLimits, Beyond

------------------------------------------------------------------------------
(* The seven properties of Extract *)

(* SortByDimension and the merge: the report has each dimension of the       *)
(* registry once, in its order, gridSystem inside responsive unless one threw. *)
THEOREM SectionsKeepOrder == Spec => []SectionsInOrder
BY ExtractInvariant, SectionsAreOrdered, PTL

(* runDetectorsSafely: whichever detectors throw, the sections and the       *)
(* technologies of all others are what they would have been.                 *)
THEOREM DetectorsStayIsolated == Spec => []Isolation
BY ExtractInvariant, DetectorsAreIsolated, PTL

(* The builder calls nothing identified without evidence, in the table and   *)
(* in the sections of the document, on any page.                             *)
THEOREM IdentifiedOnEvidence == Spec => []NothingWithoutEvidence
BY ExtractInvariant, EvidenceIsThere, PTL

(* Table, sections, matrix, diagram and structure of a document agree on how *)
(* sure each dimension is.                                                   *)
THEOREM DocumentStaysConsistent == Spec => []DocumentAgrees
BY ExtractInvariant, PartsAgree, PTL

(* Stored, read back and rendered, every technology of the document is in    *)
(* the section of its dimension, and no section shows what nothing signals.  *)
THEOREM TechnologiesReachReader == Spec => []TechnologiesShown
BY ExtractInvariant, TechnologiesAreShown, PTL

(* humanizeDetectorData: on any page, with any detectors broken, a section    *)
(* shown as empty hides only fields of Unread, which its renderer never asks. *)
THEOREM FindingsReachReader == Spec => []FoundIsShown
BY ExtractInvariant, WhatIsFoundIsShown, PTL

(* A job fails after its last attempt, and only for a page beyond one of the  *)
(* limits of length and number nobody cuts to, or a text JSONB refuses; what  *)
(* a detector that threw would have returned is no such reason.               *)
THEOREM JobsFailBeyondLimits == Spec => []FailsOnlyBeyondLimits
BY ExtractInvariant, LostBeyondLimits, PTL
=============================================================================
