---------------------------- MODULE CodecProofs -----------------------------
(***************************************************************************)
(* What is encoded is decoded as the same: the descriptor tree of any      *)
(* device that leaves nothing out, however many configurations, interfaces *)
(* and endpoints it has, and the TXT record of any list of devices.        *)
(*                                                                         *)
(* The parser is followed along the tree: After(raw, len, p) says that it  *)
(* has come to p after the descriptors raw.  An interface with its         *)
(* endpoints takes it from before an interface to before the next one      *)
(* (AfterInterface), all interfaces of a configuration to its end          *)
(* (AfterConfig), and the configurations to the end of the tree            *)
(* (AfterConfigs), each by induction on what is appended.                  *)
(***************************************************************************)
EXTENDS Codecs, SequenceTheorems, WellFoundedInduction, TLAPS

(***************************************************************************)
(* Sequences: induction in the form of sets, and how flattening, mapping and*)
(* adding up a sequence go from its front to its last element.             *)
(***************************************************************************)
\* A set of numbers that is not empty has a least one.
LEMMA LeastNat ==
  ASSUME NEW T \in SUBSET Nat, T # {}
  PROVE  \E x \in T : \A y \in T : x <= y
<1> DEFINE R == {ss \in Nat \X Nat : ss[1] < ss[2]}
<1>1. IsWellFoundedOn(R, Nat)
  BY NatLessThanWellFounded DEF OpToRel
<1>2. PICK x \in T : \A y \in T : ~(<<y, x>> \in R)
  BY <1>1, WFMin, Zenon
<1>3. ASSUME NEW y \in T PROVE x <= y
  <2>1. y \in Nat /\ x \in Nat
    OBVIOUS
  <2>2. y < x => <<y, x>> \in R
    BY <2>1
  <2>3. QED
    BY <1>2, <2>1, <2>2
<1>4. QED
  BY <1>3

\* Induction: a set with 0 and with the successors of its elements has every number.
LEMMA SetInduction ==
  ASSUME NEW S, 0 \in S, \A n \in Nat : n \in S => n + 1 \in S
  PROVE  Nat \subseteq S
<1> SUFFICES ASSUME NEW m \in Nat, m \notin S PROVE FALSE
  OBVIOUS
<1> DEFINE T == {n \in Nat : n \notin S}
<1>1. PICK x \in T : \A y \in T : x <= y
  <2>1. T \in SUBSET Nat /\ T # {}
    OBVIOUS
  <2> HIDE DEF T
  <2>2. QED
    BY <2>1, LeastNat
<1>2. x \in Nat /\ x # 0 /\ x - 1 \in Nat /\ x - 1 \notin T
  BY <1>1
<1>3. QED
  BY <1>1, <1>2

\* f flattens the first n elements of s: for n = Len(s), the recursive function
\* in the definition of FlattenSeq.
Flattens(f, s, n) ==
    f = [i \in 1..n |-> IF i = 1 THEN s[i] ELSE f[i - 1] \o s[i]]

\* It exists,
LEMMA FlattensExists == ASSUME NEW T, NEW s \in Seq(T) PROVE \E f : Flattens(f, s, Len(s))
<1> DEFINE S == {n \in Nat : n <= Len(s) => \E f : Flattens(f, s, n)}
<1>1. 0 \in S
  <2> DEFINE e == [i \in 1..0 |-> s[i]]
  <2>1. Flattens(e, s, 0)
    BY DEF Flattens
  <2> HIDE DEF e
  <2>2. QED
    BY <2>1
<1>2. ASSUME NEW n \in Nat, n \in S PROVE n + 1 \in S
  <2> SUFFICES ASSUME n + 1 <= Len(s) PROVE \E f : Flattens(f, s, n + 1)
    OBVIOUS
  <2>1. n <= Len(s)
    OBVIOUS
  <2>2. PICK g : Flattens(g, s, n)
    BY <1>2, <2>1
  <2> DEFINE x == IF n = 0 THEN s[1] ELSE g[n] \o s[n + 1]
             f == [i \in 1..(n + 1) |-> IF i = n + 1 THEN x ELSE g[i]]
  <2>3. \A i \in 1..(n + 1) : f[i] = IF i = 1 THEN s[i] ELSE f[i - 1] \o s[i]
    <3> SUFFICES ASSUME NEW i \in 1..(n + 1)
                 PROVE  f[i] = IF i = 1 THEN s[i] ELSE f[i - 1] \o s[i]
      BY Zenon
    <3>1. CASE i = n + 1
      <4>1. i # 1 => i - 1 \in 1..(n + 1) /\ i - 1 # n + 1 /\ i - 1 = n /\ n # 0
        BY <3>1
      <4>2. QED
        BY <3>1, <4>1
    <3>2. CASE i \in 1..n
      <4>1. i # n + 1
        BY <3>2
      <4>2. f[i] = g[i]
        BY <4>1
      <4>3. i # 1 => i - 1 \in 1..n /\ i - 1 \in 1..(n + 1) /\ i - 1 # n + 1
        BY <3>2
      <4>4. i # 1 => f[i - 1] = g[i - 1]
        BY <4>3
      <4>5. QED
        BY <2>2, <3>2, <4>2, <4>4, Zenon DEF Flattens
    <3>3. QED
      BY <3>1, <3>2
  <2>4. Flattens(f, s, n + 1)
    BY <2>3, Zenon DEF Flattens
  <2> HIDE DEF f
  <2>5. QED
    BY <2>4
<1> HIDE DEF S
<1>3. Nat \subseteq S
  BY <1>1, <1>2, SetInduction
<1>4. Len(s) \in Nat
  OBVIOUS
<1>5. Len(s) \in S
  BY <1>3, <1>4
<1>6. QED
  BY <1>4, <1>5 DEF S

\* it has these values,
LEMMA FlattensValue ==
  ASSUME NEW f, NEW s, NEW n, Flattens(f, s, n), NEW k \in Nat, k + 1 \in 1..n
  PROVE  /\ k = 0 => f[k + 1] = s[k + 1]
         /\ k # 0 => f[k + 1] = f[k] \o s[k + 1]
<1>1. \A i \in 1..n : /\ i = 1 => f[i] = s[i]
                      /\ i # 1 => f[i] = f[i - 1] \o s[i]
  BY Zenon DEF Flattens
<1>2. CASE k = 0
  <2>1. k + 1 = 1
    BY <1>2
  <2>2. QED
    BY <1>1, <1>2, <2>1, Zenon
<1>3. CASE k # 0
  <2>1. k + 1 # 1 /\ k + 1 - 1 = k
    BY <1>3
  <2>2. f[k + 1] = f[k] \o s[k + 1]
    <3> DEFINE j == k + 1
    <3> HIDE DEF j
    <3>1. j \in 1..n /\ j # 1 /\ j - 1 = k
      BY <2>1 DEF j
    <3>2. f[j] = f[j - 1] \o s[j]
      BY <1>1, <3>1, Zenon
    <3>3. f[j] = f[k] \o s[j]
      BY <3>1, <3>2, Zenon
    <3>4. QED
      BY <3>3, Zenon DEF j
  <2>3. QED
    BY <1>3, <2>2, Zenon
<1>4. QED
  BY <1>2, <1>3, Zenon

\* its values are sequences, and they depend only on what has been flattened.
LEMMA FlattensUnique ==
  ASSUME NEW T, NEW s \in Seq(Seq(T)), NEW t \in Seq(Seq(T)), NEW m \in Nat,
         m <= Len(s), m <= Len(t), \A i \in 1..m : s[i] = t[i],
         NEW f, Flattens(f, s, Len(s)), NEW g, Flattens(g, t, Len(t))
  PROVE  \A i \in 1..m : f[i] = g[i] /\ f[i] \in Seq(T)
<1> DEFINE S == {n \in Nat : n \in 1..m => f[n] = g[n] /\ f[n] \in Seq(T)}
<1>1. 0 \in S
  OBVIOUS
<1>2. ASSUME NEW n \in Nat, n \in S PROVE n + 1 \in S
  <2> SUFFICES ASSUME n + 1 \in 1..m PROVE f[n + 1] = g[n + 1] /\ f[n + 1] \in Seq(T)
    OBVIOUS
  <2>1. /\ n + 1 \in 1..Len(s) /\ n + 1 \in 1..Len(t) /\ s[n + 1] = t[n + 1]
    OBVIOUS
  <2>6. s[n + 1] \in Seq(T)
    BY <2>1, ElementOfSeq
  <2>2. /\ n = 0 => f[n + 1] = s[n + 1]
        /\ n # 0 => f[n + 1] = f[n] \o s[n + 1]
    BY <2>1, FlattensValue, ZenonT(30)
  <2>7. /\ n = 0 => g[n + 1] = t[n + 1]
        /\ n # 0 => g[n + 1] = g[n] \o t[n + 1]
    BY <2>1, FlattensValue, ZenonT(30)
  <2>3. CASE n = 0
    BY <2>1, <2>2, <2>3, <2>6, <2>7, Zenon
  <2>4. CASE n # 0
    <3>1. n \in 1..m
      BY <2>4
    <3>2. f[n] = g[n] /\ f[n] \in Seq(T)
      BY <1>2, <3>1
    <3>3. f[n + 1] = f[n] \o s[n + 1] /\ g[n + 1] = g[n] \o t[n + 1]
      BY <2>2, <2>4, <2>7, Zenon
    <3>4. f[n] \o s[n + 1] \in Seq(T)
      BY <2>6, <3>2, ConcatProperties
    <3>5. QED
      BY <2>1, <3>2, <3>3, <3>4, Zenon
  <2>5. QED
    BY <2>3, <2>4
<1> HIDE DEF S
<1>3. Nat \subseteq S
  BY <1>1, <1>2, SetInduction, ZenonT(30)
<1>4. QED
  BY <1>3 DEF S

\* What FlattenSeq is.
LEMMA FlattenSeqDef ==
  ASSUME NEW T, NEW s \in Seq(Seq(T)), s # <<>>
  PROVE  \E f : Flattens(f, s, Len(s)) /\ FlattenSeq(s) = f[Len(s)]
<1>1. \E f : Flattens(f, s, Len(s))
  BY FlattensExists
<1> DEFINE g == CHOOSE f : Flattens(f, s, Len(s))
<1>2. Flattens(g, s, Len(s))
  BY <1>1
<1>3. Len(s) # 0
  OBVIOUS
<1>4. FlattenSeq(s) = g[Len(s)]
  BY <1>3 DEF FlattenSeq, Flattens
<1>5. QED
  BY <1>2, <1>4, Zenon

\* FlattenSeq gives a sequence,
LEMMA FlattenType ==
  ASSUME NEW T, NEW s \in Seq(Seq(T)) PROVE FlattenSeq(s) \in Seq(T)
<1>1. CASE s = <<>>
  <2>1. Len(s) = 0
    BY <1>1
  <2>2. FlattenSeq(s) = <<>>
    BY <1>1, <2>1 DEF FlattenSeq
  <2>3. QED
    BY <2>2
<1>2. CASE s # <<>>
  <2>1. PICK f : Flattens(f, s, Len(s)) /\ FlattenSeq(s) = f[Len(s)]
    BY <1>2, FlattenSeqDef
  <2>2. Len(s) \in Nat /\ Len(s) \in 1..Len(s)
    BY <1>2
  <2>3. \A i \in 1..Len(s) : f[i] = f[i] /\ f[i] \in Seq(T)
    BY <2>1, <2>2, FlattensUnique
  <2>4. QED
    BY <2>1, <2>2, <2>3
<1>3. QED
  BY <1>1, <1>2

\* of nothing when there is nothing to flatten,
LEMMA FlattenNone == FlattenSeq(<<>>) = <<>>
<1>1. Len(<<>>) = 0
  OBVIOUS
<1>2. QED
  BY <1>1 DEF FlattenSeq

\* and what is added at the end of its argument is added at the end.
LEMMA FlattenAppend ==
  ASSUME NEW T, NEW s \in Seq(Seq(T)), NEW x \in Seq(T)
  PROVE  FlattenSeq(Append(s, x)) = FlattenSeq(s) \o x
<1> DEFINE t == Append(s, x)
           n == Len(s)
<1>1. /\ t \in Seq(Seq(T)) /\ t # <<>> /\ Len(t) = n + 1 /\ t[n + 1] = x
      /\ n \in Nat /\ \A i \in 1..n : t[i] = s[i]
  BY AppendProperties
<1> HIDE DEF t, n
<1>2. PICK f : Flattens(f, t, Len(t)) /\ FlattenSeq(t) = f[Len(t)]
  BY <1>1, FlattenSeqDef
<1>3. n + 1 \in 1..(n + 1)
  BY <1>1
<1>4. /\ n = 0 => f[n + 1] = t[n + 1]
      /\ n # 0 => f[n + 1] = f[n] \o t[n + 1]
  BY <1>1, <1>2, <1>3, FlattensValue, ZenonT(30)
<1>5. CASE s = <<>>
  <2>1. n = 0
    BY <1>5 DEF n
  <2>2. f[n + 1] = x
    BY <1>1, <1>4, <2>1
  <2>3. <<>> \o x = x
    BY ConcatEmptySeq
  <2>4. QED
    BY <1>1, <1>2, <1>5, <2>2, <2>3, FlattenNone, Zenon DEF t
<1>6. CASE s # <<>>
  <2>1. PICK g : Flattens(g, s, Len(s)) /\ FlattenSeq(s) = g[Len(s)]
    BY <1>6, FlattenSeqDef
  <2>2. n \in 1..n /\ n # 0 /\ n <= Len(s) /\ n <= Len(t)
    BY <1>1, <1>6 DEF n
  <2>3. \A i \in 1..n : f[i] = g[i] /\ f[i] \in Seq(T)
    BY <1>1, <1>2, <2>1, <2>2, FlattensUnique, Zenon
  <2>4. f[n] = FlattenSeq(s)
    BY <2>1, <2>2, <2>3 DEF n
  <2>5. f[n + 1] = FlattenSeq(s) \o x
    BY <1>1, <1>4, <2>2, <2>4, Zenon
  <2>6. QED
    BY <1>1, <1>2, <2>5, Zenon DEF t
<1>7. QED
  BY <1>5, <1>6

\* A sequence that is not empty is its front and its last element.
LEMMA FrontAndLast ==
  ASSUME NEW T, NEW s \in Seq(T), s # <<>>
  PROVE  \E r \in Seq(T), x \in T : s = Append(r, x) /\ Len(s) = Len(r) + 1
<1> DEFINE m == Len(s) - 1
           r == [i \in 1..m |-> s[i]]
           x == s[Len(s)]
<1>1. Len(s) \in Nat /\ m \in Nat /\ Len(s) = m + 1
  OBVIOUS
<1>2. x \in T /\ \A i \in 1..m : s[i] \in T
  BY <1>1, ElementOfSeq
<1>3. r \in Seq(T) /\ Len(r) = m /\ \A i \in 1..m : r[i] = s[i]
  <2> HIDE DEF m
  <2>1. QED
    BY <1>1, <1>2
<1> HIDE DEF r, x, m
<1>4. /\ Append(r, x) \in Seq(T) /\ Len(Append(r, x)) = m + 1
      /\ \A i \in 1..m : Append(r, x)[i] = r[i]
      /\ Append(r, x)[m + 1] = x
  BY <1>2, <1>3, AppendProperties
<1>5. \A i \in 1..Len(s) : s[i] = Append(r, x)[i]
  <2>1. \A i \in 1..Len(s) : i \in 1..m \/ i = m + 1
    BY <1>1
  <2>2. s[m + 1] = x
    BY <1>1 DEF x
  <2>3. QED
    BY <1>3, <1>4, <2>1, <2>2, Zenon
<1>6. s = Append(r, x)
  BY <1>1, <1>4, <1>5, SeqEqual
<1>7. QED
  BY <1>1, <1>2, <1>3, <1>6

\* f sums up, from a, the first n values of w.
Sums(f, a, w, n) == f = [k \in 0..n |-> IF k = 0 THEN a ELSE f[k - 1] + w[k]]

\* It has these values,
LEMMA SumsValue ==
  ASSUME NEW f, NEW a, NEW w, NEW n \in Nat, Sums(f, a, w, n)
  PROVE  /\ f[0] = a
         /\ \A k \in 0..n : k + 1 \in 0..n => f[k + 1] = f[k] + w[k + 1]
<1>1. \A k \in 0..n : f[k] = IF k = 0 THEN a ELSE f[k - 1] + w[k]
  BY Zenon DEF Sums
<1>2. f[0] = a
  <2>1. 0 \in 0..n
    OBVIOUS
  <2>2. QED
    BY <1>1, <2>1, Zenon
<1>3. ASSUME NEW k \in 0..n, k + 1 \in 0..n PROVE f[k + 1] = f[k] + w[k + 1]
  <2> DEFINE j == k + 1
  <2>1. j \in 0..n /\ j # 0 /\ j - 1 = k
    BY <1>3
  <2> HIDE DEF j
  <2>2. f[j] = f[k] + w[j]
    BY <1>1, <2>1, Zenon
  <2>3. QED
    BY <2>2 DEF j
<1>4. QED
  BY <1>2, <1>3, Zenon

\* it exists,
LEMMA SumsExists == ASSUME NEW a, NEW w, NEW n \in Nat PROVE \E f : Sums(f, a, w, n)
<1> DEFINE S == {m \in Nat : \E f : Sums(f, a, w, m)}
<1>1. 0 \in S
  <2> DEFINE e == [k \in 0..0 |-> a]
  <2>1. \A k \in 0..0 : k = 0
    OBVIOUS
  <2>2. Sums(e, a, w, 0)
    BY <2>1, Zenon DEF Sums
  <2> HIDE DEF e
  <2>3. QED
    BY <2>2
<1>2. ASSUME NEW m \in Nat, m \in S PROVE m + 1 \in S
  <2>1. PICK g : Sums(g, a, w, m)
    BY <1>2
  <2> DEFINE x == g[m] + w[m + 1]
             f == [k \in 0..(m + 1) |-> IF k = m + 1 THEN x ELSE g[k]]
  <2>2. \A k \in 0..(m + 1) : f[k] = IF k = 0 THEN a ELSE f[k - 1] + w[k]
    <3> SUFFICES ASSUME NEW k \in 0..(m + 1)
                 PROVE  f[k] = IF k = 0 THEN a ELSE f[k - 1] + w[k]
      OBVIOUS
    <3>1. CASE k = m + 1
      <4>1. k # 0 /\ k - 1 \in 0..(m + 1) /\ k - 1 # m + 1 /\ k - 1 = m
        BY <3>1
      <4>2. f[k] = x /\ f[k - 1] = g[m]
        BY <3>1, <4>1
      <4>3. QED
        BY <3>1, <4>1, <4>2, Zenon
    <3>2. CASE k = 0
      <4>1. k # m + 1 /\ 0 \in 0..m
        BY <3>2
      <4>2. f[k] = g[0]
        BY <3>2, <4>1
      <4>3. g[0] = a
        BY <2>1, SumsValue
      <4>4. QED
        BY <3>2, <4>2, <4>3, Zenon
    <3>3. CASE k \in 1..m
      <4> DEFINE j == k - 1
      <4>1. /\ k # 0 /\ k # m + 1 /\ j \in 0..m /\ j \in 0..(m + 1) /\ j # m + 1
            /\ k = j + 1 /\ k \in 0..m
        BY <3>3
      <4>2. f[k] = g[k] /\ f[j] = g[j]
        BY <4>1
      <4> HIDE DEF j, f
      <4>3. g[j + 1] = g[j] + w[j + 1]
        <5>1. \A i \in 0..m : i + 1 \in 0..m => g[i + 1] = g[i] + w[i + 1]
          BY <2>1, SumsValue
        <5>2. j + 1 \in 0..m
          BY <4>1
        <5>3. QED
          BY <4>1, <5>1, <5>2, Zenon
      <4>4. f[k] = f[j] + w[k]
        BY <4>1, <4>2, <4>3, Zenon
      <4>5. QED
        BY <4>1, <4>4, Zenon DEF j
    <3>4. QED
      BY <3>1, <3>2, <3>3
  <2>3. Sums(f, a, w, m + 1)
    BY <2>2, Zenon DEF Sums
  <2> HIDE DEF f
  <2>4. QED
    BY <2>3
<1> HIDE DEF S
<1>3. Nat \subseteq S
  BY <1>1, <1>2, SetInduction
<1>4. QED
  BY <1>3 DEF S

\* it depends only on what has been summed up,
LEMMA SumsUnique ==
  ASSUME NEW a, NEW w, NEW v, NEW m \in Nat, \A i \in 1..m : w[i] = v[i],
         NEW f, Sums(f, a, w, m + 1), NEW g, Sums(g, a, v, m)
  PROVE  f[m] = g[m]
<1>5. \A k \in 0..(m + 1) : k + 1 \in 0..(m + 1) => f[k + 1] = f[k] + w[k + 1]
  BY SumsValue
<1>6. \A k \in 0..m : k + 1 \in 0..m => g[k + 1] = g[k] + v[k + 1]
  BY SumsValue
<1> DEFINE S == {n \in Nat : n <= m => f[n] = g[n]}
<1>1. 0 \in S
  <2>1. f[0] = a /\ g[0] = a
    BY SumsValue
  <2>2. QED
    BY <2>1
<1>2. ASSUME NEW n \in Nat, n \in S PROVE n + 1 \in S
  <2> SUFFICES ASSUME n + 1 <= m PROVE f[n + 1] = g[n + 1]
    OBVIOUS
  <2>1. /\ n \in 0..(m + 1) /\ n + 1 \in 0..(m + 1) /\ n \in 0..m /\ n + 1 \in 0..m
        /\ n + 1 \in 1..m /\ n <= m
    OBVIOUS
  <2>2. f[n] = g[n] /\ w[n + 1] = v[n + 1]
    BY <1>2, <2>1
  <2>3. f[n + 1] = f[n] + w[n + 1]
    BY <1>5, <2>1, Zenon
  <2>4. g[n + 1] = g[n] + v[n + 1]
    BY <1>6, <2>1, Zenon
  <2>5. QED
    BY <2>2, <2>3, <2>4, Zenon
<1> HIDE DEF S
<1>3. Nat \subseteq S
  BY <1>1, <1>2, SetInduction
<1>4. QED
  BY <1>3 DEF S

\* and it is a natural number.
LEMMA SumsType ==
  ASSUME NEW a \in Nat, NEW w, NEW m \in Nat, \A i \in 1..m : w[i] \in Nat,
         NEW f, Sums(f, a, w, m)
  PROVE  f[m] \in Nat
<1>5. \A k \in 0..m : k + 1 \in 0..m => f[k + 1] = f[k] + w[k + 1]
  BY SumsValue
<1> DEFINE S == {n \in Nat : n <= m => f[n] \in Nat}
<1>1. 0 \in S
  BY SumsValue
<1>2. ASSUME NEW n \in Nat, n \in S PROVE n + 1 \in S
  <2> SUFFICES ASSUME n + 1 <= m PROVE f[n + 1] \in Nat
    OBVIOUS
  <2>1. n \in 0..m /\ n + 1 \in 0..m /\ n + 1 \in 1..m /\ n <= m
    OBVIOUS
  <2>2. f[n] \in Nat /\ w[n + 1] \in Nat
    BY <1>2, <2>1
  <2>3. f[n + 1] = f[n] + w[n + 1]
    BY <1>5, <2>1, Zenon
  <2>4. QED
    BY <2>2, <2>3
<1> HIDE DEF S
<1>3. Nat \subseteq S
  BY <1>1, <1>2, SetInduction
<1>4. QED
  BY <1>3 DEF S

\* The values of f on a sequence, one by one.
Map(f, s) == [k \in 1..Len(s) |-> f[s[k]]]
Maps(f, T, U) == f \in [T -> U]

\* Mapping a sequence keeps its length and gives elements of the range.
LEMMA MapType ==
  ASSUME NEW T, NEW U, NEW f, Maps(f, T, U)
  PROVE  \A s \in Seq(T) : Map(f, s) \in Seq(U) /\ Len(Map(f, s)) = Len(s)
<1> TAKE s \in Seq(T)
<1>1. Len(s) \in Nat /\ \A k \in 1..Len(s) : s[k] \in T
  BY ElementOfSeq
<1>2. \A k \in 1..Len(s) : f[s[k]] \in U
  BY <1>1 DEF Maps
<1> DEFINE n == Len(s)
           m == Map(f, s)
<1>3. m = [k \in 1..n |-> f[s[k]]]
  BY DEF Map
<1>4. m \in [1..n -> U] /\ n \in Nat
  BY <1>1, <1>2, <1>3, Zenon
<1> HIDE DEF m, n
<1>5. m \in Seq(U) /\ Len(m) = n
  BY <1>4
<1>6. QED
  BY <1>5 DEF m, n

\* Nothing is mapped to nothing.
LEMMA MapNone == ASSUME NEW f PROVE Map(f, <<>>) = <<>>
<1>1. Len(<<>>) = 0 /\ \A k : k \notin 1..0
  OBVIOUS
<1> DEFINE m == Map(f, <<>>)
<1>2. m \in Seq({}) /\ Len(m) = 0
  <2>1. m \in [1..0 -> {}]
    BY <1>1 DEF Map
  <2>2. QED
    BY <2>1
<1> HIDE DEF m
<1>3. m = <<>>
  BY <1>2
<1>4. QED
  BY <1>3 DEF m

\* One element more is mapped to one more.
LEMMA MapAppend ==
  ASSUME NEW T, NEW U, NEW f, Maps(f, T, U)
  PROVE  \A s \in Seq(T), x \in T : Map(f, Append(s, x)) = Append(Map(f, s), f[x])
<1>0. \A s \in Seq(T) : Map(f, s) \in Seq(U) /\ Len(Map(f, s)) = Len(s)
  BY MapType
<1> TAKE s \in Seq(T), x \in T
<1> DEFINE all == Append(s, x)
           n == Len(s)
           e == Map(f, s)
           a == Map(f, all)
<1>1. /\ n \in Nat /\ all \in Seq(T) /\ Len(all) = n + 1 /\ all[n + 1] = x
      /\ \A i \in 1..n : all[i] = s[i]
  BY AppendProperties
<1>2. e \in Seq(U) /\ Len(e) = n /\ f[x] \in U
  <2>1. e \in Seq(U) /\ Len(e) = Len(s)
    BY <1>0, Zenon
  <2>2. QED
    BY <2>1 DEF Maps
<1>3. \A i \in 1..n : e[i] = f[s[i]]
  BY Zenon DEF Map
<1> HIDE DEF all
<1>4. a \in Seq(U) /\ Len(a) = n + 1
  <2>1. a \in Seq(U) /\ Len(a) = Len(all)
    BY <1>0, <1>1, Zenon
  <2>2. QED
    BY <1>1, <2>1
<1>5. \A i \in 1..(n + 1) : a[i] = f[all[i]]
  BY <1>1, Zenon DEF Map
<1> HIDE DEF n, e, a
<1>6. /\ Append(e, f[x]) \in Seq(U) /\ Len(Append(e, f[x])) = n + 1
      /\ \A i \in 1..n : Append(e, f[x])[i] = e[i]
      /\ Append(e, f[x])[n + 1] = f[x]
  BY <1>2, AppendProperties
<1>7. \A i \in 1..(n + 1) : a[i] = Append(e, f[x])[i]
  <2>1. \A i \in 1..(n + 1) : i \in 1..n \/ i = n + 1
    BY <1>1
  <2>2. QED
    BY <1>1, <1>3, <1>5, <1>6, <2>1, ZenonT(30)
<1>8. a = Append(e, f[x])
  BY <1>4, <1>6, <1>7, SeqEqual
<1>9. QED
  BY <1>8 DEF all, e, a

(***************************************************************************)
(* The lengths                                                             *)
(***************************************************************************)
\* The descriptors of a tree.
Descriptor ==
    {[t |-> "device"], [t |-> "hid"], [t |-> "ep"]}
      \cup {[t |-> "config", total |-> n] : n \in Nat}
      \cup {[t |-> "iface", eps |-> n] : n \in Nat}

\* The parser knows the size of every descriptor.
LEMMA DescriptorSize ==
  ASSUME NEW d \in Descriptor
  PROVE  d.t \in {"device", "config", "iface", "hid", "ep"} /\ Size[d.t] \in Nat
BY DEF Descriptor, Size

\* The sizes of the descriptors (bLength), by kind.
LEMMA DescriptorSizes ==
  /\ Size["device"] = 18 /\ Size["config"] = 9 /\ Size["iface"] = 9
  /\ Size["hid"] = 9 /\ Size["ep"] = 7
BY DEF Size

\* Their sizes, one by one.
SizesOf(raw) == [k \in 1..Len(raw) |-> Size[raw[k].t]]

\* The length of a text of descriptors is the sum of their sizes,
LEMMA LengthDef ==
  ASSUME NEW raw \in Seq(Descriptor)
  PROVE  /\ \E f : Sums(f, 0, SizesOf(raw), Len(raw)) /\ Length(raw) = f[Len(raw)]
         /\ Length(raw) \in Nat
<1> DEFINE n == Len(raw)
           Body(f) == f = [k \in 0..n |-> IF k = 0 THEN 0 ELSE f[k - 1] + Size[raw[k].t]]
<1>1. n \in Nat
  OBVIOUS
<1>2. \A k \in 0..n : k # 0 => SizesOf(raw)[k] = Size[raw[k].t]
  BY DEF SizesOf
<1>3. \A f : Body(f) <=> Sums(f, 0, SizesOf(raw), n)
  <2> SUFFICES ASSUME NEW f PROVE Body(f) <=> Sums(f, 0, SizesOf(raw), n)
    OBVIOUS
  <2> HIDE DEF n
  <2>1. \A k \in 0..n : (IF k = 0 THEN 0 ELSE f[k - 1] + Size[raw[k].t])
                          = (IF k = 0 THEN 0 ELSE f[k - 1] + SizesOf(raw)[k])
    BY <1>2, Zenon
  <2>2. [k \in 0..n |-> IF k = 0 THEN 0 ELSE f[k - 1] + Size[raw[k].t]]
          = [k \in 0..n |-> IF k = 0 THEN 0 ELSE f[k - 1] + SizesOf(raw)[k]]
    BY <2>1, Zenon
  <2>3. QED
    BY <2>2, Zenon DEF Sums
<1>4. \E f : Body(f)
  BY <1>1, <1>3, SumsExists, Zenon
<1> DEFINE g == CHOOSE f : Body(f)
<1>5. Body(g)
  BY <1>4, Zenon
<1>6. Length(raw) = g[n]
  BY DEF Length
<1> HIDE DEF Body, g
<1>7. Sums(g, 0, SizesOf(raw), n)
  BY <1>3, <1>5
<1>8. \A i \in 1..n : SizesOf(raw)[i] \in Nat
  BY DescriptorSize, ElementOfSeq DEF SizesOf
<1>9. g[n] \in Nat
  BY <1>1, <1>7, <1>8, SumsType, Zenon
<1>10. QED
  BY <1>6, <1>7, <1>9

\* so that nothing has no length,
LEMMA LengthNone == Length(<<>>) = 0
<1>1. <<>> \in Seq(Descriptor) /\ Len(<<>>) = 0
  OBVIOUS
<1>2. PICK f : Sums(f, 0, SizesOf(<<>>), 0) /\ Length(<<>>) = f[0]
  BY <1>1, LengthDef, Zenon
<1>3. QED
  BY <1>2, SumsValue

\* one descriptor more adds its size,
LEMMA LengthAppend ==
  ASSUME NEW raw \in Seq(Descriptor), NEW x \in Descriptor
  PROVE  Length(Append(raw, x)) = Length(raw) + Size[x.t]
<1> DEFINE r == Append(raw, x)
           n == Len(raw)
<1>1. /\ n \in Nat /\ r \in Seq(Descriptor) /\ Len(r) = n + 1 /\ r[n + 1] = x
      /\ \A i \in 1..n : r[i] = raw[i]
  BY AppendProperties
<1>2. PICK g : Sums(g, 0, SizesOf(raw), n) /\ Length(raw) = g[n]
  BY LengthDef
<1>3. PICK f : Sums(f, 0, SizesOf(r), n + 1) /\ Length(r) = f[n + 1]
  <2> HIDE DEF r, n
  <2>1. \E f : Sums(f, 0, SizesOf(r), Len(r)) /\ Length(r) = f[Len(r)]
    BY <1>1, LengthDef, Zenon
  <2>2. QED
    BY <1>1, <2>1, Zenon
<1>4. SizesOf(r)[n + 1] = Size[x.t] /\ \A i \in 1..n : SizesOf(r)[i] = SizesOf(raw)[i]
  <2> HIDE DEF r
  <2>1. \A i \in 1..n : i \in 1..Len(raw) /\ i \in 1..Len(r)
    BY <1>1
  <2>2. n + 1 \in 1..Len(r)
    BY <1>1
  <2>3. QED
    BY <1>1, <2>1, <2>2, Zenon DEF SizesOf
<1> HIDE DEF r, n
<1>5. f[n] = g[n]
  <2> DEFINE w == SizesOf(r)
             v == SizesOf(raw)
  <2>1. Sums(f, 0, w, n + 1) /\ Sums(g, 0, v, n) /\ \A i \in 1..n : w[i] = v[i]
    BY <1>2, <1>3, <1>4
  <2> HIDE DEF w, v
  <2>2. QED
    BY <1>1, <2>1, SumsUnique
<1>6. f[n + 1] = f[n] + SizesOf(r)[n + 1]
  <2>1. \A k \in 0..(n + 1) : k + 1 \in 0..(n + 1) => f[k + 1] = f[k] + SizesOf(r)[k + 1]
    BY <1>1, <1>3, SumsValue
  <2>2. n \in 0..(n + 1) /\ n + 1 \in 0..(n + 1)
    BY <1>1
  <2>3. QED
    BY <2>1, <2>2, Zenon
<1>7. QED
  BY <1>2, <1>3, <1>4, <1>5, <1>6, Zenon DEF r

\* and lengths add up.
LEMMA LengthConcat ==
  ASSUME NEW u \in Seq(Descriptor), NEW v \in Seq(Descriptor)
  PROVE  Length(u \o v) = Length(u) + Length(v)
<1> DEFINE S == {n \in Nat : \A w \in Seq(Descriptor) : Len(w) = n =>
                   Length(u \o w) = Length(u) + Length(w)}
<1>1. 0 \in S
  <2> SUFFICES ASSUME NEW w \in Seq(Descriptor), Len(w) = 0
               PROVE  Length(u \o w) = Length(u) + Length(w)
    OBVIOUS
  <2>1. w = <<>> /\ u \o <<>> = u /\ Length(u) \in Nat
    BY ConcatEmptySeq, LengthDef
  <2>2. Length(w) = 0 /\ Length(u \o w) = Length(u)
    BY <2>1, LengthNone, Zenon
  <2>3. QED
    BY <2>1, <2>2
<1>2. ASSUME NEW n \in Nat, n \in S PROVE n + 1 \in S
  <2> SUFFICES ASSUME NEW w \in Seq(Descriptor), Len(w) = n + 1
               PROVE  Length(u \o w) = Length(u) + Length(w)
    OBVIOUS
  <2>1. PICK r \in Seq(Descriptor), x \in Descriptor : w = Append(r, x) /\ Len(w) = Len(r) + 1
    <3>1. w # <<>>
      OBVIOUS
    <3>2. QED
      BY <3>1, FrontAndLast, Zenon
  <2>2. Len(r) = n
    BY <2>1
  <2>3. Length(u \o r) = Length(u) + Length(r)
    BY <1>2, <2>2
  <2>4. u \o w = Append(u \o r, x) /\ u \o r \in Seq(Descriptor)
    BY <2>1
  <2>5. Length(u \o w) = Length(u \o r) + Size[x.t]
    BY <2>4, LengthAppend, Zenon
  <2>6. Length(w) = Length(r) + Size[x.t]
    BY <2>1, LengthAppend, Zenon
  <2>7. Length(u) \in Nat /\ Length(r) \in Nat /\ Size[x.t] \in Nat
    BY LengthDef, DescriptorSize
  <2>8. QED
    BY <2>3, <2>5, <2>6, <2>7
<1> HIDE DEF S
<1>3. Nat \subseteq S
  BY <1>1, <1>2, SetInduction
<1>4. Len(v) \in S
  BY <1>3
<1>5. QED
  BY <1>4 DEF S

\* Of a configuration: what its interfaces add to its header.
BytesOf(ifaces) == [k \in 1..Len(ifaces) |-> Bytes(ifaces[k])]

\* The bytes of an interface are a number.
LEMMA BytesType == ASSUME NEW i \in Interface PROVE Bytes(i) \in Nat
<1>1. i.hid \in BOOLEAN /\ i.eps \in Nat /\ i.omitted \in Nat
  BY TreeAssumption DEF Interface
<1>2. QED
  BY <1>1 DEF Bytes, Size

\* wTotalLength is the sum of the header and the bytes of the interfaces,
LEMMA TotalDef ==
  ASSUME NEW ifaces \in Seq(Interface)
  PROVE  /\ \E f : Sums(f, 9, BytesOf(ifaces), Len(ifaces)) /\ Total(ifaces) = f[Len(ifaces)]
         /\ Total(ifaces) \in Nat
<1> DEFINE n == Len(ifaces)
           Body(f) == f = [k \in 0..n |-> IF k = 0 THEN 9 ELSE f[k - 1] + Bytes(ifaces[k])]
<1>1. n \in Nat
  OBVIOUS
<1>2. \A k \in 0..n : k # 0 => BytesOf(ifaces)[k] = Bytes(ifaces[k])
  BY DEF BytesOf
<1>3. \A f : Body(f) <=> Sums(f, 9, BytesOf(ifaces), n)
  <2> SUFFICES ASSUME NEW f PROVE Body(f) <=> Sums(f, 9, BytesOf(ifaces), n)
    OBVIOUS
  <2> HIDE DEF n
  <2>1. \A k \in 0..n : (IF k = 0 THEN 9 ELSE f[k - 1] + Bytes(ifaces[k]))
                          = (IF k = 0 THEN 9 ELSE f[k - 1] + BytesOf(ifaces)[k])
    BY <1>2, Zenon
  <2>2. [k \in 0..n |-> IF k = 0 THEN 9 ELSE f[k - 1] + Bytes(ifaces[k])]
          = [k \in 0..n |-> IF k = 0 THEN 9 ELSE f[k - 1] + BytesOf(ifaces)[k]]
    BY <2>1, Zenon
  <2>3. QED
    BY <2>2, Zenon DEF Sums
<1>4. \E f : Body(f)
  BY <1>1, <1>3, SumsExists, Zenon
<1> DEFINE g == CHOOSE f : Body(f)
<1>5. Body(g)
  BY <1>4, ZenonT(30)
<1>6. Total(ifaces) = g[n]
  BY DEF Total, Size
<1> HIDE DEF Body, g
<1>7. Sums(g, 9, BytesOf(ifaces), n)
  BY <1>3, <1>5
<1>8. \A i \in 1..n : BytesOf(ifaces)[i] \in Nat
  BY BytesType, ElementOfSeq DEF BytesOf
<1>9. g[n] \in Nat
  BY <1>1, <1>7, <1>8, SumsType, Zenon
<1>10. QED
  BY <1>6, <1>7, <1>9

\* so that it is the header alone where there is none,
LEMMA TotalNone == Total(<<>>) = 9
<1>1. <<>> \in Seq(Interface) /\ Len(<<>>) = 0
  OBVIOUS
<1>2. PICK f : Sums(f, 9, BytesOf(<<>>), 0) /\ Total(<<>>) = f[0]
  BY <1>1, TotalDef, Zenon
<1>3. QED
  BY <1>2, SumsValue

\* and one interface more adds its bytes.
LEMMA TotalAppend ==
  ASSUME NEW ifaces \in Seq(Interface), NEW x \in Interface
  PROVE  Total(Append(ifaces, x)) = Total(ifaces) + Bytes(x)
<1> DEFINE r == Append(ifaces, x)
           n == Len(ifaces)
<1>1. /\ n \in Nat /\ r \in Seq(Interface) /\ Len(r) = n + 1 /\ r[n + 1] = x
      /\ \A i \in 1..n : r[i] = ifaces[i]
  BY AppendProperties
<1>2. PICK g : Sums(g, 9, BytesOf(ifaces), n) /\ Total(ifaces) = g[n]
  BY TotalDef
<1>3. PICK f : Sums(f, 9, BytesOf(r), n + 1) /\ Total(r) = f[n + 1]
  <2> HIDE DEF r, n
  <2>1. \E f : Sums(f, 9, BytesOf(r), Len(r)) /\ Total(r) = f[Len(r)]
    BY <1>1, TotalDef, Zenon
  <2>2. QED
    BY <1>1, <2>1, Zenon
<1>4. BytesOf(r)[n + 1] = Bytes(x) /\ \A i \in 1..n : BytesOf(r)[i] = BytesOf(ifaces)[i]
  <2> HIDE DEF r
  <2>1. \A i \in 1..n : i \in 1..Len(ifaces) /\ i \in 1..Len(r)
    BY <1>1
  <2>2. n + 1 \in 1..Len(r)
    BY <1>1
  <2>3. QED
    BY <1>1, <2>1, <2>2, Zenon DEF BytesOf
<1> HIDE DEF r, n
<1>5. f[n] = g[n]
  <2> DEFINE w == BytesOf(r)
             v == BytesOf(ifaces)
             a == 9
  <2>1. Sums(f, a, w, n + 1) /\ Sums(g, a, v, n) /\ \A i \in 1..n : w[i] = v[i]
    BY <1>2, <1>3, <1>4
  <2> HIDE DEF w, v, a
  <2>2. n \in Nat
    BY <1>1, Zenon
  <2>3. QED
    BY ONLY <2>1, <2>2, SumsUnique, SMTT(30)
<1>6. f[n + 1] = f[n] + BytesOf(r)[n + 1]
  <2>1. \A k \in 0..(n + 1) : k + 1 \in 0..(n + 1) => f[k + 1] = f[k] + BytesOf(r)[k + 1]
    BY <1>1, <1>3, SumsValue
  <2>2. n \in 0..(n + 1) /\ n + 1 \in 0..(n + 1)
    BY <1>1
  <2>3. QED
    BY <2>1, <2>2, Zenon
<1>7. QED
  BY <1>2, <1>3, <1>4, <1>5, <1>6, Zenon DEF r

(***************************************************************************)
(* What the parser has after each descriptor                               *)
(***************************************************************************)
\* The parser after the device descriptor, and its step.
AtStart == [st |-> "top", subs |-> 0, left |-> 0, configs |-> <<>>]

Step(p, d, len) == ParseDescriptor(Leave(p, d), d, len)

\* f is the parser after each of the first n descriptors: for n = Len(raw), the
\* recursive function of Parse.
Reads(f, raw, len, n) ==
    f = [k \in 1..n |-> IF k = 1 THEN AtStart ELSE Step(f[k - 1], raw[k], len)]

\* The parser has p after these descriptors.
After(raw, len, p) == \E f : Reads(f, raw, len, Len(raw)) /\ f[Len(raw)] = p

\* The parser starts after the device descriptor and takes each further one by a step.
LEMMA ReadsValue ==
  ASSUME NEW f, NEW raw, NEW len, NEW n \in Nat, Reads(f, raw, len, n)
  PROVE  /\ n # 0 => f[1] = AtStart
         /\ \A k \in 1..n : k + 1 \in 1..n => f[k + 1] = Step(f[k], raw[k + 1], len)
<1>1. \A k \in 1..n : f[k] = IF k = 1 THEN AtStart ELSE Step(f[k - 1], raw[k], len)
  BY Zenon DEF Reads
<1>2. n # 0 => f[1] = AtStart
  <2>1. n # 0 => 1 \in 1..n
    OBVIOUS
  <2>2. QED
    BY <1>1, <2>1, Zenon
<1>3. ASSUME NEW k \in 1..n, k + 1 \in 1..n
      PROVE  f[k + 1] = Step(f[k], raw[k + 1], len)
  <2> DEFINE j == k + 1
  <2>1. j \in 1..n /\ j # 1 /\ j - 1 = k
    BY <1>3
  <2> HIDE DEF j
  <2>2. f[j] = Step(f[k], raw[j], len)
    BY <1>1, <2>1, Zenon
  <2>3. QED
    BY <2>2 DEF j
<1>4. QED
  BY <1>2, <1>3, Zenon

\* The first descriptor, of the device, is passed over.
LEMMA AfterFirst == ASSUME NEW x, NEW len PROVE After(<<x>>, len, AtStart)
<1> DEFINE f == [k \in 1..1 |-> AtStart]
<1>1. Len(<<x>>) = 1 /\ f[1] = AtStart /\ \A k \in 1..1 : k = 1
  OBVIOUS
<1>2. Reads(f, <<x>>, len, 1)
  BY <1>1, Zenon DEF Reads
<1> HIDE DEF f
<1>3. QED
  BY <1>1, <1>2, Zenon DEF After

\* One more is a step.
LEMMA AfterAppend ==
  ASSUME NEW T, NEW raw \in Seq(T), NEW x \in T, NEW len, NEW p, raw # <<>>,
         After(raw, len, p)
  PROVE  After(Append(raw, x), len, Step(p, x, len))
<1> DEFINE r == Append(raw, x)
           n == Len(raw)
<1>1. /\ n \in Nat /\ n # 0 /\ Len(r) = n + 1 /\ r[n + 1] = x
      /\ \A i \in 1..n : r[i] = raw[i]
  BY AppendProperties
<1>2. PICK g : Reads(g, raw, len, n) /\ g[n] = p
  BY DEF After
<1> HIDE DEF r, n
<1> DEFINE y == Step(p, x, len)
           f == [k \in 1..(n + 1) |-> IF k = n + 1 THEN y ELSE g[k]]
<1>3. f[n + 1] = y /\ \A k \in 1..n : f[k] = g[k]
  BY <1>1
<1>4. \A k \in 1..(n + 1) : f[k] = IF k = 1 THEN AtStart ELSE Step(f[k - 1], r[k], len)
  <2> SUFFICES ASSUME NEW k \in 1..(n + 1)
               PROVE  f[k] = IF k = 1 THEN AtStart ELSE Step(f[k - 1], r[k], len)
    OBVIOUS
  <2> HIDE DEF f, y
  <2>1. CASE k = n + 1
    <3>1. k # 1 /\ k - 1 = n /\ n \in 1..n
      BY <1>1, <2>1
    <3>2. f[k] = y /\ f[k - 1] = p /\ r[k] = x
      BY <1>1, <1>2, <1>3, <2>1, <3>1, Zenon
    <3>3. QED
      BY <3>1, <3>2, Zenon DEF y
  <2>2. CASE k = 1
    <3>1. k \in 1..n
      BY <1>1, <2>2
    <3>2. f[k] = g[1] /\ g[1] = AtStart
      BY <1>1, <1>2, <1>3, <2>2, <3>1, ReadsValue
    <3>3. QED
      BY <2>2, <3>2, Zenon
  <2>3. CASE k \in 2..n
    <3> DEFINE j == k - 1
    <3>1. k # 1 /\ k = j + 1 /\ j \in 1..n /\ j + 1 \in 1..n /\ k \in 1..n
      BY <1>1, <2>3
    <3> HIDE DEF j
    <3>2. \A i \in 1..n : i + 1 \in 1..n => g[i + 1] = Step(g[i], raw[i + 1], len)
      BY <1>1, <1>2, ReadsValue
    <3>3. g[k] = Step(g[j], raw[k], len)
      BY <3>1, <3>2, Zenon
    <3>4. f[k] = g[k] /\ f[j] = g[j] /\ r[k] = raw[k]
      BY <1>1, <1>3, <3>1, Zenon
    <3>5. f[k] = Step(f[j], r[k], len)
      BY <3>3, <3>4, Zenon
    <3>6. QED
      BY <3>1, <3>5, Zenon DEF j
  <2>4. QED
    BY <1>1, <2>1, <2>2, <2>3
<1>5. Reads(f, r, len, n + 1)
  BY <1>4, Zenon DEF Reads
<1> HIDE DEF f, y
<1>6. After(r, len, y)
  BY <1>1, <1>3, <1>5, Zenon DEF After
<1>7. QED
  BY <1>6, Zenon DEF r, y

\* What the parser has is what Parse gives.
LEMMA ParseIsAfter ==
  ASSUME NEW raw, Len(raw) \in Nat \ {0}, NEW p, After(raw, Length(raw), p)
  PROVE  Parse(raw) = p
<1> DEFINE n == Len(raw)
           len == Length(raw)
           g == CHOOSE f : Reads(f, raw, len, n)
<1>1. PICK f : Reads(f, raw, len, n) /\ f[n] = p
  BY DEF After
<1>2. Reads(g, raw, len, n)
  BY <1>1
<1>3. Parse(raw) = g[n]
  BY DEF Parse, Reads, AtStart, Step
<1>4. n \in Nat /\ n # 0
  OBVIOUS
<1> HIDE DEF n, len, g
<1>5. /\ f[1] = AtStart /\ g[1] = AtStart
      /\ \A k \in 1..n : k + 1 \in 1..n => f[k + 1] = Step(f[k], raw[k + 1], len)
  BY <1>1, <1>2, <1>4, ReadsValue
<1>6. \A k \in 1..n : k + 1 \in 1..n => g[k + 1] = Step(g[k], raw[k + 1], len)
  BY <1>2, <1>4, ReadsValue
<1> DEFINE S == {m \in Nat : m + 1 <= n => f[m + 1] = g[m + 1]}
<1>7. 0 \in S
  <2>1. 0 + 1 = 1
    OBVIOUS
  <2>2. QED
    BY <1>5, <2>1
<1>8. ASSUME NEW m \in Nat, m \in S PROVE m + 1 \in S
  <2> SUFFICES ASSUME m + 1 + 1 <= n PROVE f[m + 1 + 1] = g[m + 1 + 1]
    OBVIOUS
  <2>1. m + 1 \in 1..n /\ m + 1 + 1 \in 1..n /\ m + 1 <= n
    BY <1>4
  <2>2. f[m + 1] = g[m + 1]
    BY <1>8, <2>1
  <2>3. f[m + 1 + 1] = Step(f[m + 1], raw[m + 1 + 1], len)
    BY <1>5, <2>1, Zenon
  <2>4. g[m + 1 + 1] = Step(g[m + 1], raw[m + 1 + 1], len)
    BY <1>6, <2>1, Zenon
  <2>5. QED
    BY <2>2, <2>3, <2>4, Zenon
<1> HIDE DEF S
<1>9. Nat \subseteq S
  BY <1>7, <1>8, SetInduction
<1>10. n - 1 \in S /\ n - 1 + 1 = n
  BY <1>4, <1>9
<1>11. f[n] = g[n]
  BY <1>4, <1>10 DEF S
<1>12. QED
  BY <1>1, <1>3, <1>11

(***************************************************************************)
(* The steps over a tree that leaves nothing out                           *)
(***************************************************************************)
\* What is parsed of an interface, and a state of the parser.
SeenInterface == [hid : BOOLEAN, eps : Nat]
Parser(st, subs, left, configs) ==
    [st |-> st, subs |-> subs, left |-> left, configs |-> configs]

\* What was appended is the last, and what replaces it comes in its place.
LEMMA LastOfAppend ==
  ASSUME NEW T, NEW s \in Seq(T), NEW x \in T, NEW y \in T
  PROVE  Last(Append(s, x)) = x /\ InLast(Append(s, x), y) = Append(s, y)
<1>1. Last(Append(s, x)) = x
  BY DEF Last
<1>2. InLast(Append(s, x), y) = Append(s, y)
  <2> DEFINE a == Append(s, x)
             b == Append(s, y)
             n == Len(s)
  <2>1. /\ a \in Seq(T) /\ Len(a) = n + 1 /\ n \in Nat
        /\ \A i \in 1..n : a[i] = s[i]
    BY AppendProperties
  <2>2. /\ b \in Seq(T) /\ Len(b) = n + 1 /\ b[n + 1] = y
        /\ \A i \in 1..n : b[i] = s[i]
    BY AppendProperties
  <2> HIDE DEF a, b, n
  <2> DEFINE e == [a EXCEPT ![n + 1] = y]
  <2>3. n + 1 \in 1..Len(a)
    BY <2>1
  <2>4. /\ e \in Seq(T) /\ Len(e) = n + 1
        /\ \A i \in 1..Len(a) : e[i] = IF i = n + 1 THEN y ELSE a[i]
    BY <2>1, <2>3, ExceptSeq
  <2> HIDE DEF e
  <2>5. \A i \in 1..Len(e) : e[i] = b[i]
    <3>1. \A i \in 1..Len(e) : i \in 1..Len(a) /\ (i = n + 1 \/ (i # n + 1 /\ i \in 1..n))
      BY <2>1, <2>4
    <3>2. QED
      BY <2>1, <2>2, <2>4, <3>1, Zenon
  <2>6. e = b
    BY <2>2, <2>4, <2>5, SeqEqual
  <2>7. QED
    BY <2>1, <2>6, Zenon DEF InLast, a, b, e
<1>3. QED
  BY <1>1, <1>2

\* Out of the configuration before it, if its bytes are used up.
LEMMA StepConfig ==
  ASSUME NEW st \in {"top", "config", "sub"}, NEW subs \in Nat, NEW configs,
         NEW n \in Nat, NEW len \in Nat, n <= len
  PROVE  Step(Parser(st, subs, 0, configs), [t |-> "config", total |-> n], len)
           = Parser("config", 0, n - 9, Append(configs, <<>>))
<1> DEFINE d == [t |-> "config", total |-> n]
<1>1. d.t = "config" /\ d.total = n
  OBVIOUS
<1>2. Leave(Parser(st, subs, 0, configs), d) = Parser("top", subs, 0, configs)
  BY <1>1 DEF Leave, Parser, Size
<1>3. (IF d.total < len THEN d.total ELSE len) = n
  BY <1>1
<1> HIDE DEF d
<1> DEFINE p == Parser("top", subs, 0, configs)
<1>4. p.st = "top" /\ p.configs = configs
  BY DEF Parser
<1> HIDE DEF p
<1>5. ParseDescriptor(p, d, len) =
        [st |-> "config", subs |-> 0,
         left |-> (IF d.total < len THEN d.total ELSE len) - Size.config,
         configs |-> Append(p.configs, <<>>)]
  BY <1>1, <1>4 DEF ParseDescriptor
<1>6. Size.config = 9
  BY DEF Size
<1>7. QED
  BY <1>2, <1>3, <1>4, <1>5, <1>6, Zenon DEF Step, Parser, p, d

\* Out of the interface before it, into this one.
LEMMA StepIface ==
  ASSUME NEW st \in {"config", "sub"}, NEW subs \in Nat, NEW left \in Nat, left >= 9,
         NEW configs \in Seq(Seq(SeenInterface)), NEW ifaces \in Seq(SeenInterface),
         NEW e \in Nat, NEW len
  PROVE  Step(Parser(st, subs, left, Append(configs, ifaces)), [t |-> "iface", eps |-> e], len)
           = Parser("sub", e + 1, left - 9,
                    Append(configs, Append(ifaces, [hid |-> FALSE, eps |-> 0])))
<1> DEFINE d == [t |-> "iface", eps |-> e]
           c == Append(configs, ifaces)
           i == [hid |-> FALSE, eps |-> 0]
<1>1. d.t = "iface" /\ d.eps = e
  OBVIOUS
<1>2. Leave(Parser(st, subs, left, c), d) = Parser("config", subs, left, c)
  <2> HIDE DEF c
  <2>1. QED
    BY <1>1, SMTT(30) DEF Leave, Parser, Size
<1> HIDE DEF d
<1> DEFINE p == Parser("config", subs, left, c)
<1>3. p.st = "config" /\ p.left = left /\ p.configs = c
  BY DEF Parser
<1> HIDE DEF p, c
<1>4. ParseDescriptor(p, d, len) =
        [st |-> "sub", subs |-> Rounds(d), left |-> p.left - Size.iface,
         configs |-> InLast(p.configs,
                            Append(Last(p.configs), [hid |-> FALSE, eps |-> 0]))]
  BY <1>1, <1>3 DEF ParseDescriptor
<1>5. Size.iface = 9 /\ Rounds(d) = e + 1
  BY <1>1 DEF Size, Rounds
<1>6. i \in SeenInterface
  BY DEF SeenInterface
<1> DEFINE a == Append(ifaces, i)
<1>7. a \in Seq(SeenInterface)
  BY <1>6, AppendProperties
<1> HIDE DEF i, a
<1>8. Last(c) = ifaces
  BY <1>7, LastOfAppend DEF c
<1>9. InLast(c, a) = Append(configs, a)
  BY <1>7, LastOfAppend, ZenonT(30) DEF c
<1>10. QED
  BY <1>2, <1>3, <1>4, <1>5, <1>8, <1>9, Zenon DEF Step, Parser, p, d, c, i, a

\* In an interface, with bytes and a round left.
SubState(subs, left, configs, ifaces, i) ==
    /\ subs \in Nat /\ subs # 0 /\ left \in Nat /\ left >= 2
    /\ configs \in Seq(Seq(SeenInterface)) /\ ifaces \in Seq(SeenInterface)
    /\ i \in SeenInterface

\* The parser there, and what a HID or an endpoint descriptor makes of the interface.
InSub(subs, left, configs, ifaces, i) ==
    Parser("sub", subs, left, Append(configs, Append(ifaces, i)))
WithHid(i) == [hid |-> TRUE, eps |-> i.eps]
WithEp(i) == [hid |-> i.hid, eps |-> i.eps + 1]

\* A HID descriptor or an endpoint belongs to the interface.
LEMMA StepSub ==
  ASSUME NEW subs, NEW left, NEW configs, NEW ifaces, NEW i, NEW len,
         SubState(subs, left, configs, ifaces, i)
  PROVE  /\ Step(InSub(subs, left, configs, ifaces, i), HidDescriptor, len)
              = InSub(subs - 1, left - 9, configs, ifaces, WithHid(i))
         /\ Step(InSub(subs, left, configs, ifaces, i), EndpointDescriptor, len)
              = InSub(subs - 1, left - 7, configs, ifaces, WithEp(i))
         /\ WithHid(i) \in SeenInterface /\ WithEp(i) \in SeenInterface
<1> DEFINE a == Append(ifaces, i)
           c == Append(configs, a)
           p == Parser("sub", subs, left, c)
           More(d) == IF d.t = "hid" THEN [i EXCEPT !.hid = TRUE]
                                     ELSE [i EXCEPT !.eps = @ + 1]
<1>0. /\ subs \in Nat /\ subs # 0 /\ left \in Nat /\ left >= 2
      /\ configs \in Seq(Seq(SeenInterface)) /\ ifaces \in Seq(SeenInterface)
      /\ i \in SeenInterface
  BY DEF SubState
<1>1. a \in Seq(SeenInterface)
  BY <1>0, AppendProperties
<1>2. Last(a) = i /\ \A y \in SeenInterface : InLast(a, y) = Append(ifaces, y)
  BY <1>0, LastOfAppend
<1> HIDE DEF a
<1>3. Last(c) = a /\ \A b \in Seq(SeenInterface) : InLast(c, b) = Append(configs, b)
  BY <1>0, <1>1, LastOfAppend
<1> HIDE DEF c
<1>4. p.st = "sub" /\ p.subs = subs /\ p.left = left /\ p.configs = c
  BY DEF Parser
<1>5. ASSUME NEW d, d.t \in {"ep", "hid"} PROVE Leave(p, d) = p
  <2>1. Leave(p, d) = [p EXCEPT !.st = "sub"]
    <3> HIDE DEF p
    <3>1. p.st = "sub" /\ ~(p.subs = 0 \/ p.left < 2 \/ d.t \notin {"ep", "hid"})
      BY <1>0, <1>4, <1>5
    <3>2. "sub" # "config"
      OBVIOUS
    <3>3. QED
      BY <3>1, <3>2, Zenon DEF Leave
  <2>2. QED
    BY <2>1 DEF Parser
<1>6. ASSUME NEW d, d.t \in {"ep", "hid"}, More(d) \in SeenInterface
      PROVE  ParseDescriptor(p, d, len) =
               Parser("sub", subs - 1, left - Size[d.t], Append(configs, Append(ifaces, More(d))))
  <2>1. Last(p.configs) = a /\ Last(Last(p.configs)) = i
    BY <1>2, <1>3, <1>4
  <2>2. ParseDescriptor(p, d, len) =
          [p EXCEPT !.subs = @ - 1, !.left = @ - Size[d.t],
                    !.configs = InLast(@, InLast(a, More(d)))]
    <3> HIDE DEF p
    <3>1. QED
      BY <1>4, <1>6, <2>1 DEF ParseDescriptor
  <2> DEFINE m == More(d)
  <2>3. InLast(a, m) = Append(ifaces, m) /\ Append(ifaces, m) \in Seq(SeenInterface)
    BY <1>0, <1>2, <1>6, AppendProperties, Zenon
  <2>4. InLast(c, InLast(a, m)) = Append(configs, Append(ifaces, m))
    BY <1>3, <2>3, Zenon
  <2> HIDE DEF m
  <2>5. ParseDescriptor(p, d, len) =
          Parser("sub", subs - 1, left - Size[d.t], InLast(c, InLast(a, m)))
    BY <2>2, Zenon DEF Parser, m
  <2>6. QED
    BY <2>4, <2>5, Zenon DEF m
<1>7. i.hid \in BOOLEAN /\ i.eps \in Nat /\ i = [hid |-> i.hid, eps |-> i.eps]
  BY <1>0 DEF SeenInterface
<1> DEFINE h == [t |-> "hid"]
           e == [t |-> "ep"]
<1>8. h.t = "hid" /\ e.t = "ep"
  OBVIOUS
<1>9. More(h) = WithHid(i) /\ More(e) = WithEp(i)
  BY <1>7, Zenon DEF WithHid, WithEp
<1> HIDE DEF p, h, e, More
<1>10. More(h) \in SeenInterface /\ More(e) \in SeenInterface
  <2>1. /\ [hid |-> TRUE, eps |-> i.eps] \in SeenInterface
        /\ [hid |-> i.hid, eps |-> i.eps + 1] \in SeenInterface
    BY <1>7 DEF SeenInterface
  <2>2. QED
    BY <1>9, <2>1 DEF WithHid, WithEp
<1>11. Leave(p, h) = p /\ Leave(p, e) = p
  BY <1>5, <1>8
<1>12. /\ ParseDescriptor(p, h, len) =
            Parser("sub", subs - 1, left - Size[h.t], Append(configs, Append(ifaces, More(h))))
       /\ ParseDescriptor(p, e, len) =
            Parser("sub", subs - 1, left - Size[e.t], Append(configs, Append(ifaces, More(e))))
  BY <1>6, <1>8, <1>10
<1>13. Size[h.t] = 9 /\ Size[e.t] = 7
  BY <1>8, DescriptorSizes
<1>14. QED
  <2>1. p = InSub(subs, left, configs, ifaces, i) /\ h = HidDescriptor /\ e = EndpointDescriptor
    BY DEF InSub, HidDescriptor, EndpointDescriptor, p, c, a, h, e
  <2>2. QED
    BY <1>9, <1>10, <1>11, <1>12, <1>13, <2>1, Zenon DEF Step, InSub

(***************************************************************************)
(* An interface, a configuration and a device                              *)
(***************************************************************************)
\* The descriptors of n endpoints.
Eps(n) == [k \in 1..n |-> EndpointDescriptor]

\* One endpoint more is one descriptor more.
LEMMA EpsNext ==
  ASSUME NEW n \in Nat
  PROVE  /\ Eps(n) \in Seq(Descriptor) /\ Eps(0) = <<>>
         /\ Eps(n + 1) = Append(Eps(n), EndpointDescriptor) /\ EndpointDescriptor \in Descriptor
<1> DEFINE x == EndpointDescriptor
<1>1. x \in Descriptor
  BY DEF Descriptor, EndpointDescriptor
<1> HIDE DEF x
<1>2. Eps(n) = [k \in 1..n |-> x] /\ Eps(n + 1) = [k \in 1..(n + 1) |-> x]
  BY DEF Eps, x
<1>3. Eps(n) \in Seq(Descriptor) /\ Eps(n + 1) = Append(Eps(n), x)
  BY <1>1, <1>2
<1>4. Eps(0) = <<>>
  BY DEF Eps
<1>5. QED
  BY <1>1, <1>3, <1>4 DEF x

\* Facts on the concatenation of descriptors.
LEMMA MoreType == \A u, v \in Seq(Descriptor) : u \o v \in Seq(Descriptor)
BY ConcatProperties

\* What follows a text may be appended to the whole of it,
LEMMA MoreAppend ==
  \A u, v \in Seq(Descriptor), x \in Descriptor : Append(u \o v, x) = u \o Append(v, x)
OBVIOUS

\* texts may be put together from either end,
LEMMA MoreMore == \A u, v, w \in Seq(Descriptor) : (u \o v) \o w = u \o (v \o w)
BY SMTT(30)

\* and a text that something follows is not empty.
LEMMA MoreIsSome == \A u, v \in Seq(Descriptor) : u # <<>> => u \o v # <<>>
BY ConcatEqualIffEmpty

\* After the descriptors of n endpoints the interface has n of them, and their bytes and
\* rounds are used up.
LEMMA AfterEps ==
  ASSUME NEW raw \in Seq(Descriptor), raw # <<>>, NEW len,
         NEW subs \in Nat, NEW left \in Nat, NEW n \in Nat, subs >= n, left >= 7 * n,
         NEW configs \in Seq(Seq(SeenInterface)), NEW ifaces \in Seq(SeenInterface),
         NEW h \in BOOLEAN,
         After(raw, len, InSub(subs, left, configs, ifaces, [hid |-> h, eps |-> 0]))
  PROVE  After(raw \o Eps(n), len,
               InSub(subs - n, left - 7 * n, configs, ifaces, [hid |-> h, eps |-> n]))
<1> DEFINE I(m) == [hid |-> h, eps |-> m]
           P(m) == InSub(subs - m, left - 7 * m, configs, ifaces, I(m))
           S == {m \in Nat : m <= n => After(raw \o Eps(m), len, P(m))}
<1>0. /\ \A m \in Nat : I(m) \in SeenInterface /\ WithEp(I(m)) = I(m + 1)
  BY DEF SeenInterface, WithEp
<1>1. 0 \in S
  <2>1. raw \o Eps(0) = raw
    BY EpsNext, ConcatEmptySeq, Zenon
  <2>2. subs - 0 = subs /\ left - 7 * 0 = left
    OBVIOUS
  <2>3. P(0) = InSub(subs, left, configs, ifaces, [hid |-> h, eps |-> 0])
    BY <2>2, Zenon
  <2>4. After(raw \o Eps(0), len, P(0))
    BY <2>1, <2>3, Zenon
  <2> HIDE DEF P
  <2>5. QED
    BY <2>4
<1> HIDE DEF I
<1>2. ASSUME NEW m \in Nat, m \in S PROVE m + 1 \in S
  <2> SUFFICES ASSUME m + 1 <= n PROVE After(raw \o Eps(m + 1), len, P(m + 1))
    BY DEF S
  <2> DEFINE x == EndpointDescriptor
             r == raw \o Eps(m)
             s == subs - m
             l == left - 7 * m
  <2>1. After(r, len, P(m))
    <3>1. m <= n
      OBVIOUS
    <3> HIDE DEF P
    <3>2. QED
      BY <1>2, <3>1
  <2>2. /\ Eps(m) \in Seq(Descriptor) /\ Eps(m + 1) = Append(Eps(m), x)
        /\ x \in Descriptor
    BY EpsNext, Zenon
  <2>3. r \in Seq(Descriptor) /\ r # <<>>
    BY <2>2, MoreType, MoreIsSome, Zenon
  <2> HIDE DEF x
  <2>4. Append(r, x) = raw \o Eps(m + 1)
    <3> DEFINE u == Eps(m)
    <3>1. u \in Seq(Descriptor)
      BY <2>2
    <3> HIDE DEF u
    <3>2. Append(raw \o u, x) = raw \o Append(u, x)
      BY <2>2, <3>1, MoreAppend, Zenon
    <3>3. QED
      BY <2>2, <3>2, Zenon DEF u
  <2>5. /\ s \in Nat /\ s # 0 /\ l \in Nat /\ l >= 2
        /\ subs - (m + 1) = s - 1 /\ left - 7 * (m + 1) = l - 7
    OBVIOUS
  <2> HIDE DEF r, s, l
  <2>6. SubState(s, l, configs, ifaces, I(m))
    BY <1>0, <2>5 DEF SubState
  <2>7. Step(InSub(s, l, configs, ifaces, I(m)), x, len)
          = InSub(s - 1, l - 7, configs, ifaces, WithEp(I(m)))
    BY <2>6, StepSub DEF x
  <2>8. P(m) = InSub(s, l, configs, ifaces, I(m))
    BY DEF s, l
  <2>9. P(m + 1) = InSub(s - 1, l - 7, configs, ifaces, WithEp(I(m)))
    BY <1>0, <2>5, Zenon
  <2>10. After(Append(r, x), len, Step(P(m), x, len))
    BY <2>1, <2>2, <2>3, AfterAppend, Zenon
  <2>11. QED
    BY <2>4, <2>7, <2>8, <2>9, <2>10, Zenon
<1> HIDE DEF S
<1>3. Nat \subseteq S
  BY <1>1, <1>2, SetInduction, Zenon
<1>4. n \in S /\ n <= n
  BY <1>3
<1>5. After(raw \o Eps(n), len, P(n))
  <2> HIDE DEF P
  <2>1. QED
    BY <1>4 DEF S
<1>6. QED
  BY <1>5 DEF I

\* Between two interfaces of a configuration of which left bytes are to come.
InConfig(p, left, configs, ifaces) ==
    /\ left \in Nat /\ configs \in Seq(Seq(SeenInterface)) /\ ifaces \in Seq(SeenInterface)
    /\ \E st \in {"config", "sub"}, subs \in Nat :
         p = Parser(st, subs, left, Append(configs, ifaces))

\* The descriptor of an interface with e endpoints.

\* The tree of an interface: its descriptor, the HID one if there is one, and endpoints.
LEMMA InterfaceTreeIs ==
  ASSUME NEW i \in Interface, NEW raw \in Seq(Descriptor)
  PROVE  /\ InterfaceDescriptor(i.eps) \in Descriptor /\ HidDescriptor \in Descriptor
         /\ InterfaceTree(i) \in Seq(Descriptor)
         /\ raw \o InterfaceTree(i) =
              (IF i.hid THEN Append(Append(raw, InterfaceDescriptor(i.eps)), HidDescriptor)
                        ELSE Append(raw, InterfaceDescriptor(i.eps))) \o Eps(i.eps)
<1> DEFINE x == InterfaceDescriptor(i.eps)
           y == HidDescriptor
           z == Eps(i.eps)
<1>1. i.hid \in BOOLEAN /\ i.eps \in Nat
  BY TreeAssumption DEF Interface
<1>2. x \in Descriptor /\ y \in Descriptor
  BY <1>1 DEF Descriptor, InterfaceDescriptor, HidDescriptor
<1>3. z \in Seq(Descriptor)
  BY <1>1, EpsNext, Zenon
<1>4. InterfaceTree(i) = <<x>> \o (IF i.hid THEN <<y>> ELSE <<>>) \o z
  BY DEF InterfaceTree, InterfaceDescriptor, HidDescriptor, EndpointDescriptor, Eps
<1> HIDE DEF x, y, z
<1>5. CASE i.hid
  <2> DEFINE u == <<x>> \o <<y>>
  <2>1. InterfaceTree(i) = u \o z
    BY <1>4, <1>5, Zenon
  <2>2. u \in Seq(Descriptor) /\ raw \o u = Append(Append(raw, x), y)
    <3>1. <<x>> \in Seq(Descriptor) /\ <<y>> \in Seq(Descriptor)
      BY <1>2
    <3>2. raw \o <<x>> = Append(raw, x) /\ Append(raw, x) \in Seq(Descriptor)
      BY <1>2
    <3>3. Append(raw, x) \o <<y>> = Append(Append(raw, x), y)
      BY <1>2, <3>2
    <3> DEFINE v == <<x>>
               w == <<y>>
    <3>4. v \in Seq(Descriptor) /\ w \in Seq(Descriptor)
      BY <3>1
    <3> HIDE DEF v, w
    <3>5. (raw \o v) \o w = raw \o (v \o w) /\ v \o w \in Seq(Descriptor)
      BY <3>4, MoreMore, MoreType, ZenonT(30)
    <3>6. QED
      BY <3>2, <3>3, <3>5, Zenon DEF v, w
  <2> HIDE DEF u
  <2>3. raw \o InterfaceTree(i) = (raw \o u) \o z
    <3>1. (raw \o u) \o z = raw \o (u \o z)
      BY <1>3, <2>2, MoreMore, Zenon
    <3>2. QED
      BY <2>1, <3>1, Zenon
  <2>4. InterfaceTree(i) \in Seq(Descriptor)
    BY <1>3, <2>1, <2>2, MoreType, Zenon
  <2>5. QED
    BY <1>2, <1>5, <2>2, <2>3, <2>4, Zenon DEF x, y, z
<1>6. CASE ~i.hid
  <2>1. InterfaceTree(i) = <<x>> \o z
    BY <1>2, <1>4, <1>6
  <2>2. <<x>> \in Seq(Descriptor) /\ raw \o <<x>> = Append(raw, x)
    BY <1>2
  <2>3. raw \o InterfaceTree(i) = (raw \o <<x>>) \o z
    <3> DEFINE u == <<x>>
    <3>1. u \in Seq(Descriptor) /\ InterfaceTree(i) = u \o z
      BY <2>1, <2>2
    <3> HIDE DEF u
    <3>2. (raw \o u) \o z = raw \o (u \o z)
      BY <1>3, <3>1, MoreMore, ZenonT(30)
    <3>3. QED
      BY <3>1, <3>2, Zenon DEF u
  <2>4. InterfaceTree(i) \in Seq(Descriptor)
    BY <1>3, <2>1, <2>2, MoreType, Zenon
  <2>5. QED
    BY <1>2, <1>6, <2>2, <2>3, <2>4, Zenon DEF x, y, z
<1>7. QED
  BY <1>1, <1>5, <1>6, Zenon

\* The interface's own descriptor.
LEMMA AfterIface ==
  ASSUME NEW raw, NEW len, NEW p, NEW left, NEW configs, NEW ifaces, NEW e \in Nat,
         raw \in Seq(Descriptor), raw # <<>>, After(raw, len, p),
         InConfig(p, left, configs, ifaces), left >= 9
  PROVE  After(Append(raw, InterfaceDescriptor(e)), len,
               InSub(e + 1, left - 9, configs, ifaces, [hid |-> FALSE, eps |-> 0]))
<1>1. /\ left \in Nat /\ configs \in Seq(Seq(SeenInterface)) /\ ifaces \in Seq(SeenInterface)
  BY DEF InConfig
<1>2. PICK st \in {"config", "sub"}, subs \in Nat :
        p = Parser(st, subs, left, Append(configs, ifaces))
  BY DEF InConfig
<1>3. Step(p, InterfaceDescriptor(e), len)
        = InSub(e + 1, left - 9, configs, ifaces, [hid |-> FALSE, eps |-> 0])
  <2>1. Step(Parser(st, subs, left, Append(configs, ifaces)), [t |-> "iface", eps |-> e], len)
           = Parser("sub", e + 1, left - 9,
                    Append(configs, Append(ifaces, [hid |-> FALSE, eps |-> 0])))
    BY <1>1, StepIface
  <2>2. QED
    BY <1>2, <2>1, Zenon DEF InterfaceDescriptor, InSub
<1>4. InterfaceDescriptor(e) \in Descriptor
  BY DEF Descriptor, InterfaceDescriptor
<1>5. After(Append(raw, InterfaceDescriptor(e)), len, Step(p, InterfaceDescriptor(e), len))
  BY <1>4, AfterAppend, Zenon
<1>6. QED
  BY <1>3, <1>5, Zenon

\* An interface with its HID descriptor and its endpoints.
LEMMA AfterInterface ==
  ASSUME NEW raw, NEW len, NEW p, NEW left, NEW configs, NEW ifaces, NEW i \in Interface,
         raw \in Seq(Descriptor), raw # <<>>, After(raw, len, p),
         InConfig(p, left, configs, ifaces), i.omitted = 0, Bytes(i) <= left
  PROVE  \E q : /\ After(raw \o InterfaceTree(i), len, q)
                /\ InConfig(q, left - Bytes(i), configs, Append(ifaces, Seen(i)))
<1>1. /\ left \in Nat /\ configs \in Seq(Seq(SeenInterface)) /\ ifaces \in Seq(SeenInterface)
  BY DEF InConfig
<1>2. i.hid \in BOOLEAN /\ i.eps \in Nat /\ Seen(i) = [hid |-> i.hid, eps |-> i.eps]
  BY TreeAssumption DEF Interface, Seen
<1>3. Bytes(i) = 9 + (IF i.hid THEN 9 ELSE 0) + 7 * i.eps
  BY <1>2 DEF Bytes, Size
<1> DEFINE e == i.eps
           x == InterfaceDescriptor(e)
           r == Append(raw, x)
           none == [hid |-> FALSE, eps |-> 0]
<1>4. left >= 9
  BY <1>1, <1>2, <1>3
<1>5. After(r, len, InSub(e + 1, left - 9, configs, ifaces, none))
  BY <1>2, <1>4, AfterIface
<1>6. r \in Seq(Descriptor) /\ r # <<>>
  BY InterfaceTreeIs, AppendProperties, ZenonT(30)
<1>7. Seen(i) \in SeenInterface
  BY <1>2 DEF SeenInterface
<1>8. Append(ifaces, Seen(i)) \in Seq(SeenInterface)
  BY <1>1, <1>7, AppendProperties
<1>9. ASSUME NEW n \in Nat, NEW q, q = InSub(n, left - Bytes(i), configs, ifaces, Seen(i)),
             left - Bytes(i) \in Nat
      PROVE  InConfig(q, left - Bytes(i), configs, Append(ifaces, Seen(i)))
  <2>1. "sub" \in {"config", "sub"}
    OBVIOUS
  <2>2. QED
    BY <1>1, <1>8, <1>9, <2>1, Zenon DEF InConfig, InSub
<1>10. left - Bytes(i) \in Nat
  BY <1>1, <1>2, <1>3
<1>11. CASE ~i.hid
  <2>1. raw \o InterfaceTree(i) = r \o Eps(e)
    BY <1>11, InterfaceTreeIs, Zenon
  <2>2. /\ e + 1 \in Nat /\ left - 9 \in Nat /\ e + 1 >= e /\ left - 9 >= 7 * e
        /\ (e + 1) - e = 1 /\ left - 9 - 7 * e = left - Bytes(i) /\ e \in Nat
    <3>1. e \in Nat /\ left \in Nat
      BY <1>1, <1>2
    <3>2. Bytes(i) = 9 + 7 * e /\ 9 + 7 * e <= left
      BY <1>3, <1>11, <3>1
    <3> HIDE DEF e
    <3>3. QED
      BY <3>1, <3>2
  <2>3. FALSE \in BOOLEAN
    OBVIOUS
  <2> HIDE DEF e, x, r
  <2>4. After(r \o Eps(e), len, InSub((e + 1) - e, left - 9 - 7 * e, configs, ifaces,
                                       [hid |-> FALSE, eps |-> e]))
    <3>1. After(r, len, InSub(e + 1, left - 9, configs, ifaces, [hid |-> FALSE, eps |-> 0]))
      BY <1>5, Zenon
    <3> DEFINE s == e + 1
               l == left - 9
    <3>2. /\ s \in Nat /\ l \in Nat /\ s >= e /\ l >= 7 * e /\ e \in Nat
          /\ After(r, len, InSub(s, l, configs, ifaces, [hid |-> FALSE, eps |-> 0]))
      BY <2>2, <3>1
    <3> HIDE DEF s, l
    <3>3. After(r \o Eps(e), len, InSub(s - e, l - 7 * e, configs, ifaces,
                                         [hid |-> FALSE, eps |-> e]))
      BY <1>1, <1>6, <2>3, <3>2, AfterEps, Zenon
    <3>4. QED
      BY <3>3, Zenon DEF s, l
  <2>5. Seen(i) = [hid |-> FALSE, eps |-> e]
    BY <1>2, <1>11, Zenon DEF e
  <2>6. After(r \o Eps(e), len, InSub(1, left - Bytes(i), configs, ifaces, Seen(i)))
    BY <2>2, <2>4, <2>5, Zenon
  <2>7. 1 \in Nat
    OBVIOUS
  <2>8. QED
    BY <1>9, <1>10, <2>1, <2>6, <2>7, Zenon
<1>12. CASE i.hid
  <2> DEFINE y == HidDescriptor
             r2 == Append(r, y)
             l == left - 18
  <2>1. raw \o InterfaceTree(i) = r2 \o Eps(e)
    BY <1>12, InterfaceTreeIs, Zenon
  <2>2. /\ e + 1 \in Nat /\ e + 1 # 0 /\ left - 9 \in Nat /\ left - 9 >= 2
        /\ (e + 1) - 1 = e /\ left - 9 - 9 = l /\ l \in Nat /\ e >= e /\ l >= 7 * e
        /\ e - e = 0 /\ l - 7 * e = left - Bytes(i) /\ e \in Nat
    <3>1. e \in Nat /\ left \in Nat
      BY <1>1, <1>2
    <3>2. Bytes(i) = 18 + 7 * e /\ 18 + 7 * e <= left
      BY <1>3, <1>12, <3>1
    <3> HIDE DEF e
    <3>3. /\ e + 1 \in Nat /\ e + 1 # 0 /\ (e + 1) - 1 = e /\ e >= e /\ e - e = 0
      BY <3>1
    <3>4. left - 9 \in Nat /\ left - 9 >= 2 /\ left - 9 - 9 = l /\ l \in Nat
      BY <3>1, <3>2
    <3>5. l >= 7 * e /\ l - 7 * e = left - Bytes(i)
      BY <3>1, <3>2
    <3>6. QED
      BY <3>1, <3>3, <3>4, <3>5, Zenon
  <2>3. r2 \in Seq(Descriptor) /\ r2 # <<>> /\ y \in Descriptor
    BY <1>6, InterfaceTreeIs, AppendProperties, ZenonT(30)
  <2>4. none \in SeenInterface /\ WithHid(none) = [hid |-> TRUE, eps |-> 0]
    BY DEF SeenInterface, WithHid
  <2>5. TRUE \in BOOLEAN /\ 0 \in Nat
    OBVIOUS
  <2> HIDE DEF e, x, r, none, l
  <2>6. SubState(e + 1, left - 9, configs, ifaces, none)
    BY <1>1, <2>2, <2>4 DEF SubState
  <2>7. Step(InSub(e + 1, left - 9, configs, ifaces, none), y, len)
          = InSub((e + 1) - 1, left - 9 - 9, configs, ifaces, WithHid(none))
    <3> DEFINE s == e + 1
               k == left - 9
    <3>1. SubState(s, k, configs, ifaces, none)
      BY <2>6
    <3> HIDE DEF s, k
    <3>2. Step(InSub(s, k, configs, ifaces, none), y, len)
            = InSub(s - 1, k - 9, configs, ifaces, WithHid(none))
      BY <3>1, StepSub
    <3>3. QED
      BY <3>2, Zenon DEF s, k
  <2> HIDE DEF y
  <2>8. After(r2, len, Step(InSub(e + 1, left - 9, configs, ifaces, none), y, len))
    BY <1>5, <1>6, <2>3, AfterAppend, Zenon
  <2> HIDE DEF r2
  <2>9. After(r2, len, InSub(e, l, configs, ifaces, [hid |-> TRUE, eps |-> 0]))
    BY <2>2, <2>4, <2>7, <2>8, Zenon
  <2>10. After(r2 \o Eps(e), len, InSub(e - e, l - 7 * e, configs, ifaces,
                                         [hid |-> TRUE, eps |-> e]))
    BY <1>1, <2>2, <2>3, <2>5, <2>9, AfterEps, ZenonT(30)
  <2>11. Seen(i) = [hid |-> TRUE, eps |-> e]
    BY <1>2, <1>12 DEF e
  <2>12. After(r2 \o Eps(e), len, InSub(0, left - Bytes(i), configs, ifaces, Seen(i)))
    BY <2>2, <2>10, <2>11, Zenon
  <2>13. QED
    BY <1>9, <1>10, <2>1, <2>5, <2>12
<1>13. QED
  BY <1>2, <1>11, <1>12

\* What comes of the interfaces of a configuration, one by one: their
\* descriptors, and what is parsed.
TreeOf == [i \in Interface |-> InterfaceTree(i)]
SeenOf == [i \in Interface |-> Seen(i)]
SeenAll(c) == Map(SeenOf, c)
IfacesTree(c) == FlattenSeq(Map(TreeOf, c))
AllPassedOn(c) == \A l \in 1..Len(c) : c[l].omitted = 0

\* The types of an interface, of what is parsed of it and of its tree.
LEMMA InterfaceFacts ==
  ASSUME NEW i \in Interface
  PROVE  /\ i.hid \in BOOLEAN /\ i.eps \in Nat /\ i.omitted \in Nat
         /\ Seen(i) = [hid |-> i.hid, eps |-> i.eps] /\ Seen(i) \in SeenInterface
         /\ InterfaceTree(i) \in Seq(Descriptor)
         /\ TreeOf[i] = InterfaceTree(i) /\ SeenOf[i] = Seen(i)
<1>1. i.hid \in BOOLEAN /\ i.eps \in Nat /\ i.omitted \in Nat
  BY TreeAssumption DEF Interface
<1>2. Seen(i) = [hid |-> i.hid, eps |-> i.eps] /\ Seen(i) \in SeenInterface
  BY <1>1 DEF Seen, SeenInterface
<1>3. InterfaceTree(i) \in Seq(Descriptor)
  <2>1. <<>> \in Seq(Descriptor)
    OBVIOUS
  <2>2. QED
    BY <2>1, InterfaceTreeIs, Zenon
<1>4. TreeOf[i] = InterfaceTree(i) /\ SeenOf[i] = Seen(i)
  BY Zenon DEF TreeOf, SeenOf
<1>5. QED
  BY <1>1, <1>2, <1>3, <1>4, Zenon

\* The two maps have these types.
LEMMA TheMaps ==
  Maps(TreeOf, Interface, Seq(Descriptor)) /\ Maps(SeenOf, Interface, SeenInterface)
BY InterfaceFacts, Zenon DEF Maps, TreeOf, SeenOf

\* No interface has no tree and is parsed as none,
LEMMA IfacesNone == SeenAll(<<>>) = <<>> /\ IfacesTree(<<>>) = <<>>
BY MapNone, FlattenNone, Zenon DEF SeenAll, IfacesTree

\* the tree of some is a text and they are parsed as some,
LEMMA IfacesType ==
  ASSUME NEW c \in Seq(Interface)
  PROVE  IfacesTree(c) \in Seq(Descriptor) /\ SeenAll(c) \in Seq(SeenInterface)
<1>1. Map(TreeOf, c) \in Seq(Seq(Descriptor)) /\ Map(SeenOf, c) \in Seq(SeenInterface)
  BY TheMaps, MapType
<1>2. FlattenSeq(Map(TreeOf, c)) \in Seq(Descriptor)
  BY <1>1, FlattenType, Zenon
<1>3. QED
  BY <1>1, <1>2 DEF IfacesTree, SeenAll

\* and one more adds its tree and what is parsed of it.
LEMMA IfacesAppend ==
  ASSUME NEW c \in Seq(Interface), NEW i \in Interface
  PROVE  /\ IfacesTree(Append(c, i)) = IfacesTree(c) \o InterfaceTree(i)
         /\ SeenAll(Append(c, i)) = Append(SeenAll(c), Seen(i))
         /\ AllPassedOn(Append(c, i)) => AllPassedOn(c) /\ i.omitted = 0
<1>1. Map(TreeOf, Append(c, i)) = Append(Map(TreeOf, c), TreeOf[i])
  BY TheMaps, MapAppend
<1>2. Map(SeenOf, Append(c, i)) = Append(Map(SeenOf, c), SeenOf[i])
  BY TheMaps, MapAppend
<1>3. TreeOf[i] = InterfaceTree(i) /\ SeenOf[i] = Seen(i) /\ InterfaceTree(i) \in Seq(Descriptor)
  BY InterfaceFacts
<1>4. Map(TreeOf, c) \in Seq(Seq(Descriptor))
  BY TheMaps, MapType
<1>5. FlattenSeq(Append(Map(TreeOf, c), InterfaceTree(i)))
        = FlattenSeq(Map(TreeOf, c)) \o InterfaceTree(i)
  BY <1>3, <1>4, FlattenAppend, Zenon
<1>6. AllPassedOn(Append(c, i)) => AllPassedOn(c) /\ i.omitted = 0
  <2> DEFINE a == Append(c, i)
             n == Len(c)
  <2>1. /\ Len(a) = n + 1 /\ n \in Nat /\ a[n + 1] = i /\ \A l \in 1..n : a[l] = c[l]
    BY AppendProperties
  <2> HIDE DEF a
  <2>2. n + 1 \in 1..Len(a) /\ \A l \in 1..n : l \in 1..Len(a)
    BY <2>1
  <2>3. AllPassedOn(a) => AllPassedOn(c) /\ i.omitted = 0
    BY <2>1, <2>2, Zenon DEF AllPassedOn
  <2>4. QED
    BY <2>3 DEF a
<1>7. QED
  BY <1>1, <1>2, <1>3, <1>5, <1>6, Zenon DEF IfacesTree, SeenAll

\* All interfaces of a configuration.
LEMMA AfterInterfaces ==
  ASSUME NEW raw \in Seq(Descriptor), raw # <<>>, NEW len, NEW p, NEW left, NEW configs,
         After(raw, len, p), InConfig(p, left, configs, <<>>)
  PROVE  \A c \in Seq(Interface) : AllPassedOn(c) /\ Total(c) - 9 <= left =>
           \E q : /\ After(raw \o IfacesTree(c), len, q)
                  /\ InConfig(q, left - (Total(c) - 9), configs, SeenAll(c))
<1>0. left \in Nat
  BY DEF InConfig
<1> DEFINE R(c) == \E q : /\ After(raw \o IfacesTree(c), len, q)
                          /\ InConfig(q, left - (Total(c) - 9), configs, SeenAll(c))
           S == {n \in Nat : \A c \in Seq(Interface) :
                   Len(c) = n /\ AllPassedOn(c) /\ Total(c) - 9 <= left => R(c)}
<1>1. 0 \in S
  <2> SUFFICES ASSUME NEW c \in Seq(Interface), Len(c) = 0 PROVE R(c)
    BY DEF S
  <2>1. c = <<>>
    OBVIOUS
  <2>2. Total(c) = 9 /\ SeenAll(c) = <<>> /\ IfacesTree(c) = <<>>
    BY <2>1, TotalNone, IfacesNone, Zenon
  <2>3. raw \o <<>> = raw
    BY ConcatEmptySeq
  <2>4. left - (Total(c) - 9) = left
    BY <1>0, <2>2
  <2>5. QED
    BY <2>2, <2>3, <2>4, Zenon
<1>2. ASSUME NEW n \in Nat, n \in S PROVE n + 1 \in S
  <2> SUFFICES ASSUME NEW c \in Seq(Interface), Len(c) = n + 1, AllPassedOn(c),
                      Total(c) - 9 <= left
               PROVE  R(c)
    BY DEF S
  <2>1. PICK b \in Seq(Interface), i \in Interface : c = Append(b, i) /\ Len(c) = Len(b) + 1
    <3>1. c # <<>>
      OBVIOUS
    <3>2. QED
      BY <3>1, FrontAndLast, Zenon
  <2>2. /\ IfacesTree(c) = IfacesTree(b) \o InterfaceTree(i)
        /\ SeenAll(c) = Append(SeenAll(b), Seen(i))
        /\ AllPassedOn(b) /\ i.omitted = 0
    BY <2>1, IfacesAppend, Zenon
  <2>3. Total(c) = Total(b) + Bytes(i) /\ Total(b) \in Nat /\ Bytes(i) \in Nat
    BY <2>1, TotalAppend, TotalDef, BytesType, Zenon
  <2>4. Total(b) - 9 <= left /\ Bytes(i) <= left - (Total(b) - 9)
    BY <1>0, <2>3
  <2>5. Len(b) = n
    BY <2>1
  <2>6. R(b)
    <3> HIDE DEF R
    <3>1. QED
      BY <1>2, <2>2, <2>4, <2>5, Zenon
  <2>7. PICK q : /\ After(raw \o IfacesTree(b), len, q)
                 /\ InConfig(q, left - (Total(b) - 9), configs, SeenAll(b))
    BY <2>6
  <2> DEFINE r == raw \o IfacesTree(b)
             m == left - (Total(b) - 9)
             f == SeenAll(b)
  <2>8. r \in Seq(Descriptor) /\ r # <<>>
    BY IfacesType, MoreType, MoreIsSome, Zenon
  <2>9. After(r, len, q) /\ InConfig(q, m, configs, f) /\ Bytes(i) <= m
    BY <2>4, <2>7, Zenon
  <2> HIDE DEF r, m, f
  <2>10. PICK z : /\ After(r \o InterfaceTree(i), len, z)
                  /\ InConfig(z, m - Bytes(i), configs, Append(f, Seen(i)))
    BY <2>2, <2>8, <2>9, AfterInterface, Zenon
  <2>11. r \o InterfaceTree(i) = raw \o IfacesTree(c)
    <3>1. IfacesTree(b) \in Seq(Descriptor) /\ InterfaceTree(i) \in Seq(Descriptor)
      BY IfacesType, InterfaceFacts
    <3>2. (raw \o IfacesTree(b)) \o InterfaceTree(i) = raw \o (IfacesTree(b) \o InterfaceTree(i))
      BY <3>1, MoreMore, Zenon
    <3>3. QED
      BY <2>2, <3>2, Zenon DEF r
  <2>12. m - Bytes(i) = left - (Total(c) - 9)
    BY <1>0, <2>3 DEF m
  <2>13. QED
    BY <2>2, <2>10, <2>11, <2>12, Zenon DEF f
<1> HIDE DEF S
<1>3. Nat \subseteq S
  BY <1>1, <1>2, SetInduction
<1>4. \A c \in Seq(Interface) : Len(c) \in S
  BY <1>3
<1>5. QED
  BY <1>4 DEF S

(***************************************************************************)
(* wTotalLength is the length of what is written                           *)
(***************************************************************************)
LEMMA LengthOne == ASSUME NEW x \in Descriptor PROVE Length(<<x>>) = Size[x.t]
<1>1. <<>> \in Seq(Descriptor) /\ Append(<<>>, x) = <<x>>
  OBVIOUS
<1>2. Length(Append(<<>>, x)) = Length(<<>>) + Size[x.t]
  BY <1>1, LengthAppend, Zenon
<1>3. Size[x.t] \in Nat
  BY DescriptorSize
<1>4. Length(<<x>>) = 0 + Size[x.t]
  BY <1>1, <1>2, LengthNone, Zenon
<1>5. QED
  BY <1>3, <1>4

\* n endpoint descriptors take 7 n bytes.
LEMMA LengthEps == ASSUME NEW n \in Nat PROVE Length(Eps(n)) = 7 * n
<1> DEFINE S == {m \in Nat : Length(Eps(m)) = 7 * m}
<1>1. 0 \in S
  <2>1. Eps(0) = <<>>
    BY EpsNext
  <2>2. Length(Eps(0)) = 0
    BY <2>1, LengthNone, Zenon
  <2>3. QED
    BY <2>2
<1>2. ASSUME NEW m \in Nat, m \in S PROVE m + 1 \in S
  <2>1. /\ Eps(m) \in Seq(Descriptor) /\ Eps(m + 1) = Append(Eps(m), EndpointDescriptor)
        /\ EndpointDescriptor \in Descriptor
    BY EpsNext, Zenon
  <2>2. Length(Eps(m + 1)) = Length(Eps(m)) + Size[EndpointDescriptor.t]
    BY <2>1, LengthAppend, Zenon
  <2>3. Size[EndpointDescriptor.t] = 7
    BY DEF Size, EndpointDescriptor
  <2>4. Length(Eps(m)) = 7 * m
    BY <1>2
  <2>5. Length(Eps(m + 1)) = 7 * (m + 1)
    BY <2>2, <2>3, <2>4
  <2>6. QED
    BY <2>5
<1> HIDE DEF S
<1>3. Nat \subseteq S
  BY <1>1, <1>2, SetInduction
<1>4. QED
  BY <1>3 DEF S

\* The tree of an interface that omits nothing is as long as its bytes say,
LEMMA LengthInterface ==
  ASSUME NEW i \in Interface, i.omitted = 0 PROVE Length(InterfaceTree(i)) = Bytes(i)
<1> DEFINE x == InterfaceDescriptor(i.eps)
           y == HidDescriptor
           h == IF i.hid THEN Append(Append(<<>>, x), y) ELSE Append(<<>>, x)
<1>1. i.hid \in BOOLEAN /\ i.eps \in Nat
  BY InterfaceFacts
<1>2. <<>> \in Seq(Descriptor)
  OBVIOUS
<1>3. x \in Descriptor /\ y \in Descriptor /\ <<>> \o InterfaceTree(i) = h \o Eps(i.eps)
  BY <1>2, InterfaceTreeIs, Zenon
<1>4. InterfaceTree(i) = h \o Eps(i.eps)
  <2>1. <<>> \o InterfaceTree(i) = InterfaceTree(i)
    BY InterfaceFacts, ConcatEmptySeq, Zenon
  <2>2. QED
    BY <1>3, <2>1, Zenon
<1>5. Size[x.t] = 9 /\ Size[y.t] = 9
  BY DEF Size, InterfaceDescriptor, HidDescriptor
<1> HIDE DEF x, y
<1>6. /\ Append(<<>>, x) \in Seq(Descriptor)
      /\ Append(Append(<<>>, x), y) \in Seq(Descriptor)
  BY <1>3
<1>7. Length(Append(<<>>, x)) = 9
  <2>1. Length(Append(<<>>, x)) = Length(<<>>) + Size[x.t]
    BY <1>2, <1>3, LengthAppend, Zenon
  <2>2. QED
    BY <1>5, <2>1, LengthNone
<1>8. Length(Append(Append(<<>>, x), y)) = 18
  <2>1. Length(Append(Append(<<>>, x), y)) = Length(Append(<<>>, x)) + Size[y.t]
    BY <1>3, <1>6, LengthAppend, Zenon
  <2>2. QED
    BY <1>5, <1>7, <2>1
<1>9. Eps(i.eps) \in Seq(Descriptor) /\ Length(Eps(i.eps)) = 7 * i.eps
  BY <1>1, EpsNext, LengthEps, Zenon
<1>10. h \in Seq(Descriptor) /\ Length(h) = IF i.hid THEN 18 ELSE 9
  BY <1>6, <1>7, <1>8, Zenon
<1> HIDE DEF h
<1>11. Length(InterfaceTree(i)) = Length(h) + Length(Eps(i.eps))
  BY <1>4, <1>9, <1>10, LengthConcat, ZenonT(30)
<1>12. Bytes(i) = 9 + (IF i.hid THEN 9 ELSE 0) + 7 * i.eps
  BY <1>1 DEF Bytes, Size
<1>13. QED
  BY <1>1, <1>9, <1>10, <1>11, <1>12

\* and so wTotalLength is the length of a configuration that omits nothing.
LEMMA LengthInterfaces ==
  \A c \in Seq(Interface) :
    Total(c) >= 9 /\ (AllPassedOn(c) => Length(IfacesTree(c)) = Total(c) - 9)
<1> DEFINE Q(c) == Total(c) >= 9 /\ (AllPassedOn(c) => Length(IfacesTree(c)) = Total(c) - 9)
           S == {n \in Nat : \A c \in Seq(Interface) : Len(c) = n => Q(c)}
<1>1. 0 \in S
  <2> SUFFICES ASSUME NEW c \in Seq(Interface), Len(c) = 0 PROVE Q(c)
    BY DEF S
  <2>1. c = <<>>
    OBVIOUS
  <2>2. Total(c) = 9 /\ IfacesTree(c) = <<>>
    BY <2>1, TotalNone, IfacesNone, Zenon
  <2>3. Length(IfacesTree(c)) = 0
    BY <2>2, LengthNone, Zenon
  <2>4. QED
    BY <2>2, <2>3
<1>2. ASSUME NEW n \in Nat, n \in S PROVE n + 1 \in S
  <2> SUFFICES ASSUME NEW c \in Seq(Interface), Len(c) = n + 1 PROVE Q(c)
    BY DEF S
  <2>1. PICK b \in Seq(Interface), i \in Interface : c = Append(b, i) /\ Len(c) = Len(b) + 1
    <3>1. c # <<>>
      OBVIOUS
    <3>2. QED
      BY <3>1, FrontAndLast, Zenon
  <2>2. Len(b) = n
    BY <2>1
  <2>3. Q(b)
    <3> HIDE DEF Q
    <3>1. QED
      BY <1>2, <2>2, Zenon
  <2>4. /\ IfacesTree(c) = IfacesTree(b) \o InterfaceTree(i)
        /\ AllPassedOn(c) => AllPassedOn(b) /\ i.omitted = 0
    BY <2>1, IfacesAppend, Zenon
  <2>5. Total(c) = Total(b) + Bytes(i) /\ Total(b) \in Nat /\ Bytes(i) \in Nat
    BY <2>1, TotalAppend, TotalDef, BytesType, Zenon
  <2>6. IfacesTree(b) \in Seq(Descriptor) /\ InterfaceTree(i) \in Seq(Descriptor)
    BY IfacesType, InterfaceFacts
  <2>7. Length(IfacesTree(c)) = Length(IfacesTree(b)) + Length(InterfaceTree(i))
    BY <2>4, <2>6, LengthConcat, Zenon
  <2>8. i.omitted = 0 => Length(InterfaceTree(i)) = Bytes(i)
    BY LengthInterface
  <2>9. QED
    BY <2>3, <2>4, <2>5, <2>7, <2>8
<1> HIDE DEF S
<1>3. Nat \subseteq S
  BY <1>1, <1>2, SetInduction
<1>4. \A c \in Seq(Interface) : Len(c) \in S
  BY <1>3
<1>5. QED
  BY <1>4 DEF S

(***************************************************************************)
(* A configuration, and all of them                                        *)
(***************************************************************************)
\* The descriptor of a configuration.
Header(c) == [t |-> "config", total |-> Total(c)]

\* The tree of a configuration: its header and the trees of its interfaces.
LEMMA ConfigTreeIs ==
  ASSUME NEW c \in Seq(Interface)
  PROVE  /\ ConfigTree(c) = <<Header(c)>> \o IfacesTree(c)
         /\ Header(c) \in Descriptor /\ ConfigTree(c) \in Seq(Descriptor)
<1>1. Header(c) \in Descriptor
  BY TotalDef DEF Header, Descriptor
<1>2. \A k \in 1..Len(c) : TreeOf[c[k]] = InterfaceTree(c[k])
  BY ElementOfSeq, InterfaceFacts
<1>3. [k \in 1..Len(c) |-> InterfaceTree(c[k])] = Map(TreeOf, c)
  BY <1>2, Zenon DEF Map
<1>4. ConfigTree(c) = <<Header(c)>> \o IfacesTree(c)
  BY <1>3, Zenon DEF ConfigTree, ConfigDescriptor, Header, IfacesTree
<1>5. <<Header(c)>> \in Seq(Descriptor)
  BY <1>1
<1>6. <<Header(c)>> \o IfacesTree(c) \in Seq(Descriptor)
  BY <1>5, IfacesType, MoreType, Zenon
<1>7. QED
  BY <1>1, <1>4, <1>6, Zenon

\* Between two configurations.
Ready(p, configs) ==
    /\ configs \in Seq(Seq(SeenInterface))
    /\ \E st \in {"top", "config", "sub"}, subs \in Nat : p = Parser(st, subs, 0, configs)

\* Between two configurations, the parser takes one that omits nothing whole.
LEMMA AfterConfig ==
  ASSUME NEW raw \in Seq(Descriptor), raw # <<>>, NEW len \in Nat, NEW p, NEW configs,
         After(raw, len, p), Ready(p, configs), NEW c \in Seq(Interface),
         AllPassedOn(c), Total(c) <= len
  PROVE  \E q : After(raw \o ConfigTree(c), len, q) /\ Ready(q, Append(configs, SeenAll(c)))
<1> DEFINE x == Header(c)
           r == Append(raw, x)
           o == Parser("config", 0, Total(c) - 9, Append(configs, <<>>))
           left == Total(c) - 9
<1>1. configs \in Seq(Seq(SeenInterface))
  BY DEF Ready
<1>2. PICK st \in {"top", "config", "sub"}, subs \in Nat : p = Parser(st, subs, 0, configs)
  BY DEF Ready
<1>3. Total(c) \in Nat /\ Total(c) >= 9 /\ x \in Descriptor
  BY TotalDef, LengthInterfaces, ConfigTreeIs, Zenon
<1>4. r \in Seq(Descriptor) /\ r # <<>>
  BY <1>3, AppendProperties
<1>5. Step(p, x, len) = o
  BY <1>2, <1>3, StepConfig DEF Header
<1> HIDE DEF x
<1>6. After(r, len, o)
  <2>1. After(r, len, Step(p, x, len))
    BY <1>3, AfterAppend, Zenon
  <2>2. QED
    BY <1>5, <2>1, Zenon
<1>7. left \in Nat /\ <<>> \in Seq(SeenInterface) /\ "config" \in {"config", "sub"} /\ 0 \in Nat
  BY <1>3
<1>8. InConfig(o, left, configs, <<>>)
  BY <1>1, <1>7, Zenon DEF InConfig
<1> HIDE DEF r, o
<1>9. PICK q : /\ After(r \o IfacesTree(c), len, q)
               /\ InConfig(q, left - (Total(c) - 9), configs, SeenAll(c))
  <2>1. Total(c) - 9 <= left
    BY <1>7
  <2> HIDE DEF left
  <2>2. \A a \in Seq(Interface) : AllPassedOn(a) /\ Total(a) - 9 <= left =>
           \E q : /\ After(r \o IfacesTree(a), len, q)
                  /\ InConfig(q, left - (Total(a) - 9), configs, SeenAll(a))
    BY <1>4, <1>6, <1>8, AfterInterfaces, Zenon
  <2>3. QED
    BY <2>1, <2>2, Zenon
<1>10. left - (Total(c) - 9) = 0
  BY <1>3
<1>11. r \o IfacesTree(c) = raw \o ConfigTree(c)
  <2> DEFINE u == <<x>>
  <2>1. u \in Seq(Descriptor) /\ raw \o u = r
    BY <1>3 DEF r
  <2>2. ConfigTree(c) = u \o IfacesTree(c) /\ IfacesTree(c) \in Seq(Descriptor)
    BY ConfigTreeIs, IfacesType DEF x
  <2> HIDE DEF u
  <2>3. (raw \o u) \o IfacesTree(c) = raw \o (u \o IfacesTree(c))
    BY <2>1, <2>2, MoreMore, Zenon
  <2>4. QED
    BY <2>1, <2>2, <2>3, Zenon
<1>12. Ready(q, Append(configs, SeenAll(c)))
  <2>1. InConfig(q, 0, configs, SeenAll(c))
    BY <1>9, <1>10, ZenonT(30)
  <2>2. PICK s \in {"config", "sub"}, k \in Nat : q = Parser(s, k, 0, Append(configs, SeenAll(c)))
    BY <2>1, Zenon DEF InConfig
  <2>3. Append(configs, SeenAll(c)) \in Seq(Seq(SeenInterface))
    BY <1>1, IfacesType, AppendProperties, Zenon
  <2>4. s \in {"top", "config", "sub"}
    OBVIOUS
  <2>5. QED
    BY <2>2, <2>3, <2>4, Zenon DEF Ready
<1>13. QED
  BY <1>9, <1>11, <1>12, Zenon

\* What comes of the configurations of a device, one by one.
ConfigOf == [c \in Seq(Interface) |-> ConfigTree(c)]
SeenConfig == [c \in Seq(Interface) |-> SeenAll(c)]
ConfigsTree(devs) == FlattenSeq(Map(ConfigOf, devs))
WholeOf(devs) == Map(SeenConfig, devs)
NoneOmitted(devs) == \A k \in 1..Len(devs) : AllPassedOn(devs[k])

\* The maps of configurations have these types.
LEMMA ConfigMaps ==
  /\ Maps(ConfigOf, Seq(Interface), Seq(Descriptor))
  /\ Maps(SeenConfig, Seq(Interface), Seq(SeenInterface))
BY ConfigTreeIs, IfacesType, Zenon DEF Maps, ConfigOf, SeenConfig

\* No configuration has no tree and is parsed as none,
LEMMA ConfigsNone == ConfigsTree(<<>>) = <<>> /\ WholeOf(<<>>) = <<>>
BY MapNone, FlattenNone, Zenon DEF ConfigsTree, WholeOf

\* the tree of some is a text,
LEMMA ConfigsType ==
  ASSUME NEW devs \in Seq(Seq(Interface)) PROVE ConfigsTree(devs) \in Seq(Descriptor)
<1>1. Map(ConfigOf, devs) \in Seq(Seq(Descriptor))
  BY ConfigMaps, MapType
<1>2. QED
  BY <1>1, FlattenType, Zenon DEF ConfigsTree

\* and one more adds its tree and what is parsed of it.
LEMMA ConfigsAppend ==
  ASSUME NEW devs \in Seq(Seq(Interface)), NEW c \in Seq(Interface)
  PROVE  /\ ConfigsTree(Append(devs, c)) = ConfigsTree(devs) \o ConfigTree(c)
         /\ WholeOf(Append(devs, c)) = Append(WholeOf(devs), SeenAll(c))
         /\ NoneOmitted(Append(devs, c)) => NoneOmitted(devs) /\ AllPassedOn(c)
<1>1. Map(ConfigOf, Append(devs, c)) = Append(Map(ConfigOf, devs), ConfigOf[c])
  BY ConfigMaps, MapAppend
<1>2. Map(SeenConfig, Append(devs, c)) = Append(Map(SeenConfig, devs), SeenConfig[c])
  BY ConfigMaps, MapAppend
<1>3. ConfigOf[c] = ConfigTree(c) /\ SeenConfig[c] = SeenAll(c)
  BY Zenon DEF ConfigOf, SeenConfig
<1>4. Map(ConfigOf, devs) \in Seq(Seq(Descriptor)) /\ ConfigTree(c) \in Seq(Descriptor)
  BY ConfigMaps, MapType, ConfigTreeIs, Zenon
<1>5. FlattenSeq(Append(Map(ConfigOf, devs), ConfigTree(c)))
        = FlattenSeq(Map(ConfigOf, devs)) \o ConfigTree(c)
  BY <1>4, FlattenAppend, Zenon
<1>6. NoneOmitted(Append(devs, c)) => NoneOmitted(devs) /\ AllPassedOn(c)
  <2> DEFINE a == Append(devs, c)
             n == Len(devs)
  <2>1. /\ Len(a) = n + 1 /\ n \in Nat /\ a[n + 1] = c /\ \A l \in 1..n : a[l] = devs[l]
    BY AppendProperties
  <2> HIDE DEF a
  <2>2. n + 1 \in 1..Len(a) /\ \A l \in 1..n : l \in 1..Len(a)
    BY <2>1
  <2>3. NoneOmitted(a) => NoneOmitted(devs) /\ AllPassedOn(c)
    BY <2>1, <2>2, Zenon DEF NoneOmitted
  <2>4. QED
    BY <2>3 DEF a
<1>7. QED
  BY <1>1, <1>2, <1>3, <1>5, <1>6, ZenonT(30) DEF ConfigsTree, WholeOf

\* No configuration is longer than the tree.
LEMMA LengthConfigs ==
  \A devs \in Seq(Seq(Interface)) : NoneOmitted(devs) =>
    \A k \in 1..Len(devs) : Total(devs[k]) <= Length(ConfigsTree(devs))
<1> DEFINE Q(devs) == \A k \in 1..Len(devs) : Total(devs[k]) <= Length(ConfigsTree(devs))
           S == {n \in Nat : \A devs \in Seq(Seq(Interface)) :
                   Len(devs) = n /\ NoneOmitted(devs) => Q(devs)}
<1>1. 0 \in S
  OBVIOUS
<1>2. ASSUME NEW n \in Nat, n \in S PROVE n + 1 \in S
  <2> SUFFICES ASSUME NEW devs \in Seq(Seq(Interface)), Len(devs) = n + 1, NoneOmitted(devs)
               PROVE  Q(devs)
    BY DEF S
  <2>1. PICK b \in Seq(Seq(Interface)), c \in Seq(Interface) :
          devs = Append(b, c) /\ Len(devs) = Len(b) + 1
    <3>1. devs # <<>>
      OBVIOUS
    <3>2. QED
      BY <3>1, FrontAndLast, Zenon
  <2>2. Len(b) = n
    BY <2>1
  <2>3. ConfigsTree(devs) = ConfigsTree(b) \o ConfigTree(c) /\ NoneOmitted(b) /\ AllPassedOn(c)
    BY <2>1, ConfigsAppend, Zenon
  <2>4. Q(b)
    <3> HIDE DEF Q
    <3>1. QED
      BY <1>2, <2>2, <2>3, Zenon
  <2>5. Length(ConfigTree(c)) = Total(c) /\ Total(c) \in Nat
    <3> DEFINE u == <<Header(c)>>
    <3>1. u \in Seq(Descriptor) /\ Length(u) = 9
      <4>1. Size[Header(c).t] = 9
        BY DEF Size, Header
      <4>2. Header(c) \in Descriptor
        BY ConfigTreeIs, Zenon
      <4>3. QED
        BY <4>1, <4>2, LengthOne, SMTT(30)
    <3>2. ConfigTree(c) = u \o IfacesTree(c) /\ IfacesTree(c) \in Seq(Descriptor)
      BY ConfigTreeIs, IfacesType, Zenon
    <3> HIDE DEF u
    <3>3. Length(ConfigTree(c)) = Length(u) + Length(IfacesTree(c))
      BY <3>1, <3>2, LengthConcat, Zenon
    <3>4. Total(c) \in Nat /\ Length(IfacesTree(c)) = Total(c) - 9
      BY <2>3, TotalDef, LengthInterfaces, Zenon
    <3>5. QED
      BY <3>1, <3>3, <3>4
  <2>6. ConfigsTree(b) \in Seq(Descriptor) /\ ConfigTree(c) \in Seq(Descriptor)
    BY ConfigsType, ConfigTreeIs, Zenon
  <2>7. Length(ConfigsTree(devs)) = Length(ConfigsTree(b)) + Total(c)
    BY <2>3, <2>5, <2>6, LengthConcat, Zenon
  <2>8. Length(ConfigsTree(b)) \in Nat
    BY <2>6, LengthDef, Zenon
  <2>9. ASSUME NEW k \in 1..Len(devs) PROVE Total(devs[k]) <= Length(ConfigsTree(devs))
    <3>1. CASE k = Len(devs)
      <4>1. devs[k] = c
        BY <2>1, <3>1
      <4>2. QED
        BY <2>5, <2>7, <2>8, <4>1
    <3>2. CASE k # Len(devs)
      <4>1. k \in 1..Len(b) /\ devs[k] = b[k]
        BY <2>1, <3>2, SMTT(30)
      <4>2. Total(b[k]) <= Length(ConfigsTree(b)) /\ Total(b[k]) \in Nat
        BY <2>4, <4>1, TotalDef, ElementOfSeq, Zenon
      <4>3. QED
        BY <2>5, <2>7, <2>8, <4>1, <4>2, SMTT(30)
    <3>3. QED
      BY <3>1, <3>2, Zenon
  <2>10. QED
    BY <2>9
<1> HIDE DEF S
<1>3. Nat \subseteq S
  BY <1>1, <1>2, SetInduction
<1>4. \A devs \in Seq(Seq(Interface)) : Len(devs) \in S
  BY <1>3
<1>5. QED
  BY <1>4 DEF S

\* The descriptor of the device.

\* So the parser takes all configurations of a device that omits nothing.
LEMMA AfterConfigs ==
  ASSUME NEW len \in Nat
  PROVE  \A devs \in Seq(Seq(Interface)) :
           NoneOmitted(devs) /\ (\A k \in 1..Len(devs) : Total(devs[k]) <= len) =>
           \E q : /\ After(<<DeviceDescriptor>> \o ConfigsTree(devs), len, q)
                  /\ Ready(q, WholeOf(devs))
<1> DEFINE raw == <<DeviceDescriptor>>
           R(devs) == \E q : /\ After(raw \o ConfigsTree(devs), len, q)
                             /\ Ready(q, WholeOf(devs))
           Fits(devs) == \A k \in 1..Len(devs) : Total(devs[k]) <= len
           S == {n \in Nat : \A devs \in Seq(Seq(Interface)) :
                   Len(devs) = n /\ NoneOmitted(devs) /\ Fits(devs) => R(devs)}
<1>0. raw \in Seq(Descriptor) /\ raw # <<>>
  BY DEF Descriptor, DeviceDescriptor
<1>1. 0 \in S
  <2> SUFFICES ASSUME NEW devs \in Seq(Seq(Interface)), Len(devs) = 0 PROVE R(devs)
    BY DEF S
  <2>1. devs = <<>>
    OBVIOUS
  <2>2. ConfigsTree(devs) = <<>> /\ WholeOf(devs) = <<>>
    BY <2>1, ConfigsNone, Zenon
  <2>3. raw \o <<>> = raw
    BY <1>0, ConcatEmptySeq, Zenon
  <2>4. After(raw, len, AtStart)
    BY AfterFirst
  <2>5. Ready(AtStart, <<>>)
    <3>1. <<>> \in Seq(Seq(SeenInterface)) /\ "top" \in {"top", "config", "sub"} /\ 0 \in Nat
      OBVIOUS
    <3>2. AtStart = Parser("top", 0, 0, <<>>)
      BY DEF AtStart, Parser
    <3>3. QED
      BY <3>1, <3>2, Zenon DEF Ready
  <2> HIDE DEF raw
  <2>6. QED
    BY <2>2, <2>3, <2>4, <2>5, Zenon
<1> HIDE DEF raw
<1>2. ASSUME NEW n \in Nat, n \in S PROVE n + 1 \in S
  <2> SUFFICES ASSUME NEW devs \in Seq(Seq(Interface)), Len(devs) = n + 1, NoneOmitted(devs),
                      Fits(devs)
               PROVE  R(devs)
    BY DEF S
  <2>1. PICK b \in Seq(Seq(Interface)), c \in Seq(Interface) :
          devs = Append(b, c) /\ Len(devs) = Len(b) + 1
    <3>1. devs # <<>>
      OBVIOUS
    <3>2. QED
      BY <3>1, FrontAndLast, Zenon
  <2>2. Len(b) = n
    BY <2>1
  <2>3. /\ ConfigsTree(devs) = ConfigsTree(b) \o ConfigTree(c) /\ NoneOmitted(b)
        /\ WholeOf(devs) = Append(WholeOf(b), SeenAll(c)) /\ AllPassedOn(c)
    BY <2>1, ConfigsAppend
  <2>4. Fits(b) /\ Total(c) <= len
    <3>1. Len(devs) \in 1..Len(devs) /\ devs[Len(devs)] = c
      BY <2>1
    <3>2. \A k \in 1..Len(b) : k \in 1..Len(devs) /\ devs[k] = b[k]
      BY <2>1
    <3>3. QED
      BY <3>1, <3>2, Zenon
  <2>5. R(b)
    <3> HIDE DEF R, Fits
    <3>1. QED
      BY <1>2, <2>2, <2>3, <2>4, Zenon
  <2>6. PICK p : After(raw \o ConfigsTree(b), len, p) /\ Ready(p, WholeOf(b))
    BY <2>5, Zenon
  <2> DEFINE r == raw \o ConfigsTree(b)
             w == WholeOf(b)
  <2>7. r \in Seq(Descriptor) /\ r # <<>>
    BY <1>0, ConfigsType, MoreType, MoreIsSome, Zenon
  <2>8. After(r, len, p) /\ Ready(p, w)
    BY <2>6, Zenon
  <2> HIDE DEF r, w
  <2>9. PICK q : After(r \o ConfigTree(c), len, q) /\ Ready(q, Append(w, SeenAll(c)))
    BY <2>3, <2>4, <2>7, <2>8, AfterConfig, Zenon
  <2>10. r \o ConfigTree(c) = raw \o ConfigsTree(devs)
    <3>1. ConfigsTree(b) \in Seq(Descriptor) /\ ConfigTree(c) \in Seq(Descriptor)
      BY ConfigsType, ConfigTreeIs, Zenon
    <3>2. (raw \o ConfigsTree(b)) \o ConfigTree(c) = raw \o (ConfigsTree(b) \o ConfigTree(c))
      BY <1>0, <3>1, MoreMore, ZenonT(30)
    <3>3. QED
      BY <2>3, <3>2, Zenon DEF r
  <2>11. QED
    BY <2>3, <2>9, <2>10, Zenon DEF w
<1> HIDE DEF S
<1>3. Nat \subseteq S
  BY <1>1, <1>2, SetInduction
<1>4. \A devs \in Seq(Seq(Interface)) : Len(devs) \in S
  BY <1>3
<1>5. QED
  BY <1>4, Zenon DEF S, raw

\* The tree of the device: its descriptor and the trees of its configurations.
LEMMA DeviceTreeIs ==
  ASSUME dev \in Seq(Seq(Interface))
  PROVE  /\ DeviceTree = <<DeviceDescriptor>> \o ConfigsTree(dev)
         /\ Whole = WholeOf(dev)
         /\ DeviceTree \in Seq(Descriptor) /\ DeviceTree # <<>>
         /\ NothingOmitted <=> NoneOmitted(dev)
<1>1. \A k \in 1..Len(dev) : dev[k] \in Seq(Interface)
  BY ElementOfSeq
<1>2. [k \in 1..Len(dev) |-> ConfigTree(dev[k])] = Map(ConfigOf, dev)
  <2>1. \A k \in 1..Len(dev) : ConfigOf[dev[k]] = ConfigTree(dev[k])
    BY <1>1, Zenon DEF ConfigOf
  <2>2. QED
    BY <2>1, Zenon DEF Map
<1>3. DeviceTree = <<DeviceDescriptor>> \o ConfigsTree(dev)
  BY <1>2, Zenon DEF DeviceTree, DeviceDescriptor, ConfigsTree
<1>4. Whole = WholeOf(dev)
  <2>1. ASSUME NEW k \in 1..Len(dev)
        PROVE  [l \in 1..Len(dev[k]) |-> Seen(dev[k][l])] = SeenConfig[dev[k]]
    <3>1. \A l \in 1..Len(dev[k]) : SeenOf[dev[k][l]] = Seen(dev[k][l])
      BY <1>1, ElementOfSeq, InterfaceFacts, Zenon
    <3>2. SeenConfig[dev[k]] = SeenAll(dev[k])
      BY <1>1, Zenon DEF SeenConfig
    <3>3. QED
      BY <3>1, <3>2, ZenonT(30) DEF SeenAll, Map
  <2>2. QED
    BY <2>1, Zenon DEF Whole, WholeOf, Map
<1>5. <<DeviceDescriptor>> \in Seq(Descriptor) /\ <<DeviceDescriptor>> # <<>>
  BY DEF Descriptor, DeviceDescriptor
<1>6. DeviceTree \in Seq(Descriptor) /\ DeviceTree # <<>>
  BY <1>3, <1>5, ConfigsType, MoreType, MoreIsSome, Zenon
<1>7. NothingOmitted <=> NoneOmitted(dev)
  BY Zenon DEF NothingOmitted, NoneOmitted, AllPassedOn
<1>8. QED
  BY <1>3, <1>4, <1>6, <1>7, Zenon

\* The tree of any device that leaves nothing out is parsed as that device.
LEMMA DeviceComesBack ==
  ASSUME dev \in Seq(Seq(Interface)), NothingOmitted
  PROVE  AtEnd(Parse(DeviceTree)) = "some" /\ Parse(DeviceTree).configs = Whole
<1> DEFINE raw == <<DeviceDescriptor>>
           len == Length(DeviceTree)
<1>1. NoneOmitted(dev) /\ DeviceTree = raw \o ConfigsTree(dev)
  BY DeviceTreeIs, Zenon
<1>2. raw \in Seq(Descriptor) /\ ConfigsTree(dev) \in Seq(Descriptor)
  BY ConfigsType DEF Descriptor, DeviceDescriptor
<1>3. len \in Nat /\ Length(ConfigsTree(dev)) \in Nat /\ Length(raw) \in Nat
  BY <1>2, DeviceTreeIs, LengthDef, Zenon
<1> HIDE DEF raw
<1>4. len = Length(raw) + Length(ConfigsTree(dev))
  BY <1>1, <1>2, LengthConcat, Zenon
<1> HIDE DEF len
<1>5. ASSUME NEW k \in 1..Len(dev) PROVE Total(dev[k]) <= len
  <2>1. Total(dev[k]) <= Length(ConfigsTree(dev))
    BY <1>1, LengthConfigs, Zenon
  <2>2. Total(dev[k]) \in Nat
    BY ElementOfSeq, TotalDef
  <2>3. QED
    BY <1>3, <1>4, <2>1, <2>2
<1>6. PICK q : After(raw \o ConfigsTree(dev), len, q) /\ Ready(q, WholeOf(dev))
  BY <1>1, <1>3, <1>5, AfterConfigs, Zenon DEF raw
<1>7. Parse(DeviceTree) = q
  <2>1. After(DeviceTree, Length(DeviceTree), q)
    BY <1>1, <1>6, Zenon DEF len
  <2>2. Len(DeviceTree) \in Nat \ {0}
    <3>1. DeviceTree \in Seq(Descriptor) /\ DeviceTree # <<>>
      BY DeviceTreeIs, Zenon
    <3> HIDE DEF DeviceTree
    <3>2. QED
      BY <3>1
  <2>3. QED
    BY <2>1, <2>2, ParseIsAfter, Zenon
<1>8. PICK st \in {"top", "config", "sub"}, subs \in Nat : q = Parser(st, subs, 0, WholeOf(dev))
  BY <1>6, Zenon DEF Ready
<1>9. AtEnd(q) = "some" /\ q.configs = WholeOf(dev)
  BY <1>8 DEF AtEnd, Parser, Size
<1>10. QED
  BY <1>7, <1>9, DeviceTreeIs, Zenon

\* What the steps keep: the tree that is read is the device's.
TreeInv ==
    /\ TreeTypeOK /\ TreeRoundTrips
    /\ dev \in Seq(Seq(Interface))
    /\ tree # <<>> => tree = DeviceTree

\* An interface that is added to the last configuration leaves their number alone.
LEMMA InLastType ==
  ASSUME NEW s \in Seq(Seq(Interface)), s # <<>>, NEW i \in Interface
  PROVE  /\ InLast(s, Append(Last(s), i)) \in Seq(Seq(Interface))
         /\ Len(InLast(s, Append(Last(s), i))) = Len(s)
<1>1. Len(s) \in Nat \ {0}
  OBVIOUS
<1>2. Len(s) \in 1..Len(s)
  BY <1>1
<1>3. s[Len(s)] \in Seq(Interface)
  BY <1>2, ElementOfSeq, Zenon
<1> DEFINE c == Append(s[Len(s)], i)
           n == Len(s)
<1>4. c \in Seq(Interface)
  BY <1>3
<1> HIDE DEF c
<1>5. [s EXCEPT ![n] = c] \in [1..n -> Seq(Interface)]
  <2>1. s \in [1..n -> Seq(Interface)]
    BY <1>1
  <2>2. QED
    BY <1>4, <2>1, Zenon
<1>6. [s EXCEPT ![n] = c] \in Seq(Seq(Interface)) /\ Len([s EXCEPT ![n] = c]) = n
  BY <1>1, <1>5
<1>7. QED
  BY <1>6, Zenon DEF InLast, Last, c

\* The configurations of a device are sequences of interfaces.
LEMMA DevTypes ==
  ASSUME NEW d \in Seq(Seq(Interface)) PROVE \A k \in 1..Len(d) : d[k] \in Seq(Interface)
BY ElementOfSeq

\* What every step of the tree's exchange keeps.
LEMMA TreeStep == TreeInv /\ [TreeNext]_treeVars => TreeInv'
<1> SUFFICES ASSUME TreeInv, [TreeNext]_treeVars PROVE TreeInv'
  OBVIOUS
<1> USE DEF TreeInv
<1>1. ASSUME tree = <<>>, dev' \in Seq(Seq(Interface)), Len(dev') <= MaxConfigs,
             UNCHANGED <<tree, got, once, client>>
      PROVE  TreeInv'
  <2>1. TreeTypeOK'
    BY <1>1, DevTypes, Zenon DEF TreeTypeOK
  <2>2. TreeRoundTrips' /\ (tree # <<>>)' = FALSE
    BY <1>1, Zenon DEF TreeRoundTrips
  <2>3. QED
    BY <1>1, <2>1, <2>2, Zenon
<1>2. ASSUME AddConfig PROVE TreeInv'
  <2>1. Append(dev, <<>>) \in Seq(Seq(Interface)) /\ Len(Append(dev, <<>>)) = Len(dev) + 1
    OBVIOUS
  <2>2. Len(dev) \in Nat /\ MaxConfigs \in Nat
    BY TreeAssumption
  <2>3. QED
    BY <1>1, <1>2, <2>1, <2>2 DEF AddConfig
<1>3. ASSUME NEW i \in Interface, AddInterface(i) PROVE TreeInv'
  <2>1. dev # <<>>
    BY <1>3, Zenon DEF AddInterface
  <2>2. dev' \in Seq(Seq(Interface)) /\ Len(dev') = Len(dev)
    BY <1>3, <2>1, InLastType, Zenon DEF AddInterface
  <2>3. QED
    BY <1>1, <1>3, <2>2, Zenon DEF AddInterface, TreeTypeOK
<1>4. ASSUME ServeTree PROVE TreeInv'
  <2>1. /\ tree = <<>> /\ tree' = DeviceTree
        /\ UNCHANGED <<dev, got, once, client>>
    BY <1>4, Zenon DEF ServeTree
  <2>2. got = 0
    BY <2>1 DEF TreeTypeOK
  <2>3. DeviceTree \in Seq(Descriptor) /\ DeviceTree # <<>>
    BY DeviceTreeIs
  <2>4. Len(DeviceTree) \in Nat /\ Len(DeviceTree) # 0
    <3> HIDE DEF DeviceTree
    <3>1. QED
      BY <2>3
  <2>5. TreeTypeOK'
    BY <2>1, <2>2, <2>4 DEF TreeTypeOK
  <2>6. TreeRoundTrips'
    BY <2>1, <2>2, <2>4, Zenon DEF TreeRoundTrips
  <2>7. DeviceTree' = DeviceTree
    BY <2>1 DEF DeviceTree
  <2>8. QED
    BY <2>1, <2>5, <2>6, <2>7, Zenon
<1>5. ASSUME NEW n \in 1..Len(tree), ReadChunk(n) PROVE TreeInv'
  <2> DEFINE end == AtEnd(Parse(SubSeq(tree, 1, got')))
  <2>1. /\ client = "reading" /\ got + n <= Len(tree) /\ got' = got + n
        /\ once' = (got = 0) /\ UNCHANGED <<dev, tree>>
    BY <1>5 DEF ReadChunk
  <2>2. end \in {"some", "none", "panic"}
    BY Zenon DEF AtEnd
  <2>3. /\ end = "some" => client' = "ready"
        /\ client' \in {"reading", "ready", "panicked"}
    <3> DEFINE read == CASE end = "some" -> "ready" [] end = "none" -> "reading"
                         [] end = "panic" -> "panicked"
    <3>1. client' = read
      BY <1>5, Zenon DEF ReadChunk
    <3> HIDE DEF end
    <3>2. QED
      BY <2>2, <3>1, Zenon
  <2> HIDE DEF end
  <2>4. tree # <<>> /\ tree = DeviceTree
    <3>1. tree # <<>>
      BY <1>5
    <3>2. QED
      BY <3>1, Zenon
  <2>5. tree \in Seq(Descriptor)
    BY <2>4, DeviceTreeIs, Zenon
  <2>6. TreeTypeOK'
    <3>1. got' \in 0..Len(tree)
      BY <2>1, <2>5 DEF TreeTypeOK
    <3>2. once' \in BOOLEAN
      BY <2>1, Zenon
    <3>3. QED
      BY <2>1, <2>3, <3>1, <3>2, ZenonT(30) DEF TreeTypeOK
  <2>7. TreeRoundTrips'
    <3> SUFFICES ASSUME once', got' = Len(tree'), NothingOmitted'
                 PROVE  client' = "ready" /\ Parse(tree').configs = Whole'
      BY Zenon DEF TreeRoundTrips
    <3>1. NothingOmitted /\ Whole' = Whole
      BY <2>1, Zenon DEF NothingOmitted, Whole
    <3>2. got' = Len(tree)
      BY <2>1, Zenon
    <3>3. SubSeq(tree, 1, got') = tree
      <4>1. SubSeq(tree, 1, Len(tree)) = tree
        BY <2>5
      <4>2. QED
        BY <3>2, <4>1, Zenon
    <3>4. AtEnd(Parse(tree)) = "some" /\ Parse(tree).configs = Whole
      BY <2>4, <3>1, DeviceComesBack, Zenon
    <3>5. end = "some"
      BY <3>3, <3>4, Zenon DEF end
    <3>6. QED
      BY <2>1, <2>3, <3>1, <3>4, <3>5, Zenon
  <2>8. DeviceTree' = DeviceTree
    BY <2>1, Zenon DEF DeviceTree
  <2>9. QED
    BY <2>1, <2>4, <2>6, <2>7, <2>8, Zenon
<1>6. ASSUME ReadEnds PROVE TreeInv'
  <2>1. client' = "ready" /\ UNCHANGED <<dev, tree, got, once>> /\ client = "reading"
    BY <1>6, Zenon DEF ReadEnds
  <2>2. TreeTypeOK'
    BY <2>1 DEF TreeTypeOK
  <2>3. NothingOmitted' = NothingOmitted /\ Whole' = Whole /\ DeviceTree' = DeviceTree
    BY <2>1, Zenon DEF NothingOmitted, Whole, DeviceTree
  <2>4. TreeRoundTrips'
    BY <2>1, <2>3, Zenon DEF TreeRoundTrips
  <2>5. QED
    BY <2>1, <2>2, <2>3, <2>4, Zenon
<1>7. ASSUME UNCHANGED treeVars PROVE TreeInv'
  <2>1. UNCHANGED <<dev, tree, got, once, client>>
    BY <1>7 DEF treeVars
  <2>2. NothingOmitted' = NothingOmitted /\ Whole' = Whole /\ DeviceTree' = DeviceTree
    BY <2>1, Zenon DEF NothingOmitted, Whole, DeviceTree
  <2>3. TreeTypeOK' /\ TreeRoundTrips'
    BY <2>1, <2>2, Zenon DEF TreeTypeOK, TreeRoundTrips
  <2>4. QED
    BY <2>1, <2>2, <2>3, Zenon
<1>8. QED
  BY <1>2, <1>3, <1>4, <1>5, <1>6, <1>7, ZenonT(30) DEF TreeNext

\* In every exchange the client parses, from one read of a tree that leaves
\* nothing out, the device the server serialized.
THEOREM TreeInvariance == TreeSpec => []TreeInv
<1>1. TreeInit => TreeInv
  <2> SUFFICES ASSUME TreeInit PROVE TreeInv
    OBVIOUS
  <2>1. dev = <<>> /\ tree = <<>> /\ got = 0 /\ once = TRUE /\ client = "reading"
    BY DEF TreeInit
  <2>2. TreeTypeOK
    BY <2>1, TreeAssumption DEF TreeTypeOK
  <2>3. QED
    BY <2>1, <2>2 DEF TreeInv, TreeRoundTrips
<1>2. QED
  BY <1>1, TreeStep, PTL DEF TreeSpec

-----------------------------------------------------------------------------
(***************************************************************************)
(* TxtRecord                                                               *)
(*                                                                         *)
(* The parser is followed along the text of a record as above along the    *)
(* tree: after the parts of a device it has that device, and so it has all *)
(* of them at the end.                                                     *)
(***************************************************************************)
\* The parser before the first part.
NoParts == [list |-> <<>>, vid |-> 0, pid |-> 0, bus |-> "1-1"]

\* f is the parser after each of the first n parts: for n = Len(text), the
\* recursive function of ParsedPairs.
Parses(f, text, n) ==
    f = [k \in 0..n |-> IF k = 0 THEN NoParts ELSE ParsePair(f[k - 1], text[k])]

\* It has these values,
LEMMA ParsesValue ==
  ASSUME NEW f, NEW text, NEW n \in Nat, Parses(f, text, n)
  PROVE  /\ f[0] = NoParts
         /\ \A k \in 0..n : k + 1 \in 0..n => f[k + 1] = ParsePair(f[k], text[k + 1])
<1>1. \A k \in 0..n : f[k] = IF k = 0 THEN NoParts ELSE ParsePair(f[k - 1], text[k])
  BY Zenon DEF Parses
<1>2. f[0] = NoParts
  <2>1. 0 \in 0..n
    OBVIOUS
  <2>2. QED
    BY <1>1, <2>1, Zenon
<1>3. ASSUME NEW k \in 0..n, k + 1 \in 0..n
      PROVE  f[k + 1] = ParsePair(f[k], text[k + 1])
  <2> DEFINE j == k + 1
  <2>1. j \in 0..n /\ j # 0 /\ j - 1 = k
    BY <1>3
  <2> HIDE DEF j
  <2>2. f[j] = ParsePair(f[k], text[j])
    BY <1>1, <2>1, Zenon
  <2>3. QED
    BY <2>2 DEF j
<1>4. QED
  BY <1>2, <1>3, Zenon

\* it exists,
LEMMA ParsesExists ==
  ASSUME NEW text, NEW n \in Nat PROVE \E f : Parses(f, text, n)
<1> DEFINE S == {m \in Nat : \E f : Parses(f, text, m)}
<1>1. 0 \in S
  <2> DEFINE e == [k \in 0..0 |-> NoParts]
  <2>1. \A k \in 0..0 : k = 0
    OBVIOUS
  <2>2. Parses(e, text, 0)
    BY <2>1, Zenon DEF Parses
  <2> HIDE DEF e
  <2>3. QED
    BY <2>2, Zenon
<1>2. ASSUME NEW m \in Nat, m \in S PROVE m + 1 \in S
  <2>1. PICK g : Parses(g, text, m)
    BY <1>2, Zenon
  <2> DEFINE x == ParsePair(g[m], text[m + 1])
             f == [k \in 0..(m + 1) |-> IF k = m + 1 THEN x ELSE g[k]]
  <2>2. \A k \in 0..(m + 1) :
          f[k] = IF k = 0 THEN NoParts ELSE ParsePair(f[k - 1], text[k])
    <3> SUFFICES ASSUME NEW k \in 0..(m + 1)
                 PROVE  f[k] = IF k = 0 THEN NoParts ELSE ParsePair(f[k - 1], text[k])
      OBVIOUS
    <3>1. CASE k = m + 1
      <4>1. k # 0 /\ k - 1 \in 0..(m + 1) /\ k - 1 # m + 1 /\ k - 1 = m
        BY <3>1
      <4>2. f[k] = x /\ f[k - 1] = g[m]
        BY <3>1, <4>1, Zenon
      <4>3. QED
        BY <3>1, <4>1, <4>2, ZenonT(30)
    <3>2. CASE k = 0
      <4>1. k # m + 1 /\ 0 \in 0..m
        BY <3>2
      <4>2. f[k] = g[0]
        BY <3>2, <4>1, Zenon
      <4>3. g[0] = NoParts
        BY <2>1, ParsesValue, Zenon
      <4>4. QED
        BY <3>2, <4>2, <4>3, Zenon
    <3>3. CASE k \in 1..m
      <4> DEFINE j == k - 1
      <4>1. /\ k # 0 /\ k # m + 1 /\ j \in 0..m /\ j \in 0..(m + 1) /\ j # m + 1
            /\ k = j + 1 /\ k \in 0..m
        BY <3>3
      <4>2. f[k] = g[k] /\ f[j] = g[j]
        BY <4>1
      <4> HIDE DEF j, f
      <4>3. g[j + 1] = ParsePair(g[j], text[j + 1])
        BY <2>1, <4>1, ParsesValue, ZenonT(30)
      <4>4. f[k] = ParsePair(f[j], text[k])
        BY <4>1, <4>2, <4>3, Zenon
      <4>5. QED
        BY <4>1, <4>4, ZenonT(30) DEF j
    <3>4. QED
      BY <3>1, <3>2, <3>3
  <2>3. Parses(f, text, m + 1)
    BY <2>2, Zenon DEF Parses
  <2> HIDE DEF f
  <2>4. QED
    BY <2>3
<1> HIDE DEF S
<1>3. Nat \subseteq S
  BY <1>1, <1>2, SetInduction
<1>4. QED
  BY <1>3, Zenon DEF S

\* and it depends only on the parts that have been parsed.
LEMMA ParsesUnique ==
  ASSUME NEW s, NEW t, NEW m \in Nat, \A i \in 1..m : s[i] = t[i],
         NEW f, Parses(f, s, m + 1), NEW g, Parses(g, t, m)
  PROVE  f[m] = g[m]
<1>5. \A k \in 0..(m + 1) : k + 1 \in 0..(m + 1) => f[k + 1] = ParsePair(f[k], s[k + 1])
  BY ParsesValue
<1>6. \A k \in 0..m : k + 1 \in 0..m => g[k + 1] = ParsePair(g[k], t[k + 1])
  BY ParsesValue
<1> DEFINE S == {n \in Nat : n <= m => f[n] = g[n]}
<1>1. 0 \in S
  <2>1. f[0] = NoParts /\ g[0] = NoParts
    BY ParsesValue
  <2>2. QED
    BY <2>1, Zenon
<1>2. ASSUME NEW n \in Nat, n \in S PROVE n + 1 \in S
  <2> SUFFICES ASSUME n + 1 <= m PROVE f[n + 1] = g[n + 1]
    OBVIOUS
  <2>1. /\ n \in 0..(m + 1) /\ n + 1 \in 0..(m + 1) /\ n \in 0..m /\ n + 1 \in 0..m
        /\ n + 1 \in 1..m /\ n <= m
    OBVIOUS
  <2>2. f[n] = g[n] /\ s[n + 1] = t[n + 1]
    BY <1>2, <2>1, Zenon
  <2>3. f[n + 1] = ParsePair(f[n], s[n + 1])
    BY <1>5, <2>1, Zenon
  <2>4. g[n + 1] = ParsePair(g[n], t[n + 1])
    BY <1>6, <2>1, Zenon
  <2>5. QED
    BY <2>2, <2>3, <2>4, Zenon
<1> HIDE DEF S
<1>3. Nat \subseteq S
  BY <1>1, <1>2, SetInduction, Zenon
<1>4. QED
  BY <1>3 DEF S

\* What ParsedPairs is.
LEMMA ParsedPairsDef ==
  ASSUME NEW text, Len(text) \in Nat
  PROVE  \E f : Parses(f, text, Len(text)) /\ ParsedPairs(text) = f[Len(text)]
<1> DEFINE g == CHOOSE f : Parses(f, text, Len(text))
<1>1. Parses(g, text, Len(text))
  BY ParsesExists, Zenon
<1>2. ParsedPairs(text) = g[Len(text)]
  BY DEF ParsedPairs, Parses, NoParts
<1>3. QED
  BY <1>1, <1>2, Zenon

\* Nothing is parsed of no text,
LEMMA ParsedNone == ParsedPairs(<<>>) = NoParts
<1>1. Len(<<>>) = 0
  OBVIOUS
<1>2. \E f : Parses(f, <<>>, 0) /\ ParsedPairs(<<>>) = f[0]
  BY <1>1, ParsedPairsDef
<1>3. QED
  BY <1>2, ParsesValue, Zenon

\* and a part more is parsed after the others.
LEMMA ParsedAppend ==
  ASSUME NEW T, NEW text \in Seq(T), NEW x \in T
  PROVE  ParsedPairs(Append(text, x)) = ParsePair(ParsedPairs(text), x)
<1> DEFINE t == Append(text, x)
           n == Len(text)
<1>1. /\ n \in Nat /\ n + 1 \in Nat /\ Len(t) = n + 1 /\ t[n + 1] = x
      /\ \A i \in 1..n : t[i] = text[i]
  BY AppendProperties
<1>2. PICK f : Parses(f, text, n) /\ ParsedPairs(text) = f[n]
  BY <1>1, ParsedPairsDef, Zenon
<1>3. PICK g : Parses(g, t, n + 1) /\ ParsedPairs(t) = g[n + 1]
  <2>1. Len(t) \in Nat
    BY <1>1
  <2>2. \E g : Parses(g, t, Len(t)) /\ ParsedPairs(t) = g[Len(t)]
    BY <2>1, ParsedPairsDef, Zenon
  <2>3. QED
    BY <1>1, <2>2, Zenon
<1> HIDE DEF t, n
<1>4. n \in 0..(n + 1) /\ n + 1 \in 0..(n + 1) /\ n <= n /\ n <= n + 1
  BY <1>1
<1>5. g[n] = f[n]
  <2>1. \A i \in 1..n : t[i] = text[i]
    BY <1>1, Zenon
  <2>2. Parses(g, t, n + 1) /\ Parses(f, text, n)
    BY <1>2, <1>3, Zenon
  <2>3. QED
    BY <1>1, <2>1, <2>2, ParsesUnique, SMTT(30)
<1>6. g[n + 1] = ParsePair(g[n], t[n + 1])
  <2>1. \A k \in 0..(n + 1) : k + 1 \in 0..(n + 1) => g[k + 1] = ParsePair(g[k], t[k + 1])
    BY <1>1, <1>3, ParsesValue, ZenonT(30)
  <2>2. QED
    BY <1>4, <2>1, ZenonT(30)
<1>7. QED
  BY <1>1, <1>2, <1>3, <1>5, <1>6, ZenonT(30) DEF t

(***************************************************************************)
(* The devices come back                                                   *)
(***************************************************************************)
Part == [key : {"vid", "pid", "bus", "n"}, val : Id \cup Bus \cup Device]

\* The pairs of each device.
EachPairs(devs) == [i \in 1..Len(devs) |-> Pairs(devs[i])]

\* The pairs of a device are parts of a record.
LEMMA PairsType ==
  ASSUME NEW d \in Device
  PROVE  /\ Pairs(d) \in Seq(Part)
         /\ [key |-> "vid", val |-> d.vid] \in Part
         /\ [key |-> "pid", val |-> d.pid] \in Part
         /\ [key |-> "bus", val |-> d.bus] \in Part
         /\ [key |-> "n", val |-> d] \in Part
<1>1. d.vid \in Id /\ d.pid \in Id /\ d.bus \in Bus
  BY DEF Device
<1>2. /\ [key |-> "vid", val |-> d.vid] \in Part
      /\ [key |-> "pid", val |-> d.pid] \in Part
      /\ [key |-> "bus", val |-> d.bus] \in Part
  BY <1>1 DEF Part
<1>3. [key |-> "n", val |-> d] \in Part
  BY DEF Part
<1>4. QED
  BY <1>2, <1>3 DEF Pairs

\* So are those of some devices,
LEMMA EachPairsType ==
  ASSUME NEW devs \in Seq(Device) PROVE EachPairs(devs) \in Seq(Seq(Part))
<1>1. \A i \in 1..Len(devs) : Pairs(devs[i]) \in Seq(Part)
  BY PairsType, ElementOfSeq, Zenon
<1>2. QED
  BY <1>1 DEF EachPairs

\* and one device more adds its pairs.
LEMMA EachPairsAppend ==
  ASSUME NEW devs \in Seq(Device), NEW d \in Device
  PROVE  EachPairs(Append(devs, d)) = Append(EachPairs(devs), Pairs(d))
<1> DEFINE all == Append(devs, d)
           n == Len(devs)
           e == EachPairs(devs)
           a == EachPairs(all)
<1>1. /\ n \in Nat /\ all \in Seq(Device) /\ Len(all) = n + 1 /\ all[n + 1] = d
      /\ \A i \in 1..n : all[i] = devs[i]
  BY AppendProperties
<1>2. /\ e \in Seq(Seq(Part)) /\ Len(e) = n
      /\ \A i \in 1..n : e[i] = Pairs(devs[i])
  BY EachPairsType DEF EachPairs
<1>3. a \in Seq(Seq(Part)) /\ Len(a) = n + 1
      /\ \A i \in 1..(n + 1) : a[i] = Pairs(all[i])
  <2> HIDE DEF all
  <2>1. a \in Seq(Seq(Part))
    BY <1>1, EachPairsType
  <2>2. QED
    BY <1>1, <2>1 DEF EachPairs
<1>4. Pairs(d) \in Seq(Part)
  BY PairsType, Zenon
<1> HIDE DEF all, n, e, a
<1>5. /\ Append(e, Pairs(d)) \in Seq(Seq(Part)) /\ Len(Append(e, Pairs(d))) = n + 1
      /\ \A i \in 1..n : Append(e, Pairs(d))[i] = e[i]
      /\ Append(e, Pairs(d))[n + 1] = Pairs(d)
  BY <1>2, <1>4, AppendProperties
<1>6. \A i \in 1..(n + 1) : a[i] = Append(e, Pairs(d))[i]
  <2>1. \A i \in 1..(n + 1) : i \in 1..n \/ i = n + 1
    BY <1>1
  <2>2. QED
    BY <1>1, <1>2, <1>3, <1>5, <2>1, ZenonT(30)
<1>7. a = Append(e, Pairs(d))
  BY <1>3, <1>5, <1>6, SeqEqual, Zenon
<1>8. QED
  BY <1>7, Zenon DEF all, e, a

\* A text with the four parts of a device more is parsed with these.
LEMMA FourParts ==
  ASSUME NEW t \in Seq(Part), NEW d \in Device
  PROVE  ParsedPairs(t \o Pairs(d)) =
           ParsePair(ParsePair(ParsePair(ParsePair(ParsedPairs(t),
             [key |-> "vid", val |-> d.vid]), [key |-> "pid", val |-> d.pid]),
             [key |-> "bus", val |-> d.bus]), [key |-> "n", val |-> d])
<1> DEFINE x1 == [key |-> "vid", val |-> d.vid]
           x2 == [key |-> "pid", val |-> d.pid]
           x3 == [key |-> "bus", val |-> d.bus]
           x4 == [key |-> "n", val |-> d]
<1>1. Pairs(d) = <<x1, x2, x3, x4>>
  BY Zenon DEF Pairs
<1>2. x1 \in Part /\ x2 \in Part /\ x3 \in Part /\ x4 \in Part
  BY PairsType, Zenon
<1> HIDE DEF x1, x2, x3, x4
<1> DEFINE t1 == Append(t, x1)
           t2 == Append(t1, x2)
           t3 == Append(t2, x3)
<1>3. t \o Pairs(d) = Append(t3, x4)
  BY <1>1, <1>2
<1>4. t1 \in Seq(Part)
  BY <1>2
<1> HIDE DEF t1
<1>5. t2 \in Seq(Part)
  BY <1>2, <1>4
<1> HIDE DEF t2
<1>6. t3 \in Seq(Part)
  BY <1>2, <1>5
<1> HIDE DEF t3
<1>7. ParsedPairs(t1) = ParsePair(ParsedPairs(t), x1)
  BY <1>2, ParsedAppend, Zenon DEF t1
<1>8. ParsedPairs(t2) = ParsePair(ParsedPairs(t1), x2)
  BY <1>2, <1>4, ParsedAppend, Zenon DEF t2
<1>9. ParsedPairs(t3) = ParsePair(ParsedPairs(t2), x3)
  BY <1>2, <1>5, ParsedAppend, Zenon DEF t3
<1>10. ParsedPairs(Append(t3, x4)) = ParsePair(ParsedPairs(t3), x4)
  BY <1>2, <1>6, ParsedAppend, Zenon
<1>11. QED
  BY <1>3, <1>7, <1>8, <1>9, <1>10, ZenonT(30) DEF x1, x2, x3, x4

\* So the device comes after the one before it, which is put on the list.
LEMMA DeviceParsed ==
  ASSUME NEW t \in Seq(Part), NEW d \in Device, NEW l, NEW v, NEW p, NEW b,
         ParsedPairs(t) = [list |-> l, vid |-> v, pid |-> p, bus |-> b]
  PROVE  ParsedPairs(t \o Pairs(d)) =
           [list |-> FlushDevice(ParsedPairs(t)), vid |-> d.vid, pid |-> d.pid,
            bus |-> d.bus]
<1> DEFINE st == ParsedPairs(t)
           f == FlushDevice(st)
           c == IF Complete(st) THEN "1-1" ELSE st.bus
<1>1. ParsePair(st, [key |-> "vid", val |-> d.vid]) =
        [list |-> f, vid |-> d.vid, pid |-> p, bus |-> c]
  <2> HIDE DEF f, c
  <2>1. ParsePair(st, [key |-> "vid", val |-> d.vid]) =
          [st EXCEPT !.list = f, !.vid = d.vid, !.bus = c]
    BY Zenon DEF ParsePair, f, c
  <2> HIDE DEF st
  <2>2. st = [list |-> l, vid |-> v, pid |-> p, bus |-> b]
    BY Zenon DEF st
  <2>3. QED
    BY <2>1, <2>2, ZenonT(30)
<1> HIDE DEF f, c, st
<1>2. ParsePair([list |-> f, vid |-> d.vid, pid |-> p, bus |-> c],
                [key |-> "pid", val |-> d.pid]) =
        [list |-> f, vid |-> d.vid, pid |-> d.pid, bus |-> c]
  BY Zenon DEF ParsePair
<1>3. ParsePair([list |-> f, vid |-> d.vid, pid |-> d.pid, bus |-> c],
                [key |-> "bus", val |-> d.bus]) =
        [list |-> f, vid |-> d.vid, pid |-> d.pid, bus |-> d.bus]
  BY Zenon DEF ParsePair
<1>4. ParsePair([list |-> f, vid |-> d.vid, pid |-> d.pid, bus |-> d.bus],
                [key |-> "n", val |-> d]) =
        [list |-> f, vid |-> d.vid, pid |-> d.pid, bus |-> d.bus]
  BY Zenon DEF ParsePair
<1>5. QED
  BY <1>1, <1>2, <1>3, <1>4, FourParts, ZenonT(30) DEF f, st

\* A device that has been parsed is complete: its ids are not 0.
LEMMA FlushParsed ==
  ASSUME NEW l, NEW d \in Device
  PROVE  FlushDevice([list |-> l, vid |-> d.vid, pid |-> d.pid, bus |-> d.bus])
           = Append(l, d)
<1>1. d.vid # 0 /\ d.pid # 0 /\ d = [vid |-> d.vid, pid |-> d.pid, bus |-> d.bus]
  BY TxtAssumption DEF Device
<1>2. QED
  BY <1>1, Zenon DEF FlushDevice, Complete

\* What encode_devices_txt writes of one device more.
LEMMA EncodeAppend ==
  ASSUME NEW devs \in Seq(Device), NEW d \in Device
  PROVE  /\ EncodeDevicesTxt(devs) \in Seq(Part)
         /\ EncodeDevicesTxt(Append(devs, d)) = EncodeDevicesTxt(devs) \o Pairs(d)
<1>1. EncodeDevicesTxt(devs) = FlattenSeq(EachPairs(devs))
  BY DEF EncodeDevicesTxt, EachPairs
<1>2. EncodeDevicesTxt(Append(devs, d)) = FlattenSeq(EachPairs(Append(devs, d)))
  BY DEF EncodeDevicesTxt, EachPairs
<1>3. EachPairs(devs) \in Seq(Seq(Part)) /\ Pairs(d) \in Seq(Part)
  BY EachPairsType, PairsType, Zenon
<1>4. FlattenSeq(Append(EachPairs(devs), Pairs(d)))
        = FlattenSeq(EachPairs(devs)) \o Pairs(d)
  BY <1>3, FlattenAppend, Zenon
<1>5. FlattenSeq(EachPairs(devs)) \in Seq(Part)
  BY <1>3, FlattenType, ZenonT(30)
<1>6. QED
  BY <1>1, <1>2, <1>4, <1>5, EachPairsAppend, ZenonT(30)

\* After the text of some devices and one more, those are on the list and this
\* one is being parsed.
LEMMA TextParsed ==
  ASSUME NEW devs \in Seq(Device), NEW latest \in Device
  PROVE  ParsedPairs(EncodeDevicesTxt(Append(devs, latest))) =
           [list |-> devs, vid |-> latest.vid, pid |-> latest.pid, bus |-> latest.bus]
<1> DEFINE P(r, d) == ParsedPairs(EncodeDevicesTxt(Append(r, d))) =
                        [list |-> r, vid |-> d.vid, pid |-> d.pid, bus |-> d.bus]
           S == {n \in Nat : \A r \in Seq(Device), d \in Device : Len(r) = n => P(r, d)}
<1>1. 0 \in S
  <2> SUFFICES ASSUME NEW r \in Seq(Device), NEW d \in Device, Len(r) = 0 PROVE P(r, d)
    OBVIOUS
  <2>1. r = <<>>
    OBVIOUS
  <2>2. EncodeDevicesTxt(r) = <<>>
    <3>1. EachPairs(r) = <<>>
      BY <2>1 DEF EachPairs
    <3>2. QED
      BY <3>1, FlattenNone, Zenon DEF EncodeDevicesTxt, EachPairs
  <2>3. ParsedPairs(EncodeDevicesTxt(r)) = [list |-> <<>>, vid |-> 0, pid |-> 0, bus |-> "1-1"]
    BY <2>2, ParsedNone, ZenonT(30) DEF NoParts
  <2>4. FlushDevice([list |-> <<>>, vid |-> 0, pid |-> 0, bus |-> "1-1"]) = <<>>
    BY DEF FlushDevice, Complete
  <2>5. /\ EncodeDevicesTxt(r) \in Seq(Part)
        /\ EncodeDevicesTxt(Append(r, d)) = EncodeDevicesTxt(r) \o Pairs(d)
    BY EncodeAppend, Zenon
  <2>6. ParsedPairs(EncodeDevicesTxt(r) \o Pairs(d)) =
          [list |-> FlushDevice(ParsedPairs(EncodeDevicesTxt(r))), vid |-> d.vid,
           pid |-> d.pid, bus |-> d.bus]
    BY <2>3, <2>5, DeviceParsed, Zenon
  <2>7. QED
    BY <2>1, <2>3, <2>4, <2>5, <2>6, ZenonT(30)
<1>2. ASSUME NEW n \in Nat, n \in S PROVE n + 1 \in S
  <2> SUFFICES ASSUME NEW r \in Seq(Device), NEW d \in Device, Len(r) = n + 1
               PROVE  P(r, d)
    OBVIOUS
  <2>1. PICK q \in Seq(Device), y \in Device : r = Append(q, y) /\ Len(r) = Len(q) + 1
    <3>1. r # <<>>
      OBVIOUS
    <3>2. QED
      BY <3>1, FrontAndLast, Zenon
  <2>2. Len(q) = n
    BY <2>1, SMTT(30)
  <2>3. P(q, y)
    BY <1>2, <2>2, Zenon
  <2>4. ParsedPairs(EncodeDevicesTxt(r)) =
          [list |-> q, vid |-> y.vid, pid |-> y.pid, bus |-> y.bus]
    BY <2>1, <2>3, Zenon
  <2>5. FlushDevice(ParsedPairs(EncodeDevicesTxt(r))) = r
    BY <2>1, <2>4, FlushParsed, Zenon
  <2>6. /\ EncodeDevicesTxt(r) \in Seq(Part)
        /\ EncodeDevicesTxt(Append(r, d)) = EncodeDevicesTxt(r) \o Pairs(d)
    BY EncodeAppend, Zenon
  <2>7. ParsedPairs(EncodeDevicesTxt(r) \o Pairs(d)) =
          [list |-> FlushDevice(ParsedPairs(EncodeDevicesTxt(r))), vid |-> d.vid,
           pid |-> d.pid, bus |-> d.bus]
    BY <2>4, <2>6, DeviceParsed, Zenon
  <2>8. QED
    BY <2>5, <2>6, <2>7, ZenonT(30)
<1> HIDE DEF S
<1>3. Nat \subseteq S
  BY <1>1, <1>2, SetInduction, Zenon
<1>4. Len(devs) \in S
  BY <1>3
<1>5. QED
  BY <1>4 DEF S

\* parseDevices gives back what encode_devices_txt was given.
LEMMA DevicesComeBack ==
  ASSUME NEW devs \in Seq(Device), devs # <<>>
  PROVE  /\ EncodeDevicesTxt(devs) # <<>>
         /\ EncodeDevicesTxt(devs)[1].key = "vid"
         /\ KeyValueDevices(EncodeDevicesTxt(devs)) = devs
<1>1. PICK r \in Seq(Device), d \in Device : devs = Append(r, d)
  BY FrontAndLast
<1>2. KeyValueDevices(EncodeDevicesTxt(devs)) = devs
  BY <1>1, TextParsed, FlushParsed, Zenon DEF KeyValueDevices
<1> DEFINE S == {n \in Nat : \A q \in Seq(Device), y \in Device : Len(q) = n =>
                   LET t == EncodeDevicesTxt(Append(q, y)) IN t # <<>> /\ t[1].key = "vid"}
<1>3. 0 \in S
  <2> SUFFICES ASSUME NEW q \in Seq(Device), NEW y \in Device, Len(q) = 0
               PROVE  LET t == EncodeDevicesTxt(Append(q, y)) IN t # <<>> /\ t[1].key = "vid"
    OBVIOUS
  <2>1. EncodeDevicesTxt(q) = <<>>
    <3>1. EachPairs(q) = <<>>
      BY DEF EachPairs
    <3>2. QED
      BY <3>1, FlattenNone, Zenon DEF EncodeDevicesTxt, EachPairs
  <2>2. EncodeDevicesTxt(Append(q, y)) = <<>> \o Pairs(y)
    BY <2>1, EncodeAppend, ZenonT(30)
  <2>3. <<>> \o Pairs(y) = Pairs(y)
    BY PairsType, ConcatEmptySeq, Zenon
  <2>4. Pairs(y) # <<>> /\ Pairs(y)[1].key = "vid"
    BY DEF Pairs
  <2>5. QED
    BY <2>2, <2>3, <2>4, ZenonT(30)
<1>4. ASSUME NEW n \in Nat, n \in S PROVE n + 1 \in S
  <2> SUFFICES ASSUME NEW q \in Seq(Device), NEW y \in Device, Len(q) = n + 1
               PROVE  LET t == EncodeDevicesTxt(Append(q, y)) IN t # <<>> /\ t[1].key = "vid"
    OBVIOUS
  <2>1. PICK p \in Seq(Device), z \in Device : q = Append(p, z) /\ Len(q) = Len(p) + 1
    <3>1. q # <<>>
      OBVIOUS
    <3>2. QED
      BY <3>1, FrontAndLast, Zenon
  <2> DEFINE u == EncodeDevicesTxt(q)
  <2>2. Len(p) = n
    BY <2>1
  <2>3. u # <<>> /\ u[1].key = "vid"
    BY <1>4, <2>1, <2>2, Zenon
  <2>4. u \in Seq(Part) /\ Pairs(y) \in Seq(Part) /\ EncodeDevicesTxt(Append(q, y)) = u \o Pairs(y)
    BY EncodeAppend, PairsType, ZenonT(30)
  <2> HIDE DEF u
  <2>5. u \o Pairs(y) # <<>> /\ (u \o Pairs(y))[1] = u[1]
    <3>1. Len(u) \in Nat /\ Len(u) # 0 /\ Len(Pairs(y)) \in Nat
      BY <2>3, <2>4
    <3>2. QED
      BY <2>4, <3>1, SMTT(30)
  <2>6. QED
    BY <2>3, <2>4, <2>5, ZenonT(30)
<1> HIDE DEF S
<1>5. Nat \subseteq S
  BY <1>3, <1>4, SetInduction, Zenon
<1>6. Len(r) \in S
  BY <1>5
<1>7. QED
  BY <1>1, <1>2, <1>6, Zenon DEF S

\* A record is that of the devices it was made from, in one of the two formats.
RustRecord == [on |-> TRUE, text |-> EncodeDevicesTxt(advertised), single |-> <<>>]
AndroidRecord(key) ==
    [on |-> TRUE, text |-> <<[key |-> key, val |-> advertised[1]]>>, single |-> advertised]

\* The inductive invariant.
TxtInv ==
    /\ TxtTypeOK /\ SeenIsAdvertised
    /\ \/ txt = NoRecord /\ advertised = <<>> /\ seen = <<>>
       \/ txt = RustRecord
       \/ Len(advertised) = 1 /\ \E key \in {Colons, ColonsVid} : txt = AndroidRecord(key)

\* An entry with colons is nothing to the parser of pairs.
LEMMA ColonsParsed ==
  ASSUME NEW d PROVE KeyValueDevices(<<[key |-> ColonsVid, val |-> d]>>) = <<>>
<1> DEFINE x == [key |-> ColonsVid, val |-> d]
<1>1. ParsePair(NoParts, x) = NoParts
  BY DEF ParsePair, ColonsVid
<1> HIDE DEF x
<1>2. <<x>> = Append(<<>>, x) /\ <<>> \in Seq({x}) /\ x \in {x}
  OBVIOUS
<1>3. ParsedPairs(Append(<<>>, x)) = ParsePair(ParsedPairs(<<>>), x)
  BY <1>2, ParsedAppend, Zenon
<1>4. ParsedPairs(<<x>>) = NoParts
  BY <1>1, <1>2, <1>3, ParsedNone, ZenonT(30)
<1>5. FlushDevice(NoParts) = <<>>
  BY Zenon DEF FlushDevice, Complete, NoParts
<1>6. QED
  BY <1>4, <1>5, ZenonT(30) DEF KeyValueDevices, x

\* What parseDevices makes of a record.
LEMMA RecordParsed ==
  ASSUME TxtInv, txt.on
  PROVE  ParseDevices(txt) = IF advertised = <<>> THEN <<NoDevice>> ELSE advertised
<1>1. advertised \in Seq(Device)
  BY Zenon DEF TxtInv, TxtTypeOK
<1>2. CASE txt = RustRecord /\ advertised = <<>>
  <2>1. EachPairs(advertised) = <<>>
    BY <1>2 DEF EachPairs
  <2>2. EncodeDevicesTxt(advertised) = <<>>
    BY <2>1, FlattenNone, Zenon DEF EncodeDevicesTxt, EachPairs
  <2>3. txt.text = <<>> /\ txt.single = <<>>
    BY <1>2, <2>2, Zenon DEF RustRecord
  <2>4. QED
    BY <1>2, <2>3, Zenon DEF ParseDevices
<1>3. CASE txt = RustRecord /\ advertised # <<>>
  <2>1. txt.text = EncodeDevicesTxt(advertised)
    BY <1>3 DEF RustRecord
  <2>2. txt.text # <<>> /\ txt.text[1].key = "vid" /\ KeyValueDevices(txt.text) = advertised
    BY <1>1, <1>3, <2>1, DevicesComeBack, ZenonT(30)
  <2>3. HasVid(txt.text)
    BY <2>2, Zenon DEF HasVid, Colons
  <2>4. QED
    BY <1>3, <2>2, <2>3, Zenon DEF ParseDevices
<1>4. ASSUME Len(advertised) = 1, NEW key \in {Colons, ColonsVid}, txt = AndroidRecord(key)
      PROVE  ParseDevices(txt) = advertised
  <2> DEFINE d == advertised[1]
  <2>1. advertised = <<d>> /\ advertised # <<>>
    BY <1>1, <1>4
  <2>2. txt.text = <<[key |-> key, val |-> d]>> /\ txt.single = advertised
    BY <1>4, Zenon DEF AndroidRecord
  <2>3. txt.text # <<>> /\ txt.text[1].key = key /\ txt.text[1].val = d /\ Len(txt.text) = 1
    BY <2>2
  <2> HIDE DEF d
  <2>4. CASE key = Colons
    <3>1. ~HasVid(txt.text)
      BY <2>3, <2>4, Zenon DEF HasVid
    <3>2. ColonDevices(txt.text) = <<d>>
      BY <2>3 DEF ColonDevices
    <3>3. QED
      BY <2>1, <2>3, <3>1, <3>2, ZenonT(30) DEF ParseDevices
  <2>5. CASE key = ColonsVid
    <3>1. HasVid(txt.text)
      BY <2>3, <2>5, Zenon DEF HasVid, Colons, ColonsVid
    <3>2. KeyValueDevices(txt.text) = <<>>
      BY <2>2, <2>5, ColonsParsed, Zenon
    <3>3. QED
      BY <2>1, <2>2, <2>3, <3>1, <3>2, ZenonT(30) DEF ParseDevices
  <2>6. QED
    BY <2>4, <2>5, Zenon
<1>5. txt # NoRecord
  BY DEF NoRecord
<1>6. QED
  BY <1>2, <1>3, <1>4, <1>5 DEF TxtInv

\* The devices of a TXT record arrive: for every set of ids and bus ids.
THEOREM TxtInvariance == TxtSpec => []TxtInv
<1>1. TxtInit => TxtInv
  BY TxtAssumption DEF TxtInit, TxtInv, TxtTypeOK, SeenIsAdvertised
<1>2. TxtInv /\ [TxtNext]_txtVars => TxtInv'
  <2> SUFFICES ASSUME TxtInv, [TxtNext]_txtVars PROVE TxtInv'
    OBVIOUS
  <2>1. /\ devices \in Seq(Device) /\ advertised \in Seq(Device)
        /\ Len(devices) <= MaxDevices /\ seen \in Seq(Device \cup {NoDevice})
    BY DEF TxtInv, TxtTypeOK
  <2>2. ASSUME UNCHANGED <<advertised, txt, seen>>
        PROVE  /\ SeenIsAdvertised'
               /\ \/ txt' = NoRecord /\ advertised' = <<>> /\ seen' = <<>>
                  \/ txt' = RustRecord'
                  \/ Len(advertised') = 1 /\ \E key \in {Colons, ColonsVid} :
                                               txt' = AndroidRecord(key)'
    <3>1. RustRecord' = RustRecord /\ \A key : AndroidRecord(key)' = AndroidRecord(key)
      BY <2>2, Zenon DEF RustRecord, AndroidRecord
    <3>2. SeenIsAdvertised'
      BY <2>2 DEF SeenIsAdvertised, TxtInv
    <3>3. QED
      BY <2>2, <3>1, <3>2, Zenon DEF TxtInv
  <2>3. ASSUME NEW d \in Device, Plug(d) PROVE TxtInv'
    <3>1. TxtTypeOK'
      BY <2>1, <2>3, TxtAssumption DEF Plug, TxtTypeOK
    <3>2. UNCHANGED <<advertised, txt, seen>>
      BY <2>3, Zenon DEF Plug
    <3>3. QED
      BY <2>2, <3>1, <3>2, Zenon DEF TxtInv
  <2>4. ASSUME RegisterRust PROVE TxtInv'
    <3>1. seen = <<>>
      BY <2>4 DEF RegisterRust, TxtInv, RustRecord, AndroidRecord
    <3>2. advertised' = devices /\ devices' = devices /\ seen' = <<>>
      BY <2>4, <3>1, Zenon DEF RegisterRust
    <3>3. TxtTypeOK' /\ SeenIsAdvertised'
      BY <2>1, <3>2 DEF TxtTypeOK, SeenIsAdvertised
    <3>4. txt' = RustRecord'
      BY <2>4, Zenon DEF RegisterRust, RustRecord
    <3>5. QED
      BY <3>3, <3>4, ZenonT(30) DEF TxtInv
  <2>5. ASSUME NEW key \in {Colons, ColonsVid}, RegisterAndroid(key) PROVE TxtInv'
    <3>1. seen = <<>>
      BY <2>5, SMTT(30) DEF RegisterAndroid, TxtInv, RustRecord, AndroidRecord
    <3>2. advertised' = devices /\ devices' = devices /\ seen' = <<>> /\ Len(devices) = 1
      BY <2>5, <3>1, Zenon DEF RegisterAndroid
    <3>3. TxtTypeOK' /\ SeenIsAdvertised'
      BY <2>1, <3>2 DEF TxtTypeOK, SeenIsAdvertised
    <3>4. txt' = AndroidRecord(key)'
      BY <2>5, Zenon DEF RegisterAndroid, AndroidRecord
    <3>5. QED
      BY <3>2, <3>3, <3>4, ZenonT(30) DEF TxtInv
  <2>6. ASSUME Unregister PROVE TxtInv'
    <3>1. txt' = NoRecord /\ advertised' = <<>> /\ seen' = <<>> /\ devices' = devices
      BY <2>6, Zenon DEF Unregister
    <3>2. TxtTypeOK' /\ SeenIsAdvertised'
      BY <2>1, <3>1 DEF TxtTypeOK, SeenIsAdvertised
    <3>3. QED
      BY <3>1, <3>2, Zenon DEF TxtInv
  <2>7. ASSUME Resolve PROVE TxtInv'
    <3>1. /\ txt.on /\ txt' = txt /\ advertised' = advertised /\ devices' = devices
          /\ seen' = ParseDevices(txt)
      BY <2>7, Zenon DEF Resolve
    <3>2. seen' = IF advertised = <<>> THEN <<NoDevice>> ELSE advertised
      BY <3>1, RecordParsed, Zenon
    <3>3. TxtTypeOK' /\ SeenIsAdvertised'
      <4>1. seen' \in Seq(Device \cup {NoDevice})
        <5>1. <<NoDevice>> \in Seq(Device \cup {NoDevice})
          OBVIOUS
        <5>2. Device \subseteq Device \cup {NoDevice}
          OBVIOUS
        <5>3. advertised \in Seq(Device \cup {NoDevice})
          BY <2>1, <5>2, SeqMonotonic, Zenon
        <5>4. QED
          BY <3>2, <5>1, <5>3, Zenon
      <4>2. SeenIsAdvertised'
        BY <3>1, <3>2, Zenon DEF SeenIsAdvertised
      <4>3. QED
        BY <2>1, <3>1, <4>1, <4>2, Zenon DEF TxtTypeOK
    <3>4. RustRecord' = RustRecord /\ \A key : AndroidRecord(key)' = AndroidRecord(key)
      BY <3>1, Zenon DEF RustRecord, AndroidRecord
    <3>5. txt # NoRecord
      BY <3>1 DEF NoRecord
    <3>6. QED
      BY <3>1, <3>3, <3>4, <3>5, ZenonT(30) DEF TxtInv
  <2>8. ASSUME UNCHANGED txtVars PROVE TxtInv'
    <3>1. TxtTypeOK' /\ UNCHANGED <<advertised, txt, seen>>
      BY <2>1, <2>8, Zenon DEF txtVars, TxtTypeOK
    <3>2. QED
      BY <2>2, <3>1, Zenon DEF TxtInv
  <2>9. QED
    BY <2>3, <2>4, <2>5, <2>6, <2>7, <2>8, Zenon DEF TxtNext
<1>3. QED
  BY <1>1, <1>2, PTL DEF TxtSpec

\* What one end encodes the other decodes as the same, for any list of devices in a TXT
\* record (encode_devices_txt, parse_devices_txt and MdnsDiscovery.kt), and for any device
\* in a descriptor tree (get_descriptor_tree, parse_descriptor_tree).
THEOREM WhatIsEncodedIsDecoded == CodecsSpec => []DecodedIsEncoded
<1>1. TxtInv /\ TreeInv => DecodedIsEncoded
  BY DEF TxtInv, TreeInv, DecodedIsEncoded
<1>2. QED
  BY <1>1, TxtInvariance, TreeInvariance, PTL DEF CodecsSpec

=============================================================================
