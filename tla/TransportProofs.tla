-------------------------- MODULE TransportProofs ---------------------------
(***************************************************************************)
(* Proofs about the streams between a device and its peer:                 *)
(*                                                                         *)
(*  - UrbFraming, for commands and replies of any number and length, with  *)
(*    a client that keeps to PROTOCOL.md and commands whose two direction  *)
(*    fields agree.  A stream is always the words of the messages that     *)
(*    have been written and not read, so a reader meets a header at its    *)
(*    front and takes exactly the words that belong to it.                 *)
(*  - CryptoTunnel, for messages of any number and length.  A key is       *)
(*    derived from both public keys, so a frame is refused only for its    *)
(*    length, and what a side has written is what the other one has read   *)
(*    and the frames between them.                                         *)
(***************************************************************************)
EXTENDS Streams, SequenceTheorems, WellFoundedInduction, TLAPS

-----------------------------------------------------------------------------
(***************************************************************************)
(* Sequences: induction in the form of sets, how flattening a sequence goes*)
(* from its front to its last element, and prefixes                        *)
(***************************************************************************)
\* A set of numbers that is not empty has a least one.
LEMMA LeastNat ==
  ASSUME NEW T \in SUBSET Nat, T # {}
  PROVE  \E x \in T : \A y \in T : x <= y
<1> DEFINE R == {ss \in Nat \X Nat : ss[1] < ss[2]}
<1>1. IsWellFoundedOn(R, Nat)
  BY NatLessThanWellFounded DEF OpToRel
<1>2. PICK x \in T : \A y \in T : ~(<<y, x>> \in R)
  BY <1>1, WFMin, Zenon
<1>3. ASSUME NEW y \in T PROVE x <= y
  <2>1. y \in Nat /\ x \in Nat
    OBVIOUS
  <2>2. y < x => <<y, x>> \in R
    BY <2>1
  <2>3. QED
    BY <1>2, <2>1, <2>2
<1>4. QED
  BY <1>3

\* Induction: a set with 0 and with the successors of its elements has every number.
LEMMA SetInduction ==
  ASSUME NEW S, 0 \in S, \A n \in Nat : n \in S => n + 1 \in S
  PROVE  Nat \subseteq S
<1> SUFFICES ASSUME NEW m \in Nat, m \notin S PROVE FALSE
  OBVIOUS
<1> DEFINE T == {n \in Nat : n \notin S}
<1>1. PICK x \in T : \A y \in T : x <= y
  <2>1. T \in SUBSET Nat /\ T # {}
    OBVIOUS
  <2> HIDE DEF T
  <2>2. QED
    BY <2>1, LeastNat
<1>2. x \in Nat /\ x # 0 /\ x - 1 \in Nat /\ x - 1 \notin T
  BY <1>1
<1>3. QED
  BY <1>1, <1>2

\* f flattens the first n elements of s: for n = Len(s), the recursive function
\* in the definition of FlattenSeq.
Flattens(f, s, n) ==
    f = [i \in 1..n |-> IF i = 1 THEN s[i] ELSE f[i - 1] \o s[i]]

\* It exists,
LEMMA FlattensExists == ASSUME NEW T, NEW s \in Seq(T) PROVE \E f : Flattens(f, s, Len(s))
<1> DEFINE S == {n \in Nat : n <= Len(s) => \E f : Flattens(f, s, n)}
<1>1. 0 \in S
  <2> DEFINE e == [i \in 1..0 |-> s[i]]
  <2>1. Flattens(e, s, 0)
    BY DEF Flattens
  <2> HIDE DEF e
  <2>2. QED
    BY <2>1
<1>2. ASSUME NEW n \in Nat, n \in S PROVE n + 1 \in S
  <2> SUFFICES ASSUME n + 1 <= Len(s) PROVE \E f : Flattens(f, s, n + 1)
    OBVIOUS
  <2>1. n <= Len(s)
    OBVIOUS
  <2>2. PICK g : Flattens(g, s, n)
    BY <1>2, <2>1
  <2> DEFINE x == IF n = 0 THEN s[1] ELSE g[n] \o s[n + 1]
             f == [i \in 1..(n + 1) |-> IF i = n + 1 THEN x ELSE g[i]]
  <2>3. \A i \in 1..(n + 1) : f[i] = IF i = 1 THEN s[i] ELSE f[i - 1] \o s[i]
    <3> SUFFICES ASSUME NEW i \in 1..(n + 1)
                 PROVE  f[i] = IF i = 1 THEN s[i] ELSE f[i - 1] \o s[i]
      BY Zenon
    <3>1. CASE i = n + 1
      <4>1. i # 1 => i - 1 \in 1..(n + 1) /\ i - 1 # n + 1 /\ i - 1 = n /\ n # 0
        BY <3>1
      <4>2. QED
        BY <3>1, <4>1
    <3>2. CASE i \in 1..n
      <4>1. i # n + 1
        BY <3>2
      <4>2. f[i] = g[i]
        BY <4>1
      <4>3. i # 1 => i - 1 \in 1..n /\ i - 1 \in 1..(n + 1) /\ i - 1 # n + 1
        BY <3>2
      <4>4. i # 1 => f[i - 1] = g[i - 1]
        BY <4>3
      <4>5. QED
        BY <2>2, <3>2, <4>2, <4>4, Zenon DEF Flattens
    <3>3. QED
      BY <3>1, <3>2
  <2>4. Flattens(f, s, n + 1)
    BY <2>3, Zenon DEF Flattens
  <2> HIDE DEF f
  <2>5. QED
    BY <2>4
<1> HIDE DEF S
<1>3. Nat \subseteq S
  BY <1>1, <1>2, SetInduction
<1>4. Len(s) \in Nat
  OBVIOUS
<1>5. Len(s) \in S
  BY <1>3, <1>4
<1>6. QED
  BY <1>4, <1>5 DEF S

\* it has these values,
LEMMA FlattensValue ==
  ASSUME NEW f, NEW s, NEW n, Flattens(f, s, n), NEW k \in Nat, k + 1 \in 1..n
  PROVE  /\ k = 0 => f[k + 1] = s[k + 1]
         /\ k # 0 => f[k + 1] = f[k] \o s[k + 1]
<1>1. \A i \in 1..n : /\ i = 1 => f[i] = s[i]
                      /\ i # 1 => f[i] = f[i - 1] \o s[i]
  BY Zenon DEF Flattens
<1>2. CASE k = 0
  <2>1. k + 1 = 1
    BY <1>2
  <2>2. QED
    BY <1>1, <1>2, <2>1, Zenon
<1>3. CASE k # 0
  <2>1. k + 1 # 1 /\ k + 1 - 1 = k
    BY <1>3
  <2>2. f[k + 1] = f[k] \o s[k + 1]
    <3> DEFINE j == k + 1
    <3> HIDE DEF j
    <3>1. j \in 1..n /\ j # 1 /\ j - 1 = k
      BY <2>1 DEF j
    <3>2. f[j] = f[j - 1] \o s[j]
      BY <1>1, <3>1, Zenon
    <3>3. f[j] = f[k] \o s[j]
      BY <3>1, <3>2, Zenon
    <3>4. QED
      BY <3>3, Zenon DEF j
  <2>3. QED
    BY <1>3, <2>2, Zenon
<1>4. QED
  BY <1>2, <1>3, Zenon

\* its values are sequences, and they depend only on what has been flattened.
LEMMA FlattensUnique ==
  ASSUME NEW T, NEW s \in Seq(Seq(T)), NEW t \in Seq(Seq(T)), NEW m \in Nat,
         m <= Len(s), m <= Len(t), \A i \in 1..m : s[i] = t[i],
         NEW f, Flattens(f, s, Len(s)), NEW g, Flattens(g, t, Len(t))
  PROVE  \A i \in 1..m : f[i] = g[i] /\ f[i] \in Seq(T)
<1> DEFINE S == {n \in Nat : n \in 1..m => f[n] = g[n] /\ f[n] \in Seq(T)}
<1>1. 0 \in S
  OBVIOUS
<1>2. ASSUME NEW n \in Nat, n \in S PROVE n + 1 \in S
  <2> SUFFICES ASSUME n + 1 \in 1..m PROVE f[n + 1] = g[n + 1] /\ f[n + 1] \in Seq(T)
    OBVIOUS
  <2>1. /\ n + 1 \in 1..Len(s) /\ n + 1 \in 1..Len(t) /\ s[n + 1] = t[n + 1]
    BY SMTT(30)
  <2>6. s[n + 1] \in Seq(T)
    BY <2>1, ElementOfSeq
  <2>2. /\ n = 0 => f[n + 1] = s[n + 1]
        /\ n # 0 => f[n + 1] = f[n] \o s[n + 1]
    BY <2>1, FlattensValue, ZenonT(30)
  <2>7. /\ n = 0 => g[n + 1] = t[n + 1]
        /\ n # 0 => g[n + 1] = g[n] \o t[n + 1]
    BY <2>1, FlattensValue, ZenonT(30)
  <2>3. CASE n = 0
    BY <2>1, <2>2, <2>3, <2>6, <2>7, Zenon
  <2>4. CASE n # 0
    <3>1. n \in 1..m
      BY <2>4
    <3>2. f[n] = g[n] /\ f[n] \in Seq(T)
      BY <1>2, <3>1
    <3>3. f[n + 1] = f[n] \o s[n + 1] /\ g[n + 1] = g[n] \o t[n + 1]
      BY <2>2, <2>4, <2>7, Zenon
    <3>4. f[n] \o s[n + 1] \in Seq(T)
      BY <2>6, <3>2, ConcatProperties
    <3>5. QED
      BY <2>1, <3>2, <3>3, <3>4, Zenon
  <2>5. QED
    BY <2>3, <2>4
<1> HIDE DEF S
<1>3. Nat \subseteq S
  BY <1>1, <1>2, SetInduction, Zenon
<1>4. QED
  BY <1>3 DEF S

\* What FlattenSeq is.
LEMMA FlattenSeqDef ==
  ASSUME NEW T, NEW s \in Seq(Seq(T)), s # <<>>
  PROVE  \E f : Flattens(f, s, Len(s)) /\ FlattenSeq(s) = f[Len(s)]
<1>1. \E f : Flattens(f, s, Len(s))
  BY FlattensExists
<1> DEFINE g == CHOOSE f : Flattens(f, s, Len(s))
<1>2. Flattens(g, s, Len(s))
  BY <1>1
<1>3. Len(s) # 0
  OBVIOUS
<1>4. FlattenSeq(s) = g[Len(s)]
  BY <1>3 DEF FlattenSeq, Flattens
<1>5. QED
  BY <1>2, <1>4, Zenon

\* FlattenSeq gives a sequence,
LEMMA FlattenType ==
  ASSUME NEW T, NEW s \in Seq(Seq(T)) PROVE FlattenSeq(s) \in Seq(T)
<1>1. CASE s = <<>>
  <2>1. Len(s) = 0
    BY <1>1
  <2>2. FlattenSeq(s) = <<>>
    BY <1>1, <2>1 DEF FlattenSeq
  <2>3. QED
    BY <2>2
<1>2. CASE s # <<>>
  <2>1. PICK f : Flattens(f, s, Len(s)) /\ FlattenSeq(s) = f[Len(s)]
    BY <1>2, FlattenSeqDef
  <2>2. Len(s) \in Nat /\ Len(s) \in 1..Len(s)
    BY <1>2
  <2>3. \A i \in 1..Len(s) : f[i] = f[i] /\ f[i] \in Seq(T)
    BY <2>1, <2>2, FlattensUnique
  <2>4. QED
    BY <2>1, <2>2, <2>3
<1>3. QED
  BY <1>1, <1>2

\* of nothing when there is nothing to flatten,
LEMMA FlattenNone == FlattenSeq(<<>>) = <<>>
<1>1. Len(<<>>) = 0
  OBVIOUS
<1>2. QED
  BY <1>1 DEF FlattenSeq

\* and what is added at the end of its argument is added at the end.
LEMMA FlattenAppend ==
  ASSUME NEW T, NEW s \in Seq(Seq(T)), NEW x \in Seq(T)
  PROVE  FlattenSeq(Append(s, x)) = FlattenSeq(s) \o x
<1> DEFINE t == Append(s, x)
           n == Len(s)
<1>1. /\ t \in Seq(Seq(T)) /\ t # <<>> /\ Len(t) = n + 1 /\ t[n + 1] = x
      /\ n \in Nat /\ \A i \in 1..n : t[i] = s[i]
  BY AppendProperties
<1> HIDE DEF t, n
<1>2. PICK f : Flattens(f, t, Len(t)) /\ FlattenSeq(t) = f[Len(t)]
  BY <1>1, FlattenSeqDef
<1>3. n + 1 \in 1..(n + 1)
  BY <1>1
<1>4. /\ n = 0 => f[n + 1] = t[n + 1]
      /\ n # 0 => f[n + 1] = f[n] \o t[n + 1]
  BY <1>1, <1>2, <1>3, FlattensValue, ZenonT(30)
<1>5. CASE s = <<>>
  <2>1. n = 0
    BY <1>5 DEF n
  <2>2. f[n + 1] = x
    BY <1>1, <1>4, <2>1
  <2>3. <<>> \o x = x
    BY ConcatEmptySeq
  <2>4. QED
    BY <1>1, <1>2, <1>5, <2>2, <2>3, FlattenNone, Zenon DEF t
<1>6. CASE s # <<>>
  <2>1. PICK g : Flattens(g, s, Len(s)) /\ FlattenSeq(s) = g[Len(s)]
    BY <1>6, FlattenSeqDef
  <2>2. n \in 1..n /\ n # 0 /\ n <= Len(s) /\ n <= Len(t)
    BY <1>1, <1>6 DEF n
  <2>3. \A i \in 1..n : f[i] = g[i] /\ f[i] \in Seq(T)
    BY <1>1, <1>2, <2>1, <2>2, FlattensUnique, Zenon
  <2>4. f[n] = FlattenSeq(s)
    BY <2>1, <2>2, <2>3 DEF n
  <2>5. f[n + 1] = FlattenSeq(s) \o x
    BY <1>1, <1>4, <2>2, <2>4, Zenon
  <2>6. QED
    BY <1>1, <1>2, <2>5, Zenon DEF t
<1>7. QED
  BY <1>5, <1>6

\* A sequence that is not empty is its front and its last element.
LEMMA FrontAndLast ==
  ASSUME NEW T, NEW s \in Seq(T), s # <<>>
  PROVE  \E r \in Seq(T), x \in T : s = Append(r, x) /\ Len(s) = Len(r) + 1
<1> DEFINE m == Len(s) - 1
           r == [i \in 1..m |-> s[i]]
           x == s[Len(s)]
<1>1. Len(s) \in Nat /\ m \in Nat /\ Len(s) = m + 1
  OBVIOUS
<1>2. x \in T /\ \A i \in 1..m : s[i] \in T
  BY <1>1, ElementOfSeq
<1>3. r \in Seq(T) /\ Len(r) = m /\ \A i \in 1..m : r[i] = s[i]
  <2> HIDE DEF m
  <2>1. QED
    BY <1>1, <1>2
<1> HIDE DEF r, x, m
<1>4. /\ Append(r, x) \in Seq(T) /\ Len(Append(r, x)) = m + 1
      /\ \A i \in 1..m : Append(r, x)[i] = r[i]
      /\ Append(r, x)[m + 1] = x
  BY <1>2, <1>3, AppendProperties
<1>5. \A i \in 1..Len(s) : s[i] = Append(r, x)[i]
  <2>1. \A i \in 1..Len(s) : i \in 1..m \/ i = m + 1
    BY <1>1
  <2>2. s[m + 1] = x
    BY <1>1 DEF x
  <2>3. QED
    BY <1>3, <1>4, <2>1, <2>2, Zenon
<1>6. s = Append(r, x)
  BY <1>1, <1>4, <1>5, SeqEqual
<1>7. QED
  BY <1>1, <1>2, <1>3, <1>6

\* ConcatAssociative with quantifiers.
LEMMA ThreeSeqs ==
  ASSUME NEW T PROVE \A a, b, c \in Seq(T) : (a \o b) \o c = a \o (b \o c)
BY ConcatAssociative, SMTT(30)

\* FlattenSeq of a concatenation.
LEMMA FlattenConcat ==
  ASSUME NEW T
  PROVE  \A s, u \in Seq(Seq(T)) : FlattenSeq(s \o u) = FlattenSeq(s) \o FlattenSeq(u)
<1>0. \A a, b, c \in Seq(T) : (a \o b) \o c = a \o (b \o c)
  BY ThreeSeqs, SMTT(30)
<1> TAKE s, u \in Seq(Seq(T))
<1> DEFINE S == {n \in Nat : \A v \in Seq(Seq(T)) : Len(v) = n =>
                   FlattenSeq(s \o v) = FlattenSeq(s) \o FlattenSeq(v)}
<1>1. 0 \in S
  <2> SUFFICES ASSUME NEW v \in Seq(Seq(T)), Len(v) = 0
               PROVE  FlattenSeq(s \o v) = FlattenSeq(s) \o FlattenSeq(v)
    OBVIOUS
  <2>1. v = <<>>
    OBVIOUS
  <2>2. s \o <<>> = s /\ FlattenSeq(s) \o <<>> = FlattenSeq(s)
    BY FlattenType, ConcatEmptySeq
  <2>3. QED
    BY <2>1, <2>2, FlattenNone, Zenon
<1>2. ASSUME NEW n \in Nat, n \in S PROVE n + 1 \in S
  <2> SUFFICES ASSUME NEW v \in Seq(Seq(T)), Len(v) = n + 1
               PROVE  FlattenSeq(s \o v) = FlattenSeq(s) \o FlattenSeq(v)
    OBVIOUS
  <2>1. PICK r \in Seq(Seq(T)), x \in Seq(T) : v = Append(r, x) /\ Len(v) = Len(r) + 1
    <3>1. v # <<>>
      OBVIOUS
    <3>2. QED
      BY <3>1, FrontAndLast, Zenon
  <2>2. Len(r) = n
    BY <2>1
  <2>3. FlattenSeq(s \o r) = FlattenSeq(s) \o FlattenSeq(r)
    BY <1>2, <2>2, Zenon
  <2>4. s \o v = Append(s \o r, x) /\ s \o r \in Seq(Seq(T))
    BY <2>1, SMTT(30)
  <2>5. FlattenSeq(s \o v) = FlattenSeq(s \o r) \o x
    BY <2>4, FlattenAppend, Zenon
  <2>6. FlattenSeq(v) = FlattenSeq(r) \o x
    BY <2>1, FlattenAppend, Zenon
  <2>7. (FlattenSeq(s) \o FlattenSeq(r)) \o x = FlattenSeq(s) \o (FlattenSeq(r) \o x)
    <3>1. FlattenSeq(s) \in Seq(T) /\ FlattenSeq(r) \in Seq(T)
      BY FlattenType
    <3>2. QED
      BY <1>0, <3>1, ZenonT(30)
  <2>8. QED
    BY <2>3, <2>5, <2>6, <2>7, ZenonT(30)
<1> HIDE DEF S
<1>3. Nat \subseteq S
  BY <1>1, <1>2, SetInduction, Zenon
<1>4. Len(u) \in S
  BY <1>3
<1>5. QED
  BY <1>4 DEF S

\* A sequence whose elements begin another one is a prefix of it.
LEMMA PrefixBy ==
  ASSUME NEW T, NEW u \in Seq(T), NEW v \in Seq(T), Len(u) <= Len(v),
         \A i \in 1..Len(u) : u[i] = v[i]
  PROVE  IsPrefix(u, v)
  BY Zenon DEF IsPrefix

\* What is left of a sequence when what is in front of it has been taken.
LEMMA DropFront ==
  ASSUME NEW T
  PROVE  \A w, t \in Seq(T) :
           /\ w \o t \in Seq(T) /\ Len(w \o t) = Len(w) + Len(t) /\ Len(t) \in Nat
           /\ w # <<>> => (w \o t)[1] = w[1]
           /\ SubSeq(w \o t, Len(w) + 1, Len(w \o t)) = t
<1> TAKE w, t \in Seq(T)
<1> DEFINE s == w \o t
           n == Len(w)
           k == n + 1
           r == SubSeq(s, k, Len(s))
<1>1. /\ s \in Seq(T) /\ Len(s) = n + Len(t) /\ Len(t) \in Nat /\ n \in Nat
      /\ \A i \in 1..n : s[i] = w[i]
      /\ \A i \in 1..Len(t) : s[n + i] = t[i]
  OBVIOUS
<1> HIDE DEF s
<1>2. \A i \in 1..Len(s) : s[i] \in T
  BY <1>1, ElementOfSeq
<1>3. /\ k \in Int /\ Len(s) \in Int /\ (Len(s) - k) + 1 = Len(t)
      /\ \A i \in k..Len(s) : i \in 1..Len(s)
      /\ (~(k <= Len(s)) => Len(t) = 0)
      /\ \A i \in 1..Len(t) : k + i - 1 = n + i
  BY <1>1
<1>4. \A i \in k..Len(s) : s[i] \in T
  BY <1>2, <1>3, SMTT(30)
<1> HIDE DEF n, k
<1>5. /\ r \in Seq(T) /\ Len(r) = IF k <= Len(s) THEN (Len(s) - k) + 1 ELSE 0
      /\ \A i \in 1..((Len(s) - k) + 1) : r[i] = s[k + i - 1]
  BY <1>3, <1>4, SubSeqProperties, SMTT(30)
<1> HIDE DEF r
<1>6. Len(r) = Len(t) /\ \A i \in 1..Len(t) : r[i] = t[i]
  BY <1>1, <1>3, <1>5, ZenonT(30)
<1>7. r = t
  BY <1>5, <1>6, SeqEqual
<1>8. w # <<>> => s[1] = w[1]
  BY <1>1 DEF n
<1>9. QED
  BY <1>1, <1>7, <1>8 DEF s, r, k, n

-----------------------------------------------------------------------------
(***************************************************************************)
(* UrbFraming                                                              *)
(***************************************************************************)
\* A command says its direction twice, and the two agree.
FlagsAgree == \A s \in Shapes : s.in <=> s.direction = 1

\* The client reads what PROTOCOL.md says follows OP_REP_IMPORT.
WireClient == Clients = {"wire"}

(***************************************************************************)
(* Messages.  The writer of one and its reader agree on its data.          *)
(***************************************************************************)
\* A USBIP_CMD_SUBMIT, and a USBIP_RET_SUBMIT.
Command(id, direction, length) ==
    [command |-> "CMD_SUBMIT", id |-> id, direction |-> direction,
     in |-> (direction = 1), length |-> length,
     data |-> IF direction = 0 THEN length ELSE 0]

Reply(id, direction, status, length) ==
    [command |-> "RET_SUBMIT", id |-> id, direction |-> direction, status |-> status,
     length |-> length,
     data |-> IF status = 0 /\ direction # 0 /\ length > 0 THEN length ELSE 0]

\* All that may be written, and the words it is made of.
Commands == {Command(id, d, l) : id \in Nat, d \in {0, 1}, l \in Nat}
Replies == {Reply(id, d, st, l) : id \in Nat, d \in {0, 1}, st \in {0, 1}, l \in Nat}
Messages == Commands \cup Replies
Word == {[msg |-> m, at |-> i] : m \in Messages, i \in Nat}

\* Words that m is made of.
Extent(m) == HeaderWords + BodyWords(m.command) + m.data

\* Sizes of commands, as both servers work them out.
LEMMA CommandFacts ==
  ASSUME NEW m \in Commands
  PROVE  /\ m.command = "CMD_SUBMIT" /\ m.data \in Nat /\ Extent(m) = 14 + m.data
         /\ WireData(m) = m.data /\ AndroidData(m) = m.data
         /\ m.direction \in {0, 1} /\ m.in = (m.direction = 1) /\ m.length \in Nat
         /\ m.id \in Nat
<1>1. PICK id \in Nat, d \in {0, 1}, l \in Nat : m = Command(id, d, l)
  BY DEF Commands
<1>2. /\ m.command = "CMD_SUBMIT" /\ m.id = id /\ m.direction = d /\ m.in = (d = 1)
      /\ m.length = l /\ m.data = IF d = 0 THEN l ELSE 0
  BY <1>1, Zenon DEF Command
<1>3. m.data \in Nat /\ AndroidData(m) = m.data
  BY <1>2 DEF AndroidData
<1>4. WireData(m) = m.data
  <2>1. WireData(m) = IF m.in THEN 0 ELSE m.length
    BY <1>2 DEF WireData, IsIn
  <2>2. 0 # 1
    OBVIOUS
  <2>3. CASE d = 0
    <3>1. ~m.in /\ m.data = l
      BY <1>2, <2>2, <2>3, Zenon
    <3>2. QED
      BY <1>2, <2>1, <3>1, Zenon
  <2>4. CASE d = 1
    <3>1. m.in /\ m.data = 0
      BY <1>2, <2>2, <2>4, Zenon
    <3>2. QED
      BY <2>1, <3>1, Zenon
  <2>5. QED
    BY <2>3, <2>4
<1>5. Extent(m) = 14 + m.data
  BY <1>2, <1>3 DEF Extent, HeaderWords, BodyWords
<1>6. QED
  BY <1>2, <1>3, <1>4, <1>5, SMTT(30)

\* Sizes of replies, as the client works them out.
LEMMA ReplyFacts ==
  ASSUME NEW m \in Replies
  PROVE  /\ m.command = "RET_SUBMIT" /\ m.data \in Nat /\ Extent(m) = 13 + m.data
         /\ WireData(m) = m.data
<1>1. PICK id \in Nat, d \in {0, 1}, st \in {0, 1}, l \in Nat : m = Reply(id, d, st, l)
  BY DEF Replies
<1>2. /\ m.command = "RET_SUBMIT" /\ m.direction = d /\ m.status = st /\ m.length = l
      /\ m.data = IF st = 0 /\ d # 0 /\ l > 0 THEN l ELSE 0
  BY <1>1, ZenonT(30) DEF Reply
<1>3. m.data \in Nat
  BY <1>2
<1>4. WireData(m) = m.data
  BY <1>2 DEF WireData, HasData
<1>5. Extent(m) = 13 + m.data
  BY <1>2, <1>3, SMTT(30) DEF Extent, HeaderWords, BodyWords
<1>6. QED
  BY <1>2, <1>3, <1>4, <1>5, SMTT(30)

\* The words of a message.
LEMMA WordsType ==
  ASSUME NEW m \in Messages
  PROVE  /\ Words(m) \in Seq(Word) /\ Len(Words(m)) = Extent(m)
         /\ Extent(m) \in Nat /\ Extent(m) >= 13
         /\ Words(m)[1] = [msg |-> m, at |-> 1]
<1>1. Extent(m) \in Nat /\ Extent(m) >= 13
  <2>1. CASE m \in Commands
    BY <2>1, CommandFacts
  <2>2. CASE m \in Replies
    BY <2>2, ReplyFacts
  <2>3. QED
    BY <2>1, <2>2 DEF Messages
<1> DEFINE n == Extent(m)
           w == Words(m)
<1>2. w = [i \in 1..n |-> [msg |-> m, at |-> i]]
  BY DEF Words, Extent
<1>3. \A i \in 1..n : [msg |-> m, at |-> i] \in Word
  BY DEF Word
<1> HIDE DEF w
<1>4. w \in [1..n -> Word]
  BY <1>2, <1>3, ZenonT(30)
<1>5. n \in Nat /\ 1 \in 1..n
  BY <1>1
<1> HIDE DEF n
<1>6. w \in Seq(Word) /\ Len(w) = n
  BY <1>4, <1>5
<1>7. w[1] = [msg |-> m, at |-> 1]
  BY <1>2, <1>5, ZenonT(30)
<1>8. QED
  BY <1>1, <1>6, <1>7 DEF w, n

(***************************************************************************)
(* What is in transit: the messages after the first d of a sequence        *)
(***************************************************************************)
\* Their words, message by message, and as the stream has them.
Pending(all, d) == [i \in 1..(Len(all) - d) |-> Words(all[d + i])]
Transit(all, d) == FlattenSeq(Pending(all, d))

\* The pending messages are as many as have not been read, each a sequence of words,
LEMMA PendingType ==
  ASSUME NEW all \in Seq(Messages), NEW d \in 0..Len(all)
  PROVE  Pending(all, d) \in Seq(Seq(Word)) /\ Len(Pending(all, d)) = Len(all) - d
<1> DEFINE n == Len(all) - d
           p == Pending(all, d)
<1>1. n \in Nat /\ \A i \in 1..n : d + i \in 1..Len(all)
  BY SMTT(30)
<1>2. \A i \in 1..n : Words(all[d + i]) \in Seq(Word)
  BY <1>1, ElementOfSeq, WordsType, ZenonT(30)
<1>3. p \in [1..n -> Seq(Word)]
  BY <1>2, Zenon DEF Pending
<1> HIDE DEF n, p
<1>4. p \in Seq(Seq(Word)) /\ Len(p) = n
  BY <1>1, <1>3
<1>5. QED
  BY <1>4 DEF n, p

\* and together they are one.
LEMMA TransitType ==
  ASSUME NEW all \in Seq(Messages), NEW d \in 0..Len(all)
  PROVE  Transit(all, d) \in Seq(Word)
BY PendingType, FlattenType, Zenon DEF Transit

\* Nothing is in transit once all has been read.
LEMMA TransitNone == ASSUME NEW all \in Seq(Messages) PROVE Transit(all, Len(all)) = <<>>
<1>1. Len(all) \in Nat /\ Len(all) \in 0..Len(all) /\ Len(all) - Len(all) = 0
  OBVIOUS
<1> DEFINE p == Pending(all, Len(all))
<1>2. p \in Seq(Seq(Word)) /\ Len(p) = 0
  BY <1>1, PendingType, SMTT(30)
<1> HIDE DEF p
<1>3. p = <<>>
  BY <1>2
<1>4. QED
  BY <1>3, FlattenNone, Zenon DEF Transit, p

\* A message is written.
LEMMA TransitAppend ==
  ASSUME NEW all \in Seq(Messages), NEW d \in 0..Len(all), NEW m \in Messages
  PROVE  Transit(Append(all, m), d) = Transit(all, d) \o Words(m)
<1> DEFINE b == Append(all, m)
           p == Pending(all, d)
           q == Pending(b, d)
           x == Words(m)
           n == Len(all) - d
<1>1. /\ b \in Seq(Messages) /\ Len(b) = Len(all) + 1 /\ Len(all) \in Nat
      /\ \A i \in 1..Len(all) : b[i] = all[i]
      /\ b[Len(all) + 1] = m
  BY SMTT(30)
<1> HIDE DEF b
<1>2. d \in 0..Len(b) /\ Len(b) - d = n + 1 /\ n \in Nat
  BY <1>1, SMTT(30)
<1>3. p \in Seq(Seq(Word)) /\ Len(p) = n /\ x \in Seq(Word)
  BY PendingType, WordsType, Zenon
<1>4. q \in Seq(Seq(Word)) /\ Len(q) = n + 1
  BY <1>1, <1>2, PendingType, Zenon
<1>5. \A i \in 1..n : q[i] = p[i]
  <2> SUFFICES ASSUME NEW i \in 1..n PROVE q[i] = p[i]
    OBVIOUS
  <2>1. i \in 1..(Len(b) - d) /\ i \in 1..(Len(all) - d) /\ d + i \in 1..Len(all)
    BY <1>1, <1>2, SMTT(30)
  <2>2. b[d + i] = all[d + i]
    BY <1>1, <2>1
  <2>3. QED
    BY <2>1, <2>2, ZenonT(30) DEF Pending
<1>6. q[n + 1] = x
  <2>1. n + 1 \in 1..(Len(b) - d) /\ d + (n + 1) = Len(all) + 1
    BY <1>1, <1>2, SMTT(30)
  <2>2. QED
    BY <1>1, <2>1, ZenonT(30) DEF Pending
<1> HIDE DEF p, q, x, n
<1>7. q = Append(p, x)
  <2> DEFINE a == Append(p, x)
  <2>1. a \in Seq(Seq(Word)) /\ Len(a) = n + 1 /\ a[n + 1] = x /\ \A i \in 1..n : a[i] = p[i]
    BY <1>2, <1>3, SMTT(30)
  <2> HIDE DEF a
  <2>2. \A i \in 1..(n + 1) : q[i] = a[i]
    BY <1>2, <1>5, <1>6, <2>1, SMTT(30)
  <2>3. q = a
    BY <1>4, <2>1, <2>2, SeqEqual, ZenonT(30)
  <2>4. QED
    BY <2>3, SMTT(30) DEF a
<1>8. FlattenSeq(Append(p, x)) = FlattenSeq(p) \o x
  BY <1>3, FlattenAppend, Zenon
<1>9. QED
  BY <1>7, <1>8, ZenonT(30) DEF Transit, p, q, x, b

\* The next message is the one at the front.
LEMMA TransitHead ==
  ASSUME NEW all \in Seq(Messages), NEW d \in Nat, d + 1 \in 1..Len(all)
  PROVE  Transit(all, d) = Words(all[d + 1]) \o Transit(all, d + 1)
<1> DEFINE p == Pending(all, d)
           q == Pending(all, d + 1)
           x == Words(all[d + 1])
           n == Len(all) - (d + 1)
<1>1. /\ d \in 0..Len(all) /\ d + 1 \in 0..Len(all) /\ n \in Nat /\ Len(all) \in Nat
      /\ Len(all) - d = n + 1
  BY SMTT(30)
<1>2. p \in Seq(Seq(Word)) /\ Len(p) = n + 1
  BY <1>1, PendingType, ZenonT(30)
<1>3. q \in Seq(Seq(Word)) /\ Len(q) = n
  BY <1>1, PendingType, ZenonT(30)
<1>4. x \in Seq(Word)
  BY WordsType, ElementOfSeq, ZenonT(30)
<1>5. p[1] = x
  <2>1. 1 \in 1..(Len(all) - d)
    BY <1>1
  <2>2. QED
    BY <2>1, Zenon DEF Pending
<1>6. \A i \in 1..n : q[i] = p[i + 1]
  <2> SUFFICES ASSUME NEW i \in 1..n PROVE q[i] = p[i + 1]
    OBVIOUS
  <2>1. i \in 1..(Len(all) - (d + 1)) /\ i + 1 \in 1..(Len(all) - d) /\ (d + 1) + i = d + (i + 1)
    BY <1>1
  <2>2. QED
    BY <2>1, Zenon DEF Pending
<1> HIDE DEF p, q, x, n
<1>7. <<x>> \in Seq(Seq(Word)) /\ <<x>> = Append(<<>>, x) /\ <<>> \in Seq(Seq(Word))
  BY <1>4
<1>8. p = <<x>> \o q
  <2> DEFINE a == <<x>> \o q
  <2>1. /\ a \in Seq(Seq(Word)) /\ Len(a) = n + 1 /\ a[1] = x
        /\ \A i \in 1..n : a[i + 1] = q[i]
    BY <1>1, <1>3, <1>4, SMTT(30)
  <2> HIDE DEF a
  <2>2. ASSUME NEW i \in 1..(n + 1) PROVE p[i] = a[i]
    <3>1. CASE i = 1
      BY <1>5, <2>1, <3>1, SMTT(30)
    <3>2. CASE i # 1
      <4> DEFINE j == i - 1
      <4>1. j \in 1..n /\ i = j + 1
        BY <1>1, <3>2, SMTT(30)
      <4> HIDE DEF j
      <4>2. QED
        BY <1>6, <2>1, <4>1, SMTT(30)
    <3>3. QED
      BY <3>1, <3>2, Zenon
  <2>3. p = a
    BY <1>2, <2>1, <2>2, SeqEqual, Zenon
  <2>4. QED
    BY <2>3, SMTT(30) DEF a
<1>9. FlattenSeq(<<x>> \o q) = FlattenSeq(<<x>>) \o FlattenSeq(q)
  BY <1>3, <1>7, FlattenConcat, ZenonT(30)
<1>10. FlattenSeq(<<x>>) = x
  <2>1. FlattenSeq(Append(<<>>, x)) = FlattenSeq(<<>>) \o x
    BY <1>4, <1>7, FlattenAppend, Zenon
  <2>2. <<>> \o x = x
    BY <1>4, SMTT(30)
  <2>3. QED
    BY <1>7, <2>1, <2>2, FlattenNone, Zenon
<1>11. QED
  BY <1>8, <1>9, <1>10, ZenonT(30) DEF Transit, p, q, x

(***************************************************************************)
(* Readers                                                                 *)
(***************************************************************************)
\* A stream with a message in front of it.
LEMMA FrontWord ==
  ASSUME NEW m \in Messages, NEW t \in Seq(Word), NEW s, s = Words(m) \o t
  PROVE  /\ s \in Seq(Word) /\ Len(s) >= Extent(m) /\ Len(s) \in Nat
         /\ s[1] = [msg |-> m, at |-> 1]
         /\ Rest(s, Extent(m)) = t
<1> DEFINE w == Words(m)
           n == Extent(m)
<1>1. w \in Seq(Word) /\ Len(w) = n /\ n \in Nat /\ n >= 13 /\ w[1] = [msg |-> m, at |-> 1]
  BY WordsType
<1> HIDE DEF w, n
<1>2. s = w \o t
  BY DEF w
<1>3. /\ s \in Seq(Word) /\ Len(s) = n + Len(t) /\ Len(t) \in Nat
      /\ s[1] = w[1] /\ SubSeq(s, n + 1, Len(s)) = t
  <2>1. w # <<>>
    BY <1>1
  <2>2. /\ w \o t \in Seq(Word) /\ Len(w \o t) = Len(w) + Len(t) /\ Len(t) \in Nat
        /\ w # <<>> => (w \o t)[1] = w[1]
        /\ SubSeq(w \o t, Len(w) + 1, Len(w \o t)) = t
    BY <1>1, DropFront, ZenonT(30)
  <2>3. QED
    BY <1>1, <1>2, <2>1, <2>2, ZenonT(30)
<1>4. Len(s) >= n /\ Len(s) \in Nat
  BY <1>1, <1>3
<1>5. QED
  BY <1>1, <1>3, <1>4, Zenon DEF n, Rest

\* The server takes a whole command.
LEMMA ServerTakes ==
  ASSUME NEW m \in Commands, NEW t \in Seq(Word), c2s = Words(m) \o t
  PROVE  /\ Wanted(c2s, ServerSize) = Extent(m)
         /\ Rest(c2s, Wanted(c2s, ServerSize)) = t
         /\ CommandAt(c2s[1]) = "CMD_SUBMIT" /\ c2s[1].msg = m
<1>1. m \in Messages
  BY SMTT(30) DEF Messages
<1>2. /\ Len(c2s) >= Extent(m) /\ Len(c2s) \in Nat /\ c2s[1] = [msg |-> m, at |-> 1]
      /\ Rest(c2s, Extent(m)) = t
  BY <1>1, FrontWord, ZenonT(30)
<1>3. /\ m.command = "CMD_SUBMIT" /\ m.data \in Nat /\ Extent(m) = 14 + m.data
      /\ WireData(m) = m.data /\ AndroidData(m) = m.data
  BY CommandFacts
<1>4. c2s[1].msg = m /\ c2s[1].at = 1
  BY <1>2
<1>5. CommandAt(c2s[1]) = "CMD_SUBMIT"
  BY <1>3, <1>4, SMTT(30) DEF CommandAt
<1>6. ServerSize(m) = m.data
  BY <1>3, SMTT(30) DEF ServerSize
<1>7. BodyWords("CMD_SUBMIT") = 12
  BY SMTT(30) DEF BodyWords
<1>8. Len(c2s) >= 14
  BY <1>2, <1>3, SMTT(30)
<1>9. Wanted(c2s, ServerSize) = 14 + m.data
  <2>1. HeaderWords + BodyWords("CMD_SUBMIT") = 14 /\ HeaderWords = 2
    BY <1>7, SMTT(30) DEF HeaderWords
  <2>2. ~(Len(c2s) < HeaderWords) /\ ~(Len(c2s) < 14)
    BY <1>2, <1>8, <2>1, SMTT(30)
  <2>3. c2s[1].msg.command = "CMD_SUBMIT" /\ ServerSize(c2s[1].msg) = m.data
    BY <1>3, <1>4, <1>6, Zenon
  <2>4. QED
    BY <1>5, <2>1, <2>2, <2>3, ZenonT(30) DEF Wanted
<1>10. QED
  BY <1>2, <1>3, <1>4, <1>5, <1>9, SMTT(30)

\* The client takes a whole reply.
LEMMA ClientTakes ==
  ASSUME NEW m \in Replies, NEW t \in Seq(Word), s2c = Words(m) \o t
  PROVE  /\ Wanted(s2c, WireData) = Extent(m)
         /\ Rest(s2c, Wanted(s2c, WireData)) = t
         /\ s2c[1].msg = m
<1>1. m \in Messages
  BY SMTT(30) DEF Messages
<1>2. /\ Len(s2c) >= Extent(m) /\ Len(s2c) \in Nat /\ s2c[1] = [msg |-> m, at |-> 1]
      /\ Rest(s2c, Extent(m)) = t
  BY <1>1, FrontWord, Zenon
<1>3. /\ m.command = "RET_SUBMIT" /\ m.data \in Nat /\ Extent(m) = 13 + m.data
      /\ WireData(m) = m.data
  BY ReplyFacts, Zenon
<1>4. s2c[1].msg = m /\ s2c[1].at = 1
  BY <1>2
<1>5. CommandAt(s2c[1]) = "RET_SUBMIT"
  BY <1>3, <1>4 DEF CommandAt
<1>7. BodyWords("RET_SUBMIT") = 11
  BY Zenon DEF BodyWords
<1>8. Len(s2c) >= 13
  BY <1>2, <1>3, SMTT(30)
<1> HIDE DEF WireData
<1>9. Wanted(s2c, WireData) = 13 + m.data
  BY <1>2, <1>3, <1>4, <1>5, <1>7, <1>8, SMTT(30) DEF Wanted, HeaderWords
<1>10. QED
  BY <1>2, <1>3, <1>4, <1>9, Zenon

(***************************************************************************)
(* The invariant                                                           *)
(***************************************************************************)
\* done is the beginning of all.
Begins(done, all) ==
    Len(done) <= Len(all) /\ \A i \in 1..Len(done) : done[i] = all[i]

\* The client has yet to read what follows OP_REP_IMPORT, or it has.
ToClient ==
    /\ cpc = "payload" /\ spc = "reply" => s2c = <<>>
    /\ cpc = "payload" /\ spc # "reply" => s2c = PayloadStream \o Transit(written, 0)
    /\ cpc = "payload" => heard = <<>>
    /\ cpc = "urb" => s2c = Transit(written, Len(heard))
    /\ cpc = "urb" /\ spc = "reply" => EntryWords + TreeWords = 0
    /\ spc = "reply" => written = <<>>

FramingInv ==
    /\ clientImpl = "wire" /\ cpc \in {"payload", "urb"}
    /\ spc \in {"reply", "urb", "execute", "write"} /\ batched \in Seq(Replies)
    /\ sent \in Seq(Commands) /\ served \in Seq(Commands)
    /\ written \in Seq(Replies) /\ heard \in Seq(Replies)
    /\ Begins(served, sent) /\ Begins(heard, written)
    /\ c2s = Transit(sent, Len(served))
    /\ spc = "execute" => served # <<>>
    /\ ToClient

\* What has been heard and served is what was said, from its beginning: Framed.
LEMMA FramedFollows == FramingInv => Framed
<1> SUFFICES ASSUME FramingInv PROVE Framed
  BY SMTT(30)
<1>1. IsPrefix(served, sent)
  <2>1. /\ served \in Seq(Commands) /\ sent \in Seq(Commands) /\ Len(served) <= Len(sent)
        /\ \A i \in 1..Len(served) : served[i] = sent[i]
    BY DEF FramingInv, Begins
  <2>2. QED
    BY <2>1, PrefixBy, ZenonT(30)
<1>2. IsPrefix(heard, written)
  <2>1. /\ heard \in Seq(Replies) /\ written \in Seq(Replies) /\ Len(heard) <= Len(written)
        /\ \A i \in 1..Len(heard) : heard[i] = written[i]
    BY DEF FramingInv, Begins
  <2>2. QED
    BY <2>1, PrefixBy, Zenon
<1>3. WholeMessages
  BY Zenon DEF FramingInv, ToClient, WholeMessages, Transit, Pending
<1>4. QED
  BY <1>1, <1>2, <1>3, SMTT(30) DEF Framed, InSync

\* Commands and replies are messages.
LEMMA AsMessages ==
  /\ \A s \in Seq(Commands) : s \in Seq(Messages)
  /\ \A s \in Seq(Replies) : s \in Seq(Messages)
<1>1. Commands \subseteq Messages /\ Replies \subseteq Messages
  BY DEF Messages
<1>2. QED
  BY <1>1

\* The invariant holds before the first command.
LEMMA InitFraming == ASSUME WireClient, FramingInit PROVE FramingInv
<1>1. /\ clientImpl = "wire" /\ cpc = "payload" /\ spc = "reply" /\ c2s = <<>> /\ s2c = <<>>
      /\ sent = <<>> /\ served = <<>> /\ batched = <<>> /\ written = <<>> /\ heard = <<>>
  BY DEF FramingInit, WireClient
<1>2. /\ <<>> \in Seq(Commands) /\ <<>> \in Seq(Replies) /\ <<>> \in Seq(Messages)
      /\ Len(<<>>) = 0 /\ \A i : i \notin 1..0
  OBVIOUS
<1>3. Transit(<<>>, 0) = <<>>
  BY <1>2, TransitNone, ZenonT(30)
<1>4. Begins(<<>>, <<>>)
  BY DEF Begins
<1>5. ToClient
  BY <1>1 DEF ToClient
<1>6. QED
  BY <1>1, <1>2, <1>3, <1>4, <1>5, Zenon DEF FramingInv

\* One more element at the end of all, or the next element of all at the end of done.
LEMMA BeginsMore ==
  ASSUME NEW T
  PROVE  /\ \A d, a \in Seq(T), x \in T : Begins(d, a) => Begins(d, Append(a, x))
         /\ \A d, a \in Seq(T) : Begins(d, a) /\ Len(d) + 1 <= Len(a) =>
              Begins(Append(d, a[Len(d) + 1]), a)
<1>1. ASSUME NEW d \in Seq(T), NEW a \in Seq(T), NEW x \in T, Begins(d, a)
      PROVE  Begins(d, Append(a, x))
  <2>1. /\ Len(Append(a, x)) = Len(a) + 1 /\ Len(a) \in Nat /\ Len(d) \in Nat
        /\ \A i \in 1..Len(a) : Append(a, x)[i] = a[i]
    OBVIOUS
  <2> DEFINE b == Append(a, x)
  <2> HIDE DEF b
  <2>2. QED
    BY <1>1, <2>1 DEF Begins, b
<1>2. ASSUME NEW d \in Seq(T), NEW a \in Seq(T), Begins(d, a), Len(d) + 1 <= Len(a)
      PROVE  Begins(Append(d, a[Len(d) + 1]), a)
  <2> DEFINE x == a[Len(d) + 1]
             b == Append(d, x)
  <2>1. Len(d) \in Nat /\ Len(a) \in Nat
    OBVIOUS
  <2>2. x \in T
    BY <1>2, <2>1, ElementOfSeq, SMTT(30)
  <2>3. /\ Len(b) = Len(d) + 1 /\ b[Len(d) + 1] = x
        /\ \A i \in 1..Len(d) : b[i] = d[i]
    <3> HIDE DEF x
    <3>1. QED
      BY <2>2, SMTT(30)
  <2> HIDE DEF b
  <2>4. ASSUME NEW i \in 1..Len(b) PROVE b[i] = a[i]
    <3>1. CASE i = Len(d) + 1
      BY <2>3, <3>1, SMTT(30)
    <3>2. CASE i # Len(d) + 1
      <4>1. i \in 1..Len(d)
        BY <2>1, <2>3, <3>2, SMTT(30)
      <4>2. QED
        BY <1>2, <2>3, <4>1, Zenon DEF Begins
    <3>3. QED
      BY <3>1, <3>2, Zenon
  <2>5. Begins(b, a)
    BY <1>2, <2>3, <2>4, SMTT(30) DEF Begins
  <2>6. QED
    BY <2>5 DEF b
<1>3. QED
  BY <1>1, <1>2, Zenon

\* What follows OP_REP_IMPORT is as many words as the entry and the tree take.
LEMMA PayloadType == PayloadStream \in Seq([msg : {Payload}, at : Nat])
                     /\ Len(PayloadStream) = EntryWords + TreeWords
<1> DEFINE n == EntryWords + TreeWords
           W == [msg : {Payload}, at : Nat]
<1>1. n \in Nat
  BY FramingAssumption
<1>2. PayloadStream \in [1..n -> W]
  <2>1. \A i \in 1..n : [msg |-> Payload, at |-> i] \in W
    BY <1>1
  <2> HIDE DEF W
  <2>2. QED
    BY <2>1, Zenon DEF PayloadStream
<1> HIDE DEF W, n
<1>3. PayloadStream \in Seq(W) /\ Len(PayloadStream) = n
  <2> HIDE DEF PayloadStream
  <2>1. QED
    BY <1>1, <1>2
<1>4. QED
  BY <1>3, SMTT(30) DEF W, n

\* Words of messages and of what comes before the first of them.
AnyWord == Word \cup [msg : {Payload}, at : Nat]

\* The words of a stream are of these two kinds.
LEMMA AsAnyWords ==
  /\ \A s \in Seq(Word) : s \in Seq(AnyWord)
  /\ PayloadStream \in Seq(AnyWord)
<1> DEFINE P == [msg : {Payload}, at : Nat]
<1>1. PayloadStream \in Seq(P)
  BY PayloadType
<1>2. Word \subseteq AnyWord /\ P \subseteq AnyWord
  BY DEF AnyWord
<1> HIDE DEF P
<1>3. \A s \in Seq(P) : s \in Seq(AnyWord)
  BY <1>2
<1>4. \A s \in Seq(Word) : s \in Seq(AnyWord)
  BY <1>2
<1>5. QED
  BY <1>1, <1>3, <1>4, ZenonT(30)

\* What the sequences of a state are.
LEMMA FramingTypes ==
  ASSUME FramingInv
  PROVE  /\ sent \in Seq(Messages) /\ written \in Seq(Messages)
         /\ Len(served) \in 0..Len(sent) /\ Len(heard) \in 0..Len(written)
         /\ Len(served) \in Nat /\ Len(sent) \in Nat /\ Len(heard) \in Nat
         /\ Len(written) \in Nat
<1>1. /\ sent \in Seq(Commands) /\ served \in Seq(Commands)
      /\ written \in Seq(Replies) /\ heard \in Seq(Replies)
      /\ Len(served) <= Len(sent) /\ Len(heard) <= Len(written)
  BY DEF FramingInv, Begins
<1>2. Len(served) \in Nat /\ Len(sent) \in Nat /\ Len(heard) \in Nat /\ Len(written) \in Nat
  BY <1>1, SMTT(30)
<1>3. QED
  BY <1>1, <1>2, AsMessages, SMTT(30)

\* A command that is written is the last in transit, with the data its flags call for.
LEMMA SubmitKeeps ==
  ASSUME FlagsAgree, FramingInv, NEW shape \in Shapes, ClientSubmits(shape) PROVE FramingInv'
<1> DEFINE m == [command |-> "CMD_SUBMIT", id |-> Len(sent) + 1,
                 direction |-> shape.direction, in |-> shape.in,
                 length |-> shape.length,
                 data |-> IF shape.direction = 0 THEN shape.length ELSE 0]
<1>1. /\ cpc = "urb" /\ sent' = Append(sent, m) /\ c2s' = c2s \o Words(m)
      /\ UNCHANGED <<clientImpl, serverImpl, cpc, spc, s2c, served, batched, written,
                     heard>>
  BY DEF ClientSubmits
<1>2. m \in Commands
  <2>1. shape.direction \in {0, 1} /\ shape.in \in BOOLEAN /\ shape.length \in Nat
    BY FramingAssumption
  <2>2. shape.in = (shape.direction = 1)
    <3>1. shape.in <=> shape.direction = 1
      BY DEF FlagsAgree
    <3>2. QED
      BY <2>1, <3>1, ZenonT(30)
  <2>3. Len(sent) + 1 \in Nat
    BY FramingTypes
  <2> DEFINE id == Len(sent) + 1
             d == shape.direction
             l == shape.length
  <2>4. m = Command(id, d, l)
    BY <2>2, ZenonT(30) DEF Command
  <2> HIDE DEF m, id, d, l
  <2>5. id \in Nat /\ d \in {0, 1} /\ l \in Nat
    BY <2>1, <2>3, SMTT(30) DEF id, d, l
  <2>6. QED
    BY <2>4, <2>5, SMTT(30) DEF Commands
<1> HIDE DEF m
<1>3. m \in Messages
  BY <1>2, Zenon DEF Messages
<1>4. c2s' = Transit(sent', Len(served'))
  <2>1. Transit(Append(sent, m), Len(served)) = Transit(sent, Len(served)) \o Words(m)
    BY <1>3, FramingTypes, TransitAppend, Zenon
  <2>2. QED
    BY <1>1, <2>1, SMTT(30) DEF FramingInv
<1>5. sent' \in Seq(Commands) /\ Begins(served', sent')
  <2>1. sent \in Seq(Commands) /\ served \in Seq(Commands) /\ Begins(served, sent)
    BY DEF FramingInv
  <2>2. Append(sent, m) \in Seq(Commands)
    BY <1>2, <2>1
  <2>3. Begins(served, Append(sent, m))
    BY <1>2, <2>1, BeginsMore, Zenon
  <2>4. QED
    BY <1>1, <2>2, <2>3, Zenon
<1>6. ToClient'
  BY <1>1, Zenon DEF FramingInv, ToClient
<1>7. QED
  BY <1>1, <1>4, <1>5, <1>6, Zenon DEF FramingInv

\* The server reads the oldest command in transit, and all of it.
LEMMA ServeKeeps == ASSUME FramingInv, ServerReads PROVE FramingInv'
<1> DEFINE d == Len(served)
           m == sent[d + 1]
           t == Transit(sent, d + 1)
<1>1. /\ spc = "urb" /\ CanRead(c2s, ServerSize)
      /\ UNCHANGED <<clientImpl, serverImpl, cpc, s2c, sent, batched, written, heard>>
  BY DEF ServerReads
<1>2. d + 1 \in 1..Len(sent)
  <2> SUFFICES ASSUME Len(served) = Len(sent) PROVE FALSE
    BY FramingTypes, SMTT(30)
  <2>1. c2s = <<>>
    BY FramingTypes, TransitNone, Zenon DEF FramingInv
  <2>2. Len(c2s) = 0
    BY <2>1, Zenon
  <2>3. Wanted(c2s, ServerSize) = 2
    BY <2>2, SMTT(30) DEF Wanted, HeaderWords
  <2>4. QED
    BY <1>1, <2>2, <2>3, SMTT(30) DEF CanRead
<1>3. m \in Commands
  BY <1>2, ElementOfSeq, Zenon DEF FramingInv
<1>4. c2s = Words(m) \o t
  <2>1. Transit(sent, d) = Words(m) \o t
    BY <1>2, FramingTypes, TransitHead, SMTT(30)
  <2>2. QED
    BY <2>1 DEF FramingInv
<1>5. t \in Seq(Word)
  <2>1. d + 1 \in 0..Len(sent)
    BY <1>2, FramingTypes, SMTT(30)
  <2>2. QED
    BY <2>1, FramingTypes, TransitType, Zenon
<1> HIDE DEF m, t
<1>6. /\ Rest(c2s, Wanted(c2s, ServerSize)) = t
      /\ CommandAt(c2s[1]) = "CMD_SUBMIT" /\ c2s[1].msg = m
  BY <1>3, <1>4, <1>5, ServerTakes, Zenon
<1>7. c2s' = t /\ served' = Append(served, m) /\ spc' = "execute"
  BY <1>6, Zenon DEF ServerReads
<1>8. /\ served' \in Seq(Commands) /\ Len(served') = d + 1 /\ served' # <<>>
  <2>1. served \in Seq(Commands)
    BY DEF FramingInv
  <2>2. QED
    BY <1>3, <1>7, <2>1
<1>9. Begins(served', sent')
  <2>1. sent \in Seq(Commands) /\ served \in Seq(Commands) /\ Begins(served, sent)
    BY DEF FramingInv
  <2>2. Len(served) + 1 <= Len(sent)
    BY <1>2
  <2>3. Begins(Append(served, sent[Len(served) + 1]), sent)
    BY <2>1, <2>2, BeginsMore, Zenon
  <2>4. QED
    BY <1>1, <1>7, <2>3, SMTT(30) DEF m
<1>10. c2s' = Transit(sent', Len(served'))
  BY <1>1, <1>7, <1>8, Zenon DEF t
<1>11. ToClient'
  <2>1. spc # "reply" /\ spc' # "reply"
    BY <1>1, <1>7, Zenon
  <2>2. QED
    BY <1>1, <2>1, Zenon DEF FramingInv, ToClient
<1>12. QED
  BY <1>1, <1>7, <1>8, <1>9, <1>10, <1>11, Zenon DEF FramingInv

\* A transfer's reply is one whose data the client expects.
LEMMA RepliesAreSized ==
  ASSUME FramingInv, spc = "execute", NEW st \in {0, 1}, NEW n \in Nat, st # 0 => n = 0
  PROVE  RetSubmit(st, n) \in Replies
<1> DEFINE e == Executing
<1>1. e \in Commands
  <2>1. served \in Seq(Commands) /\ served # <<>>
    BY DEF FramingInv
  <2>2. Len(served) \in 1..Len(served)
    BY <2>1, SMTT(30)
  <2>3. QED
    BY <2>1, <2>2, ElementOfSeq, Zenon DEF Executing
<1>2. e.direction \in {0, 1} /\ e.in = (e.direction = 1) /\ e.id \in Nat
  BY <1>1, CommandFacts, Zenon
<1>3. TransfersIn <=> e.direction # 0
  <2>1. e.in <=> e.direction # 0
    <3>1. 0 # 1
      OBVIOUS
    <3>2. QED
      BY <1>2, <3>1, ZenonT(30)
  <2>2. QED
    BY <2>1, Zenon DEF TransfersIn, IsIn
<1> DEFINE d == e.direction
           data == IF TransfersIn THEN n ELSE 0
<1>4. data = IF st = 0 /\ d # 0 /\ n > 0 THEN n ELSE 0
  <2>1. CASE d = 0
    <3>1. ~TransfersIn
      BY <1>3, <2>1, Zenon
    <3>2. QED
      BY <2>1, <3>1, SMTT(30)
  <2>2. CASE d # 0
    <3>1. TransfersIn
      BY <1>3, <2>2
    <3>2. data = n
      BY <3>1
    <3> HIDE DEF data
    <3>3. (st = 0 /\ n > 0) \/ n = 0
      OBVIOUS
    <3>4. QED
      BY <2>2, <3>2, <3>3, SMTT(30)
  <2>3. QED
    BY <2>1, <2>2, SMTT(30)
<1>5. RetSubmit(st, n) = Reply(e.id, d, st, n)
  BY <1>4, Zenon DEF RetSubmit, Reply
<1>6. QED
  <2> DEFINE id == e.id
             dir == e.direction
  <2>1. RetSubmit(st, n) = Reply(id, dir, st, n) /\ id \in Nat /\ dir \in {0, 1}
    BY <1>2, <1>5, SMTT(30)
  <2> HIDE DEF id, dir
  <2>2. QED
    BY <2>1, SMTT(30) DEF Replies

\* A reply that is written is the last in transit, with the data its reader expects.
LEMMA WriteReplyKeeps ==
  ASSUME FramingInv, NEW m \in Replies, WriteReply(m), spc # "reply",
         spc' \in {"urb", "write"}, batched' \in Seq(Replies),
         UNCHANGED <<clientImpl, serverImpl, cpc, c2s, sent, served, heard>>
  PROVE  FramingInv'
<1>1. /\ spc # "reply" /\ spc' # "reply" /\ spc' # "execute"
      /\ spc' \in {"reply", "urb", "execute", "write"}
      /\ UNCHANGED <<clientImpl, serverImpl, cpc, c2s, sent, served, heard>>
  BY Zenon
<1>3. m \in Replies
  OBVIOUS
<1>4. m \in Messages
  BY <1>3 DEF Messages
<1>5. written' = Append(written, m) /\ s2c' = s2c \o Words(m)
  BY DEF WriteReply
<1>6. written' \in Seq(Replies) /\ Begins(heard', written')
  <2>1. written \in Seq(Replies) /\ heard \in Seq(Replies) /\ Begins(heard, written)
    BY DEF FramingInv
  <2>2. Append(written, m) \in Seq(Replies)
    BY <1>3, <2>1, SMTT(30)
  <2>3. Begins(heard, Append(written, m))
    BY <1>3, <2>1, BeginsMore, Zenon
  <2>4. QED
    BY <1>1, <1>5, <2>2, <2>3, Zenon
<1>7. ASSUME NEW d \in 0..Len(written)
      PROVE  Transit(written', d) = Transit(written, d) \o Words(m)
  BY <1>4, <1>5, <1>7, FramingTypes, TransitAppend, Zenon
<1>8. cpc = "urb" => s2c' = Transit(written', Len(heard'))
  BY <1>1, <1>5, <1>7, FramingTypes, Zenon DEF FramingInv, ToClient
<1>9. cpc = "payload" => s2c' = PayloadStream \o Transit(written', 0)
  <2> SUFFICES ASSUME cpc = "payload" PROVE s2c' = PayloadStream \o Transit(written', 0)
    OBVIOUS
  <2>1. 0 \in 0..Len(written)
    BY FramingTypes, SMTT(30)
  <2> DEFINE p == PayloadStream
             t == Transit(written, 0)
             w == Words(m)
  <2>2. s2c = p \o t
    BY <1>1, Zenon DEF FramingInv, ToClient
  <2>3. p \in Seq(AnyWord) /\ t \in Seq(AnyWord) /\ w \in Seq(AnyWord)
    <3>1. t \in Seq(Word)
      BY <2>1, FramingTypes, TransitType, SMTT(30)
    <3>2. w \in Seq(Word)
      BY <1>4, WordsType, Zenon
    <3> HIDE DEF t, w
    <3>3. QED
      BY <3>1, <3>2, AsAnyWords, Zenon
  <2>4. Transit(written', 0) = t \o w
    BY <1>7, <2>1, Zenon
  <2> HIDE DEF p, t, w
  <2>5. (p \o t) \o w = p \o (t \o w)
    BY <2>3, ThreeSeqs, SMTT(30)
  <2>6. QED
    BY <1>5, <2>2, <2>4, <2>5, Zenon DEF p, w
<1>10. ToClient'
  BY <1>1, <1>8, <1>9, Zenon DEF FramingInv, ToClient
<1>11. QED
  BY <1>1, <1>6, <1>10, ZenonT(30) DEF FramingInv

\* The Android server writes a reply at once,
LEMMA ReplyKeeps == ASSUME FramingInv, ServerReplies PROVE FramingInv'
<1>1. /\ spc = "execute" /\ spc' = "urb" /\ batched' = batched
      /\ UNCHANGED <<clientImpl, serverImpl, cpc, c2s, sent, served, heard>>
  BY SMTT(30) DEF ServerReplies
<1>2. PICK st \in {0, 1}, n \in 0..MaxActual :
        (st # 0 => n = 0) /\ WriteReply(RetSubmit(st, n))
  BY Zenon DEF ServerReplies
<1> DEFINE m == RetSubmit(st, n)
<1>3. m \in Replies
  <2>1. n \in Nat
    OBVIOUS
  <2>2. QED
    BY <1>1, <1>2, <2>1, RepliesAreSized
<1>4. WriteReply(m)
  BY <1>2
<1> HIDE DEF m
<1>5. /\ spc # "reply" /\ spc' \in {"urb", "write"} /\ batched' \in Seq(Replies)
  BY <1>1, Zenon DEF FramingInv
<1>6. QED
  BY <1>1, <1>3, <1>4, <1>5, WriteReplyKeeps, Zenon

\* the Rust server pushes it,
LEMMA PushKeeps == ASSUME FramingInv, ServerPushes PROVE FramingInv'
<1>1. /\ spc = "execute" /\ spc' \in {"urb", "write"}
      /\ UNCHANGED <<clientImpl, serverImpl, cpc, c2s, s2c, sent, served, written, heard>>
  BY Zenon DEF ServerPushes
<1>2. batched' \in Seq(Replies)
  <2>1. batched \in Seq(Replies)
    BY Zenon DEF FramingInv
  <2>2. CASE UNCHANGED batched
    BY <2>1, <2>2, Zenon
  <2>3. ASSUME NEW st \in {0, 1}, NEW n \in 0..MaxActual, st # 0 => n = 0,
               batched' = Append(batched, RetSubmit(st, n))
        PROVE  batched' \in Seq(Replies)
    <3> DEFINE m == RetSubmit(st, n)
    <3>1. m \in Replies
      <4>1. n \in Nat
        OBVIOUS
      <4>2. QED
        BY <1>1, <2>3, <4>1, RepliesAreSized
    <3>2. batched' = Append(batched, m)
      BY <2>3
    <3> HIDE DEF m
    <3>3. QED
      BY <2>1, <3>1, <3>2, SMTT(30)
  <2>4. QED
    BY <2>2, <2>3, Zenon DEF ServerPushes
<1>3. ToClient'
  BY <1>1, Zenon DEF FramingInv, ToClient
<1>4. spc' \in {"reply", "urb", "execute", "write"} /\ spc' # "execute"
  BY <1>1, Zenon
<1>5. QED
  BY <1>1, <1>2, <1>3, <1>4, Zenon DEF FramingInv

\* and writes the batch, oldest reply first.
LEMMA FlushKeeps == ASSUME FramingInv, ServerFlushes PROVE FramingInv'
<1>1. /\ spc = "write"
      /\ UNCHANGED <<clientImpl, serverImpl, cpc, c2s, sent, served, heard>>
  BY Zenon DEF ServerFlushes
<1>2. batched \in Seq(Replies)
  BY Zenon DEF FramingInv
<1>3. CASE batched = <<>>
  <2>1. spc' = "urb" /\ UNCHANGED <<batched, written, s2c>>
    BY <1>3, Zenon DEF ServerFlushes
  <2>2. ToClient'
    BY <1>1, <2>1, Zenon DEF FramingInv, ToClient
  <2>3. QED
    BY <1>1, <2>1, <2>2, Zenon DEF FramingInv
<1>4. CASE batched # <<>>
  <2>1. /\ WriteReply(Head(batched)) /\ batched' = Tail(batched) /\ UNCHANGED spc
    BY <1>4, Zenon DEF ServerFlushes
  <2>2. Head(batched) \in Replies /\ Tail(batched) \in Seq(Replies)
    BY <1>2, <1>4, SMTT(30)
  <2> DEFINE m == Head(batched)
  <2>3. m \in Replies /\ WriteReply(m)
    BY <2>1, <2>2
  <2> HIDE DEF m
  <2>4. spc # "reply" /\ spc' \in {"urb", "write"} /\ batched' \in Seq(Replies)
    BY <1>1, <2>1, <2>2, Zenon
  <2>5. QED
    BY <1>1, <2>3, <2>4, WriteReplyKeeps, Zenon
<1>5. QED
  BY <1>3, <1>4

\* The client reads the oldest reply in transit, and all of it.
LEMMA HearKeeps == ASSUME FramingInv, ClientReads PROVE FramingInv'
<1> DEFINE d == Len(heard)
           m == written[d + 1]
           t == Transit(written, d + 1)
<1>1. /\ cpc = "urb" /\ CanRead(s2c, WireData)
      /\ s2c' = Rest(s2c, Wanted(s2c, WireData))
      /\ heard' = Append(heard, s2c[1].msg)
      /\ UNCHANGED <<clientImpl, serverImpl, cpc, spc, c2s, sent, served, batched,
                     written>>
  BY Zenon DEF ClientReads
<1>2. s2c = Transit(written, d)
  BY <1>1, Zenon DEF FramingInv, ToClient
<1>3. d + 1 \in 1..Len(written)
  <2> SUFFICES ASSUME Len(heard) = Len(written) PROVE FALSE
    BY FramingTypes
  <2>1. s2c = <<>>
    BY <1>2, FramingTypes, TransitNone, Zenon
  <2>2. Len(s2c) = 0
    BY <2>1
  <2>3. Wanted(s2c, WireData) = 2
    BY <2>2, SMTT(30) DEF Wanted, HeaderWords
  <2>4. QED
    BY <1>1, <2>2, <2>3 DEF CanRead
<1>4. m \in Replies
  BY <1>3, ElementOfSeq, Zenon DEF FramingInv
<1>5. s2c = Words(m) \o t
  BY <1>2, <1>3, FramingTypes, TransitHead, ZenonT(30)
<1>6. t \in Seq(Word)
  <2>1. d + 1 \in 0..Len(written)
    BY <1>3, FramingTypes
  <2>2. QED
    BY <2>1, FramingTypes, TransitType
<1> HIDE DEF m, t
<1>7. Rest(s2c, Wanted(s2c, WireData)) = t /\ s2c[1].msg = m
  BY <1>4, <1>5, <1>6, ClientTakes, Zenon
<1>8. s2c' = t /\ heard' = Append(heard, m)
  BY <1>1, <1>7
<1>9. heard' \in Seq(Replies) /\ Len(heard') = d + 1
  <2>1. heard \in Seq(Replies)
    BY SMTT(30) DEF FramingInv
  <2>2. QED
    BY <1>4, <1>8, <2>1, SMTT(30)
<1>10. Begins(heard', written')
  <2>1. written \in Seq(Replies) /\ heard \in Seq(Replies) /\ Begins(heard, written)
    BY Zenon DEF FramingInv
  <2>2. Len(heard) + 1 <= Len(written)
    BY <1>3
  <2>3. Begins(Append(heard, written[Len(heard) + 1]), written)
    BY <2>1, <2>2, BeginsMore
  <2>4. QED
    BY <1>1, <1>8, <2>3, Zenon DEF m
<1>11. s2c' = Transit(written', Len(heard'))
  BY <1>1, <1>8, <1>9, Zenon DEF t
<1>12. ToClient'
  BY <1>1, <1>11, Zenon DEF FramingInv, ToClient
<1>13. QED
  BY <1>1, <1>9, <1>10, <1>12, Zenon DEF FramingInv

\* What follows OP_REP_IMPORT is written before any reply,
LEMMA WritePayloadKeeps == ASSUME FramingInv, ServerWritesPayload PROVE FramingInv'
<1>1. /\ spc = "reply" /\ spc' = "urb" /\ s2c' = s2c \o PayloadStream
      /\ UNCHANGED <<clientImpl, serverImpl, cpc, c2s, sent, served, batched, written,
                     heard>>
  BY Zenon DEF ServerWritesPayload
<1>2. written = <<>>
  BY <1>1 DEF FramingInv, ToClient
<1>3. <<>> \in Seq(Messages) /\ Len(<<>>) = 0
  OBVIOUS
<1>4. Transit(<<>>, 0) = <<>>
  BY <1>3, TransitNone, Zenon
<1> DEFINE p == PayloadStream
<1>5. p \in Seq(AnyWord)
  BY AsAnyWords
<1>6. <<>> \o p = p /\ p \o <<>> = p
  <2> HIDE DEF p
  <2>1. QED
    BY <1>5, ConcatEmptySeq, Zenon
<1>7. CASE cpc = "payload"
  <2>1. s2c = <<>>
    BY <1>1, <1>7 DEF FramingInv, ToClient
  <2>2. s2c' = p \o Transit(written', 0)
    BY <1>1, <1>2, <1>4, <1>6, <2>1, Zenon
  <2>3. ToClient'
    BY <1>1, <1>7, <2>2, Zenon DEF FramingInv, ToClient
  <2>4. QED
    BY <1>1, <2>3, Zenon DEF FramingInv
<1>8. CASE cpc = "urb"
  <2>1. Len(p) = 0
    BY <1>1, <1>8, PayloadType DEF FramingInv, ToClient
  <2>2. p = <<>>
    <3> HIDE DEF p
    <3>1. QED
      BY <1>5, <2>1
  <2>3. heard = <<>>
    <3>1. heard \in Seq(Replies) /\ Len(heard) = 0
      BY <1>2, FramingTypes DEF FramingInv
    <3>2. QED
      BY <3>1
  <2>4. s2c = <<>>
    BY <1>2, <1>3, <1>4, <1>8, <2>3, Zenon DEF FramingInv, ToClient
  <2>5. s2c' = s2c
    BY <1>1, <1>6, <2>2, <2>4, Zenon
  <2>6. ToClient'
    BY <1>1, <1>8, <2>5 DEF FramingInv, ToClient
  <2>7. QED
    BY <1>1, <2>6 DEF FramingInv
<1>9. QED
  BY <1>7, <1>8, Zenon DEF FramingInv

\* and read before any.
LEMMA ReadPayloadKeeps == ASSUME FramingInv, ClientReadsPayload PROVE FramingInv'
<1> DEFINE n == EntryWords + TreeWords
           p == PayloadStream
           t == Transit(written, 0)
<1>1. /\ cpc = "payload" /\ Len(s2c) >= PayloadRead /\ cpc' = "urb"
      /\ s2c' = Rest(s2c, PayloadRead)
      /\ UNCHANGED <<clientImpl, serverImpl, spc, c2s, sent, served, batched, written,
                     heard>>
  BY DEF ClientReadsPayload
<1>2. PayloadRead = n
  BY DEF FramingInv, PayloadRead
<1>3. n \in Nat
  BY FramingAssumption
<1>4. heard = <<>> /\ Len(heard) = 0
  BY <1>1, Zenon DEF FramingInv, ToClient
<1>5. CASE spc = "reply"
  <2>1. s2c = <<>> /\ written = <<>>
    BY <1>1, <1>5 DEF FramingInv, ToClient
  <2>2. n = 0
    <3>1. Len(s2c) = 0
      BY <2>1
    <3> HIDE DEF n
    <3>2. QED
      BY <1>1, <1>2, <1>3, <3>1
  <2>3. Rest(<<>>, 0) = <<>>
    <3>1. SubSeq(<<>>, 1, 0) = <<>>
      OBVIOUS
    <3>2. QED
      BY <3>1 DEF Rest
  <2>4. Transit(<<>>, 0) = <<>>
    <3>1. <<>> \in Seq(Messages) /\ Len(<<>>) = 0
      OBVIOUS
    <3>2. QED
      BY <3>1, TransitNone, Zenon
  <2>5. s2c' = <<>>
    BY <1>1, <1>2, <2>1, <2>2, <2>3, Zenon
  <2>6. ToClient'
    BY <1>1, <1>4, <2>1, <2>2, <2>4, <2>5, Zenon DEF FramingInv, ToClient
  <2>7. QED
    BY <1>1, <2>6, Zenon DEF FramingInv
<1>6. CASE spc # "reply"
  <2>1. s2c = p \o t
    BY <1>1, <1>6, Zenon DEF FramingInv, ToClient
  <2>2. p \in Seq(AnyWord) /\ t \in Seq(AnyWord) /\ Len(p) = n
    <3>1. t \in Seq(Word)
      <4>1. 0 \in 0..Len(written)
        BY FramingTypes
      <4>2. QED
        BY <4>1, FramingTypes, TransitType, Zenon
    <3> HIDE DEF t
    <3>2. QED
      BY <3>1, AsAnyWords, PayloadType, Zenon
  <2> HIDE DEF p, t, n
  <2>3. SubSeq(p \o t, Len(p) + 1, Len(p \o t)) = t
    BY <2>2, DropFront, Zenon
  <2>4. s2c' = t
    BY <1>1, <1>2, <2>1, <2>2, <2>3, Zenon DEF Rest
  <2>5. s2c' = Transit(written', Len(heard'))
    BY <1>1, <1>4, <2>4, Zenon DEF t
  <2>6. ToClient'
    BY <1>1, <1>4, <1>6, <2>5 DEF FramingInv, ToClient
  <2>7. QED
    BY <1>1, <2>6 DEF FramingInv
<1>7. QED
  BY <1>5, <1>6

\* Every step keeps the invariant, for any number and size of commands.
THEOREM FramingInvariance ==
  ASSUME FlagsAgree, WireClient PROVE FramingSpec => []FramingInv
<1>1. FramingInv /\ [FramingNext]_framingVars => FramingInv'
  <2> SUFFICES ASSUME FramingInv, [FramingNext]_framingVars PROVE FramingInv'
    OBVIOUS
  <2>1. ASSUME UNCHANGED framingVars PROVE FramingInv'
    BY <2>1, Zenon DEF framingVars, FramingInv, ToClient
  <2>2. QED
    BY <2>1, SubmitKeeps, ServeKeeps, ReplyKeeps, PushKeeps, FlushKeeps, HearKeeps, WritePayloadKeeps,
       ReadPayloadKeeps, Zenon DEF FramingNext
<1>2. FramingInit => FramingInv
  BY InitFraming
<1>3. QED
  BY <1>1, <1>2, PTL DEF FramingSpec

-----------------------------------------------------------------------------
(***************************************************************************)
(* CryptoTunnel                                                            *)
(***************************************************************************)
\* The two sides.
LEMMA TwoSides ==
  ASSUME NEW s \in Side
  PROVE  /\ Other(s) \in Side /\ Other(s) # s /\ Other(Other(s)) = s
         /\ Side = {s, Other(s)}
         /\ \A r \in Side : r = s \/ r = Other(s)
<1>1. \E o \in Side : o # s
  BY DEF Side
<1>2. Other(s) \in Side /\ Other(s) # s
  BY <1>1, Zenon DEF Other
<1>3. Other(Other(s)) \in Side /\ Other(Other(s)) # Other(s)
  <2>1. \E o \in Side : o # Other(s)
    BY <1>2, Zenon
  <2>2. QED
    BY <2>1, Zenon DEF Other
<1>4. QED
  BY <1>2, <1>3, Zenon DEF Side

\* Where the exchange is: which public keys a side has written and read.  A key is
\* derived from both.
Exchanged ==
    \A s \in Side : /\ step[s] >= 1 => s \in pub
                    /\ step[s] >= 2 => Other(s) \in pub
                    /\ step[s] = 3 => key[s] = Side

\* The frame of a message.
FrameOf(n) == [len |-> Encrypted(n), key |-> Side]

\* What s has written is what the other side has read, and the frames on their way.
Carried(s) ==
    LET o == Other(s)
    IN  /\ frames[s] \in Seq({FrameOf(n) : n \in Lengths})
        /\ Len(in[o]) + Len(frames[s]) = Len(out[s])
        /\ \A i \in 1..Len(in[o]) : in[o][i] = out[s][i]
        /\ \A i \in 1..Len(frames[s]) : frames[s][i] = FrameOf(out[s][Len(in[o]) + i])

\* A side that has stopped was sent a message too long.
TooLong(s) == s \in ended => \E i \in 1..Len(out[Other(s)]) : out[Other(s)][i] + 8 > MaxMessage

TunnelInv ==
    /\ TunnelTypeOK /\ Exchanged
    /\ frames \in [Side -> Seq({FrameOf(n) : n \in Lengths})]
    /\ \A s \in Side : Carried(s) /\ TooLong(s)

\* The inductive invariant says what is promised of the tunnel.
LEMMA CarriesFollows == TunnelInv => TunnelCarries
<1> SUFFICES ASSUME TunnelInv, NEW s \in Side
             PROVE  /\ IsPrefix(in[s], out[Other(s)])
                    /\ s \in ended => \E i \in 1..Len(out[Other(s)]) :
                                         out[Other(s)][i] + 8 > MaxMessage
  BY DEF TunnelCarries
<1>1. Other(s) \in Side /\ Other(Other(s)) = s
  BY TwoSides, Zenon
<1> DEFINE u == in[s]
           v == out[Other(s)]
           f == frames[Other(s)]
<1>2. u \in Seq(Lengths) /\ v \in Seq(Lengths) /\ f \in Seq({FrameOf(n) : n \in Lengths})
  BY <1>1 DEF TunnelInv, TunnelTypeOK
<1>3. Len(u) + Len(f) = Len(v) /\ \A i \in 1..Len(u) : u[i] = v[i]
  <2>1. Carried(Other(s))
    BY <1>1 DEF TunnelInv
  <2>2. QED
    BY <1>1, <2>1, Zenon DEF Carried
<1> HIDE DEF u, v, f
<1>4. Len(u) \in Nat /\ Len(f) \in Nat /\ Len(v) \in Nat
  BY <1>2
<1>5. Len(u) <= Len(v)
  BY <1>3, <1>4
<1>6. IsPrefix(u, v)
  BY <1>2, <1>3, <1>5, PrefixBy, Zenon
<1>7. QED
  BY <1>6, Zenon DEF u, v, TunnelInv, TooLong

\* Nothing is on its way at the start.
LEMMA InitTunnel == TunnelInit => TunnelInv
<1> SUFFICES ASSUME TunnelInit PROVE TunnelInv
  OBVIOUS
<1>1. <<>> \in Seq(Lengths) /\ <<>> \in Seq({FrameOf(n) : n \in Lengths}) /\ Len(<<>>) = 0
  OBVIOUS
<1>2. TunnelTypeOK
  BY <1>1 DEF TunnelInit, TunnelTypeOK
<1>3. Exchanged
  BY DEF TunnelInit, Exchanged
<1>4. ASSUME NEW s \in Side PROVE Carried(s) /\ TooLong(s)
  <2>1. Other(s) \in Side
    BY TwoSides
  <2>2. in[Other(s)] = <<>> /\ out[s] = <<>> /\ frames[s] = <<>> /\ s \notin ended
    BY <2>1, Zenon DEF TunnelInit
  <2>3. \A i : i \notin 1..0
    OBVIOUS
  <2>4. QED
    BY <1>1, <2>2, <2>3 DEF Carried, TooLong
<1>5. frames \in [Side -> Seq({FrameOf(n) : n \in Lengths})]
  BY <1>1, Zenon DEF TunnelInit
<1>6. QED
  BY <1>2, <1>3, <1>4, <1>5 DEF TunnelInv

\* A step of the key exchange.
LEMMA ExchangeKeeps ==
  ASSUME TunnelInv, NEW s \in Side, ExchangeStep(s) PROVE TunnelInv'
<1>1. /\ step[s] \in 0..3 /\ step[s] < 3 /\ step \in [Side -> 0..3]
      /\ step' = [step EXCEPT ![s] = step[s] + 1]
      /\ key \in [Side -> SUBSET Side] /\ pub \subseteq Side
  BY Zenon DEF TunnelInv, TunnelTypeOK, ExchangeStep
<1>2. /\ step' \in [Side -> 0..3] /\ step'[s] = step[s] + 1 /\ step'[s] \in 1..3
      /\ \A r \in Side : r # s => step'[r] = step[r]
  BY <1>1
<1>3. /\ step'[s] = 1 => Exchange[step'[s]] = "write"
      /\ step'[s] = 2 => Exchange[step'[s]] = "read"
      /\ step'[s] = 3 => Exchange[step'[s]] = "derive"
  BY DEF Exchange
<1>4. /\ step'[s] = 1 => pub' = pub \cup {s} /\ key' = key
      /\ step'[s] = 2 => Other(s) \in pub /\ pub' = pub /\ key' = key
      /\ step'[s] = 3 => key' = [key EXCEPT ![s] = pub] /\ pub' = pub
  BY <1>3, Zenon DEF ExchangeStep, SessionKey
<1>5. UNCHANGED <<frames, out, in, ended>>
  BY DEF ExchangeStep
<1>6. step'[s] = 3 => pub = Side
  <2> SUFFICES ASSUME step'[s] = 3 PROVE pub = Side
    BY Zenon
  <2>1. step[s] = 2
    BY <1>1, <1>2
  <2>2. s \in pub /\ Other(s) \in pub
    BY <2>1 DEF TunnelInv, Exchanged
  <2>3. \A r \in Side : r \in pub
    BY <2>2, TwoSides, Zenon
  <2>4. QED
    BY <1>1, <2>3, Zenon
<1>7. TunnelTypeOK'
  <2>1. pub' \subseteq Side /\ key' \in [Side -> SUBSET Side]
    BY <1>1, <1>2, <1>4
  <2>2. QED
    BY <1>2, <1>5, <2>1, Zenon DEF TunnelInv, TunnelTypeOK
<1>8. Exchanged'
  <2> SUFFICES ASSUME NEW r \in Side
               PROVE  /\ step'[r] >= 1 => r \in pub'
                      /\ step'[r] >= 2 => Other(r) \in pub'
                      /\ step'[r] = 3 => key'[r] = Side
    BY Zenon DEF Exchanged
  <2>1. pub \subseteq pub' /\ (r # s => key'[r] = key[r]) /\ (step'[s] = 3 => key'[s] = pub)
    BY <1>1, <1>2, <1>4
  <2>2. /\ step[r] >= 1 => r \in pub
        /\ step[r] >= 2 => Other(r) \in pub
        /\ step[r] = 3 => key[r] = Side
    BY Zenon DEF TunnelInv, Exchanged
  <2>3. CASE r # s
    BY <1>2, <2>1, <2>2, <2>3, Zenon
  <2>4. CASE r = s
    <3>1. step'[s] = 1 \/ step'[s] = 2 \/ step'[s] = 3
      BY <1>2
    <3>2. step'[s] >= 2 => step[s] >= 1
      BY <1>1, <1>2
    <3>3. s \in pub'
      <4>1. CASE step'[s] = 1
        BY <1>4, <4>1, Zenon
      <4>2. CASE step'[s] = 2 \/ step'[s] = 3
        <5>1. step[s] >= 1
          BY <3>2, <4>2
        <5>2. QED
          BY <2>1, <2>2, <2>4, <5>1, Zenon
      <4>3. QED
        BY <3>1, <4>1, <4>2, Zenon
    <3>4. step'[s] >= 2 => Other(s) \in pub'
      <4>1. step'[s] = 3 => step[s] >= 2
        BY <1>1, <1>2
      <4>2. step'[s] = 1 => ~(step'[s] >= 2)
        OBVIOUS
      <4>3. CASE step'[s] = 2
        BY <1>4, <4>3, Zenon
      <4>4. CASE step'[s] = 3
        BY <2>1, <2>2, <2>4, <4>1, <4>4, Zenon
      <4>5. QED
        BY <3>1, <4>2, <4>3, <4>4, Zenon
    <3>5. QED
      BY <1>6, <2>1, <2>4, <3>3, <3>4, Zenon
  <2>5. QED
    BY <2>3, <2>4, Zenon
<1>9. QED
  BY <1>5, <1>7, <1>8, Zenon DEF TunnelInv, Carried, TooLong

\* A message is written: one more frame, and the messages before it stay.
LEMMA WriteKeeps ==
  ASSUME TunnelInv, NEW s \in Side, NEW n \in Lengths, WriteMessage(s, n) PROVE TunnelInv'
<1> DEFINE F == {FrameOf(m) : m \in Lengths}
           f == frames[s]
           u == out[s]
           d == FrameOf(n)
<1>1. /\ step[s] = 3 /\ s \notin ended
      /\ frames' = [frames EXCEPT ![s] = Append(f, [len |-> Encrypted(n), key |-> key[s]])]
      /\ out' = [out EXCEPT ![s] = Append(u, n)]
      /\ UNCHANGED <<step, key, pub, in, ended>>
  BY DEF WriteMessage
<1>2. key[s] = Side
  BY <1>1, Zenon DEF TunnelInv, Exchanged
<1>3. frames' = [frames EXCEPT ![s] = Append(f, d)]
  BY <1>1, <1>2, Zenon DEF FrameOf
<1>4. frames \in [Side -> Seq(F)] /\ out \in [Side -> Seq(Lengths)]
      /\ in \in [Side -> Seq(Lengths)]
  BY Zenon DEF TunnelInv, TunnelTypeOK
<1>5. d \in F /\ f \in Seq(F) /\ u \in Seq(Lengths)
  BY <1>4, Zenon
<1>6. Append(f, d) \in Seq(F) /\ Append(u, n) \in Seq(Lengths)
  <2> HIDE DEF F, f, d, u
  <2>1. QED
    BY <1>5
<1>7. frames' \in [Side -> Seq(F)] /\ out' \in [Side -> Seq(Lengths)]
  <2> HIDE DEF F, d
  <2>1. QED
    BY <1>1, <1>3, <1>4, <1>6, Zenon
<1>8. TunnelTypeOK' /\ Exchanged'
  BY <1>1, <1>7 DEF TunnelInv, TunnelTypeOK, Exchanged
<1>9. ASSUME NEW r \in Side PROVE Carried(r)' /\ TooLong(r)'
  <2>1. CASE r = s
    <3> DEFINE v == in[Other(s)]
    <3>1. frames'[s] = Append(f, d) /\ out'[s] = Append(u, n)
      BY <1>1, <1>3, <1>4, Zenon
    <3>2. v \in Seq(Lengths)
      BY <1>4, TwoSides, Zenon
    <3>3. /\ Len(v) + Len(f) = Len(u)
          /\ \A i \in 1..Len(v) : v[i] = u[i]
          /\ \A i \in 1..Len(f) : f[i] = FrameOf(u[Len(v) + i])
      BY Zenon DEF TunnelInv, Carried
    <3> DEFINE f1 == Append(f, d)
               u1 == Append(u, n)
    <3>4. /\ Len(f1) = Len(f) + 1 /\ Len(u1) = Len(u) + 1
          /\ \A i \in 1..Len(f) : f1[i] = f[i]
          /\ \A i \in 1..Len(u) : u1[i] = u[i]
          /\ f1[Len(f) + 1] = d /\ u1[Len(u) + 1] = n
          /\ f1 \in Seq(F)
      <4> HIDE DEF F, f, d, u
      <4>1. /\ Len(f1) = Len(f) + 1 /\ f1[Len(f) + 1] = d /\ f1 \in Seq(F)
            /\ \A i \in 1..Len(f) : f1[i] = f[i]
        BY <1>5, AppendProperties
      <4>2. /\ Len(u1) = Len(u) + 1 /\ u1[Len(u) + 1] = n
            /\ \A i \in 1..Len(u) : u1[i] = u[i]
        BY <1>5, AppendProperties
      <4>3. QED
        BY <4>1, <4>2, Zenon
    <3>5. Len(f) \in Nat /\ Len(u) \in Nat /\ Len(v) \in Nat
      BY <1>5, <3>2
    <3> HIDE DEF F, f, u, v, f1, u1
    <3>6. \A i \in 1..Len(v) : v[i] = u1[i]
      <4>1. 1..Len(v) \subseteq 1..Len(u)
        <5>1. Len(v) + Len(f) = Len(u)
          BY <3>3, Zenon
        <5>2. QED
          BY <3>5, <5>1
      <4>2. QED
        BY <3>3, <3>4, <4>1, Zenon
    <3>7. ASSUME NEW i \in 1..Len(f1) PROVE f1[i] = FrameOf(u1[Len(v) + i])
      <4>1. CASE i = Len(f) + 1
        <5>1. Len(v) + i = Len(u) + 1
          <6>1. Len(v) + Len(f) = Len(u)
            BY <3>3
          <6>2. QED
            BY <3>5, <4>1, <6>1
        <5>2. QED
          BY <3>4, <4>1, <5>1, Zenon DEF d
      <4>2. CASE i # Len(f) + 1
        <5>1. Len(v) + Len(f) = Len(u) /\ Len(f1) = Len(f) + 1
          BY <3>3, <3>4, Zenon
        <5>2. i \in 1..Len(f) /\ Len(v) + i \in 1..Len(u)
          BY <3>5, <4>2, <5>1
        <5>3. QED
          BY <3>3, <3>4, <5>2, Zenon
      <4>3. QED
        BY <4>1, <4>2, Zenon
    <3>8. Len(v) + Len(f1) = Len(u1)
      BY <3>3, <3>4, <3>5
    <3>9. Carried(s)'
      <4>1. /\ frames'[s] \in Seq(F)
            /\ Len(in'[Other(s)]) + Len(frames'[s]) = Len(out'[s])
            /\ \A i \in 1..Len(in'[Other(s)]) : in'[Other(s)][i] = out'[s][i]
            /\ \A i \in 1..Len(frames'[s]) :
                 frames'[s][i] = FrameOf(out'[s][Len(in'[Other(s)]) + i])
        BY <1>1, <3>1, <3>4, <3>6, <3>7, <3>8, Zenon DEF v, f1, u1, f, u
      <4>2. QED
        BY <4>1, Zenon DEF Carried, F
    <3>10. TooLong(s)'
      BY <1>1, Zenon DEF TooLong
    <3>11. QED
      BY <2>1, <3>9, <3>10
  <2>2. CASE r # s
    <3>1. frames'[r] = frames[r] /\ out'[r] = out[r] /\ in' = in /\ ended' = ended
      BY <1>1, <1>3, <1>4, <2>2, Zenon
    <3>2. Carried(r)'
      <4>1. Carried(r)
        BY Zenon DEF TunnelInv
      <4>2. QED
        BY <3>1, <4>1, Zenon DEF Carried
    <3>3. TooLong(r)'
      <4>1. out'[Other(r)] = Append(u, n) /\ out[Other(r)] = u
        <5>1. Other(r) = s
          BY <2>2, TwoSides
        <5>2. QED
          BY <1>1, <1>4, <5>1, Zenon
      <4>2. /\ Len(Append(u, n)) = Len(u) + 1 /\ Len(u) \in Nat
            /\ \A i \in 1..Len(u) : Append(u, n)[i] = u[i]
        BY <1>5
      <4>3. \A i \in 1..Len(u) : i \in 1..Len(Append(u, n))
        BY <4>2
      <4> HIDE DEF u
      <4>4. QED
        BY <3>1, <4>1, <4>2, <4>3 DEF TunnelInv, TooLong
    <3>4. QED
      BY <3>2, <3>3
  <2>3. QED
    BY <2>1, <2>2, Zenon
<1>10. QED
  BY <1>7, <1>8, <1>9, ZenonT(30) DEF TunnelInv

\* A frame is read, or refused for its length.
LEMMA ReadKeeps ==
  ASSUME TunnelInv, NEW s \in Side, ReadMessage(s) PROVE TunnelInv'
<1> DEFINE F == {FrameOf(m) : m \in Lengths}
           o == Other(s)
           f == frames[o]
           u == out[o]
           v == in[s]
           n == u[Len(v) + 1]
<1>1. o \in Side /\ Other(o) = s /\ o # s
  BY TwoSides
<1>2. step[s] = 3 /\ s \notin ended /\ f # <<>> /\ UNCHANGED <<step, key, pub, out>>
  BY Zenon DEF ReadMessage
<1>3. key[s] = Side
  BY <1>2, Zenon DEF TunnelInv, Exchanged
<1>4. frames \in [Side -> Seq(F)] /\ out \in [Side -> Seq(Lengths)]
      /\ in \in [Side -> Seq(Lengths)] /\ ended \subseteq Side
  BY Zenon DEF TunnelInv, TunnelTypeOK
<1>5. f \in Seq(F) /\ u \in Seq(Lengths) /\ v \in Seq(Lengths)
  BY <1>1, <1>4, Zenon
<1>6. /\ Len(v) + Len(f) = Len(u)
      /\ \A i \in 1..Len(v) : v[i] = u[i]
      /\ \A i \in 1..Len(f) : f[i] = FrameOf(u[Len(v) + i])
  <2>1. Carried(o)
    BY <1>1 DEF TunnelInv
  <2>2. QED
    BY <1>1, <2>1, Zenon DEF Carried
<1>7. Len(f) \in Nat \ {0} /\ Len(u) \in Nat /\ Len(v) \in Nat /\ Head(f) = f[1]
  <2> HIDE DEF f, u, v, F
  <2>1. QED
    BY <1>2, <1>5
<1>8. Len(v) + 1 \in 1..Len(u) /\ 1 \in 1..Len(f)
  <2> HIDE DEF f, u, v
  <2>1. QED
    BY <1>6, <1>7
<1>9. Head(f) = FrameOf(n) /\ n \in Lengths
  <2> HIDE DEF f, u, v
  <2>1. n \in Lengths
    BY <1>5, <1>8, ElementOfSeq
  <2>2. f[1] = FrameOf(u[Len(v) + 1])
    BY <1>6, <1>8, Zenon
  <2>3. QED
    BY <1>7, <2>1, <2>2, Zenon
<1>10. n \in Nat /\ MaxMessage \in Nat
  <2> HIDE DEF n
  <2>1. QED
    BY <1>9, TunnelAssumption
<1>11. Head(f).len = n + 32 /\ Head(f).key = Side
  <2> HIDE DEF n
  <2>1. QED
    BY <1>9, <1>10 DEF FrameOf, Encrypted
<1>12. Decrypts(s, Head(f))
  BY <1>3, <1>11 DEF Decrypts
<1>13. Encrypted(0) = 32
  BY DEF Encrypted
<1>14. CASE Head(f).len > ENCRYPTED_MAX
  <2>1. ended' = ended \cup {s} /\ UNCHANGED <<frames, in>>
    BY <1>14, Zenon DEF ReadMessage
  <2>2. n + 8 > MaxMessage
    <3> HIDE DEF n
    <3>1. QED
      BY <1>10, <1>11, <1>14 DEF ENCRYPTED_MAX
  <2>3. TunnelTypeOK' /\ Exchanged'
    BY <1>2, <2>1, Zenon DEF TunnelInv, TunnelTypeOK, Exchanged
  <2>4. ASSUME NEW r \in Side PROVE Carried(r)' /\ TooLong(r)'
    <3>1. Carried(r)'
      <4>1. Carried(r)
        BY Zenon DEF TunnelInv
      <4>2. QED
        BY <1>2, <2>1, <4>1, Zenon DEF Carried
    <3>2. TooLong(r)'
      <4>1. CASE r = s
        <5>1. \E i \in 1..Len(u) : u[i] + 8 > MaxMessage
          BY <1>8, <2>2, Zenon
        <5>2. QED
          BY <1>2, <4>1, <5>1, Zenon DEF TooLong
      <4>2. CASE r # s
        BY <1>2, <2>1, <4>2, Zenon DEF TooLong, TunnelInv
      <4>3. QED
        BY <4>1, <4>2
    <3>3. QED
      BY <3>1, <3>2, Zenon
  <2>5. QED
    BY <2>1, <2>3, <2>4, Zenon DEF TunnelInv
<1>15. CASE ~(Head(f).len > ENCRYPTED_MAX)
  <2>1. /\ frames' = [frames EXCEPT ![o] = Tail(f)]
        /\ in' = [in EXCEPT ![s] = Append(v, Head(f).len - Encrypted(0))]
        /\ UNCHANGED ended
    BY <1>12, <1>15, Zenon DEF ReadMessage
  <2>2. Head(f).len - Encrypted(0) = n
    <3> HIDE DEF n
    <3>1. QED
      BY <1>10, <1>11, <1>13
  <2>3. in' = [in EXCEPT ![s] = Append(v, n)]
    BY <2>1, <2>2, ZenonT(30)
  <2> DEFINE f1 == Tail(f)
             v1 == Append(v, n)
  <2>4. /\ f1 \in Seq(F) /\ Len(f1) = Len(f) - 1
        /\ \A i \in 1..Len(f1) : f1[i] = f[i + 1]
    <3> HIDE DEF f, F
    <3>1. QED
      BY <1>2, <1>5
  <2>5. /\ v1 \in Seq(Lengths) /\ Len(v1) = Len(v) + 1
        /\ \A i \in 1..Len(v) : v1[i] = v[i]
        /\ v1[Len(v) + 1] = n
    <3> HIDE DEF v, n
    <3>1. QED
      BY <1>5, <1>9
  <2> HIDE DEF f1, v1
  <2>6. frames' = [frames EXCEPT ![o] = f1] /\ in' = [in EXCEPT ![s] = v1]
    BY <2>1, <2>3, Zenon DEF f1, v1
  <2>7. /\ frames' \in [Side -> Seq(F)] /\ in' \in [Side -> Seq(Lengths)]
        /\ frames'[o] = f1 /\ in'[s] = v1 /\ out'[o] = u
        /\ frames'[s] = frames[s] /\ in'[o] = in[o] /\ out'[s] = out[s]
    <3> HIDE DEF F
    <3>1. QED
      BY <1>1, <1>2, <1>4, <2>4, <2>5, <2>6, Zenon
  <2>8. TunnelTypeOK' /\ Exchanged'
    BY <1>2, <2>1, <2>7, ZenonT(30) DEF TunnelInv, TunnelTypeOK, Exchanged
  <2>9. Carried(o)'
    <3> HIDE DEF f, v, u, F
    <3>1. Len(v1) + Len(f1) = Len(u)
      <4>1. /\ Len(f1) = Len(f) - 1 /\ Len(v1) = Len(v) + 1 /\ Len(v) + Len(f) = Len(u)
            /\ Len(f) \in Nat /\ Len(v) \in Nat
        BY <1>6, <1>7, <2>4, <2>5, Zenon
      <4>2. QED
        BY <4>1
    <3>2. ASSUME NEW i \in 1..Len(v1) PROVE v1[i] = u[i]
      <4>1. CASE i = Len(v) + 1
        BY <2>5, <4>1
      <4>2. CASE i # Len(v) + 1
        <5>1. i \in 1..Len(v)
          BY <1>7, <2>5, <4>2
        <5>2. QED
          BY <1>6, <2>5, <5>1, Zenon
      <4>3. QED
        BY <4>1, <4>2, Zenon
    <3>3. ASSUME NEW i \in 1..Len(f1) PROVE f1[i] = FrameOf(u[Len(v1) + i])
      <4>1. i + 1 \in 1..Len(f) /\ Len(v1) + i = Len(v) + (i + 1)
        BY <1>7, <2>4, <2>5
      <4>2. f[i + 1] = FrameOf(u[Len(v) + (i + 1)])
        BY <1>6, <4>1, Zenon
      <4>3. QED
        BY <2>4, <4>1, <4>2, Zenon
    <3>4. QED
      BY <1>1, <2>4, <2>7, <3>1, <3>2, <3>3, Zenon DEF Carried, F
  <2>10. Carried(s)'
    <3>1. Carried(s)
      BY Zenon DEF TunnelInv
    <3>2. QED
      BY <2>7, <3>1, Zenon DEF Carried
  <2>11. ASSUME NEW r \in Side PROVE Carried(r)' /\ TooLong(r)'
    <3>1. r = s \/ r = o
      BY TwoSides
    <3>2. TooLong(r)'
      BY <1>2, <2>1, Zenon DEF TunnelInv, TooLong
    <3>3. QED
      BY <2>9, <2>10, <3>1, <3>2, Zenon
  <2>12. QED
    BY <2>7, <2>8, <2>11, Zenon DEF TunnelInv
<1>16. QED
  BY <1>14, <1>15

\* Whatever the two sides do, and however their steps interleave.
THEOREM TunnelInvariance == TunnelSpec => []TunnelInv
<1>1. TunnelInv /\ [TunnelNext]_tunnelVars => TunnelInv'
  <2> SUFFICES ASSUME TunnelInv, [TunnelNext]_tunnelVars PROVE TunnelInv'
    OBVIOUS
  <2>1. ASSUME UNCHANGED tunnelVars PROVE TunnelInv'
    BY <2>1, ZenonT(30) DEF tunnelVars, TunnelInv, TunnelTypeOK, Exchanged, Carried, TooLong
  <2>2. QED
    BY <2>1, ExchangeKeeps, WriteKeeps, ReadKeeps, Zenon DEF TunnelNext
<1>2. QED
  BY <1>1, InitTunnel, PTL DEF TunnelSpec

\* What an end reads is what the other one wrote.  With commands whose direction and
\* URB_DIR_IN flag agree, and a client that reads what PROTOCOL.md says, the sizes that
\* wire.rs, reply.rs and UsbIpServer.kt work out agree for every status, direction and
\* length, so that both streams stay whole messages; and the tunnel of crypto_stream.rs
\* loses, doubles and reorders nothing, and refuses a message only for its length.
THEOREM StreamsAreKept == ASSUME FlagsAgree, WireClient PROVE StreamsSpec => []StreamsKept
<1>1. FramingInv /\ TunnelInv => StreamsKept
  BY FramedFollows, CarriesFollows DEF StreamsKept, TunnelInv
<1>2. QED
  BY <1>1, FramingInvariance, TunnelInvariance, PTL DEF StreamsSpec

=============================================================================
