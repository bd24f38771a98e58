--------------------------- MODULE SequenceLemmas -----------------------------
(***************************************************************************)
(* Induction, over numbers and sequences, stated of sets, and what it shows *)
(* of Max, Min and FlattenSeq.                                             *)
(***************************************************************************)
EXTENDS Integers, Sequences, SequencesExt, SequenceTheorems, WellFoundedInduction, TLAPS

\* A set that has zero, and of each number the next, has them all.
LEMMA SetInduction ==
  ASSUME NEW S, 0 \in S, \A n \in Nat : n \in S => n + 1 \in S
  PROVE  Nat \subseteq S
<1> SUFFICES ASSUME Nat \ S # {} PROVE FALSE
  OBVIOUS
<1>1. PICK x \in Nat \ S : \A y \in Nat \ S : ~ (<<y, x>> \in OpToRel(<, Nat))
  BY WFMin, NatLessThanWellFounded, Zenon
<1>2. x # 0 /\ x - 1 \in Nat
  OBVIOUS
<1>3. x - 1 \notin S
  BY <1>2
<1>4. <<x - 1, x>> \in OpToRel(<, Nat)
  BY <1>2 DEF OpToRel
<1> QED
  BY <1>1, <1>2, <1>3, <1>4

\* A set that has the empty sequence, and those of one element more, has them all.
LEMMA SeqInduction ==
  ASSUME NEW T, NEW S, <<>> \in S,
         \A s \in Seq(T), e \in T : s \in S => Append(s, e) \in S
  PROVE  Seq(T) \subseteq S
<1> DEFINE Q == {n \in Nat : \A s \in Seq(T) : Len(s) = n => s \in S}
<1>1. 0 \in Q
  <2>1. \A s \in Seq(T) : Len(s) = 0 => s = <<>>
    OBVIOUS
  <2> QED
    BY <2>1
<1>2. ASSUME NEW n \in Nat, n \in Q PROVE n + 1 \in Q
  <2> SUFFICES ASSUME NEW s \in Seq(T), Len(s) = n + 1 PROVE s \in S
    OBVIOUS
  <2>1. s # <<>>
    OBVIOUS
  <2>2. PICK t \in Seq(T), e \in T : s = Append(t, e)
    BY <2>1, SequenceEmptyOrAppend, Zenon
  <2>3. Len(t) = n
    BY <2>2
  <2>4. t \in S
    BY <1>2, <2>3
  <2> QED
    BY <2>2, <2>4
<1>3. Nat \subseteq Q
  <2> HIDE DEF Q
  <2> QED
    BY <1>1, <1>2, SetInduction, Zenon
<1> QED
  BY <1>3

-----------------------------------------------------------------------------
(* The greatest and the least of some numbers.                             *)

LEMMA MaxOf ==
  ASSUME NEW n \in Nat, NEW S, S \subseteq 0..n, S # {}
  PROVE  Max(S) \in S /\ \A y \in S : y <= Max(S)
<1> DEFINE Q == {k \in Nat : \A U \in SUBSET (0..k) :
                    U # {} => \E x \in U : \A y \in U : x >= y}
<1>1. 0 \in Q
  <2> SUFFICES ASSUME NEW U \in SUBSET (0..0), U # {}
               PROVE  \E x \in U : \A y \in U : x >= y
    OBVIOUS
  <2>1. 0..0 = {0} /\ 0 >= 0
    OBVIOUS
  <2>2. U = {0}
    BY <2>1, Zenon
  <2> QED
    BY <2>1, <2>2, Zenon
<1>2. ASSUME NEW k \in Nat, k \in Q PROVE k + 1 \in Q
  <2> SUFFICES ASSUME NEW U \in SUBSET (0..(k + 1)), U # {}
               PROVE  \E x \in U : \A y \in U : x >= y
    OBVIOUS
  <2>1. CASE k + 1 \in U
    BY <2>1
  <2>2. CASE k + 1 \notin U
    <3>1. U \in SUBSET (0..k)
      BY <2>2
    <3> QED
      BY <1>2, <3>1
  <2> QED
    BY <2>1, <2>2
<1>3. Nat \subseteq Q
  <2> HIDE DEF Q
  <2> QED
    BY <1>1, <1>2, SetInduction, Zenon
<1>4. \E x \in S : \A y \in S : x >= y
  BY <1>3
<1>5. Max(S) \in S /\ \A y \in S : Max(S) >= y
  BY <1>4, Zenon DEF Max
<1> QED
  BY <1>5

LEMMA MinOf ==
  ASSUME NEW S, S \subseteq Nat, S # {}
  PROVE  Min(S) \in S /\ \A y \in S : Min(S) <= y
<1>1. PICK x \in S : \A y \in S : ~ (<<y, x>> \in OpToRel(<, Nat))
  BY WFMin, NatLessThanWellFounded, Zenon
<1>2. \A y \in S : x <= y
  <2> SUFFICES ASSUME NEW y \in S, ~(x <= y) PROVE FALSE
    OBVIOUS
  <2>1. y \in Nat /\ x \in Nat /\ y < x
    OBVIOUS
  <2>2. <<y, x>> \in OpToRel(<, Nat)
    BY <2>1 DEF OpToRel
  <2> QED
    BY <1>1, <2>2
<1>3. \E z \in S : \A y \in S : z <= y
  BY <1>2
<1> QED
  BY <1>3, Zenon DEF Min

-----------------------------------------------------------------------------
(* FlattenSeq.                                                             *)

\* The sequences flattened up to each of them.
Flat(s, f, n) == f = [i \in 1..n |-> IF i = 1 THEN s[i] ELSE f[i - 1] \o s[i]]

LEMMA FlatExists ==
  ASSUME NEW s, NEW n \in Nat
  PROVE  \E f : Flat(s, f, n)
<1> DEFINE Q == {k \in Nat : \E f : Flat(s, f, k)}
<1>1. 0 \in Q
  <2>1. Flat(s, <<>>, 0)
    BY DEF Flat
  <2> QED
    BY <2>1
<1>2. ASSUME NEW k \in Nat, k \in Q PROVE k + 1 \in Q
  <2>1. PICK f : f = [i \in 1..k |-> IF i = 1 THEN s[i] ELSE f[i - 1] \o s[i]]
    BY <1>2 DEF Flat
  <2> DEFINE g == [i \in 1..(k + 1) |->
                     IF i = 1 THEN s[i]
                     ELSE IF i \in 1..k THEN f[i] ELSE f[k] \o s[i]]
  <2>2. \A i \in 1..k : g[i] = f[i]
    BY <2>1
  <2>3. \A i \in 1..(k + 1) : g[i] = IF i = 1 THEN s[i] ELSE g[i - 1] \o s[i]
    <3> SUFFICES ASSUME NEW i \in 1..(k + 1), i # 1
                 PROVE  g[i] = g[i - 1] \o s[i]
      OBVIOUS
    <3>1. i - 1 \in 1..k
      OBVIOUS
    <3>2. g[i - 1] = f[i - 1]
      BY <2>2, <3>1
    <3>3. CASE i \in 1..k
      BY <2>1, <3>2, <3>3
    <3>4. CASE i \notin 1..k
      <4>1. i - 1 = k
        BY <3>4
      <4> QED
        BY <3>2, <3>4, <4>1
    <3> QED
      BY <3>3, <3>4
  <2>4. Flat(s, g, k + 1)
    BY <2>3 DEF Flat
  <2> QED
    BY <2>4
<1>3. Nat \subseteq Q
  <2> HIDE DEF Q
  <2> QED
    BY <1>1, <1>2, SetInduction, Zenon
<1> QED
  BY <1>3

LEMMA FlatAt ==
  ASSUME NEW s, NEW f, NEW n, Flat(s, f, n), NEW i \in 1..n
  PROVE  f[i] = IF i = 1 THEN s[i] ELSE f[i - 1] \o s[i]
<1> DEFINE g == [j \in 1..n |-> IF j = 1 THEN s[j] ELSE f[j - 1] \o s[j]]
<1>1. f = g
  BY Zenon DEF Flat
<1>2. g[i] = IF i = 1 THEN s[i] ELSE f[i - 1] \o s[i]
  OBVIOUS
<1> QED
  BY <1>1, <1>2, Zenon

LEMMA FlattenIsFlat ==
  ASSUME NEW T, NEW s \in Seq(T)
  PROVE  \E f : /\ Flat(s, f, Len(s))
                /\ FlattenSeq(s) = IF Len(s) = 0 THEN s ELSE f[Len(s)]
<1> DEFINE F == CHOOSE f : f = [i \in 1..Len(s) |-> IF i = 1 THEN s[i] ELSE f[i - 1] \o s[i]]
<1>1. Len(s) \in Nat
  OBVIOUS
<1>2. \E f : f = [i \in 1..Len(s) |-> IF i = 1 THEN s[i] ELSE f[i - 1] \o s[i]]
  BY <1>1, FlatExists, Zenon DEF Flat
<1>3. F = [i \in 1..Len(s) |-> IF i = 1 THEN s[i] ELSE F[i - 1] \o s[i]]
  BY <1>2, Zenon
<1>4. FlattenSeq(s) = IF Len(s) = 0 THEN s ELSE F[Len(s)]
  BY Zenon DEF FlattenSeq
<1> QED
  BY <1>3, <1>4, Zenon DEF Flat

LEMMA FlattenEmpty == FlattenSeq(<<>>) = <<>>
BY DEF FlattenSeq

LEMMA FlattenType ==
  ASSUME NEW T, NEW s \in Seq(Seq(T))
  PROVE  FlattenSeq(s) \in Seq(T)
<1>1. PICK f : /\ Flat(s, f, Len(s))
               /\ FlattenSeq(s) = IF Len(s) = 0 THEN s ELSE f[Len(s)]
  BY FlattenIsFlat, Zenon
<1> DEFINE Q == {k \in Nat : k \in 1..Len(s) => f[k] \in Seq(T)}
<1>2. 0 \in Q
  OBVIOUS
<1>3. ASSUME NEW k \in Nat, k \in Q PROVE k + 1 \in Q
  <2> SUFFICES ASSUME k + 1 \in 1..Len(s) PROVE f[k + 1] \in Seq(T)
    OBVIOUS
  <2>1. s[k + 1] \in Seq(T)
    OBVIOUS
  <2>2. f[k + 1] = IF k + 1 = 1 THEN s[k + 1] ELSE f[k + 1 - 1] \o s[k + 1]
    BY <1>1, FlatAt
  <2>3. CASE k = 0
    BY <2>1, <2>2, <2>3
  <2>4. CASE k # 0
    <3>1. f[k + 1 - 1] \in Seq(T)
      BY <1>3, <2>4
    <3> QED
      BY <2>1, <2>2, <2>4, <3>1
  <2> QED
    BY <2>3, <2>4
<1>4. Nat \subseteq Q
  <2> HIDE DEF Q
  <2> QED
    BY <1>2, <1>3, SetInduction, Zenon
<1>5. CASE Len(s) = 0
  BY <1>1, <1>5
<1>6. CASE Len(s) # 0
  BY <1>1, <1>4, <1>6
<1> QED
  BY <1>5, <1>6

LEMMA FlattenAppend ==
  ASSUME NEW T, NEW s \in Seq(Seq(T)), NEW x \in Seq(T)
  PROVE  FlattenSeq(Append(s, x)) = FlattenSeq(s) \o x
<1> DEFINE t == Append(s, x)
<1>0. t \in Seq(Seq(T)) /\ Len(t) = Len(s) + 1 /\ t[Len(s) + 1] = x
      /\ \A i \in 1..Len(s) : t[i] = s[i]
  BY AppendProperties
<1>1. PICK f : /\ Flat(s, f, Len(s))
               /\ FlattenSeq(s) = IF Len(s) = 0 THEN s ELSE f[Len(s)]
  BY FlattenIsFlat, Zenon
<1>2. PICK g : /\ Flat(t, g, Len(t))
               /\ FlattenSeq(t) = IF Len(t) = 0 THEN t ELSE g[Len(t)]
  BY <1>0, FlattenIsFlat, Zenon
<1> HIDE DEF t
<1> DEFINE Q == {k \in Nat : k \in 1..Len(s) => f[k] = g[k]}
<1>3. 0 \in Q
  OBVIOUS
<1>4. ASSUME NEW k \in Nat, k \in Q PROVE k + 1 \in Q
  <2> SUFFICES ASSUME k + 1 \in 1..Len(s) PROVE f[k + 1] = g[k + 1]
    OBVIOUS
  <2>1. f[k + 1] = IF k + 1 = 1 THEN s[k + 1] ELSE f[k + 1 - 1] \o s[k + 1]
    BY <1>1, FlatAt
  <2>0. k + 1 \in 1..Len(t)
    BY <1>0
  <2>2. g[k + 1] = IF k + 1 = 1 THEN t[k + 1] ELSE g[k + 1 - 1] \o t[k + 1]
    BY <1>2, <2>0, FlatAt
  <2>3. s[k + 1] = t[k + 1]
    BY <1>0
  <2>4. k + 1 # 1 => f[k + 1 - 1] = g[k + 1 - 1]
    BY <1>4
  <2> QED
    BY <2>1, <2>2, <2>3, <2>4
<1>5. Nat \subseteq Q
  <2> HIDE DEF Q
  <2> QED
    BY <1>3, <1>4, SetInduction, Zenon
<1>6. FlattenSeq(t) = g[Len(s) + 1]
  BY <1>0, <1>2
<1>7. g[Len(s) + 1] = IF Len(s) + 1 = 1 THEN x ELSE g[Len(s)] \o x
  <2>1. Len(s) + 1 \in 1..Len(t)
    BY <1>0
  <2>2. g[Len(s) + 1] = IF Len(s) + 1 = 1 THEN t[Len(s) + 1]
                        ELSE g[Len(s) + 1 - 1] \o t[Len(s) + 1]
    BY <1>2, <2>1, FlatAt
  <2> QED
    BY <1>0, <2>2
<1>8. CASE Len(s) = 0
  <2>1. s = <<>> /\ FlattenSeq(s) = <<>>
    BY <1>1, <1>8
  <2> QED
    BY <1>6, <1>7, <1>8, <2>1 DEF t
<1>9. CASE Len(s) # 0
  <2>1. f[Len(s)] = g[Len(s)] /\ FlattenSeq(s) = f[Len(s)]
    BY <1>1, <1>5, <1>9
  <2> QED
    BY <1>6, <1>7, <1>9, <2>1 DEF t
<1> QED
  BY <1>8, <1>9

LEMMA FlattenConcat ==
  ASSUME NEW T, NEW s \in Seq(Seq(T)), NEW t \in Seq(Seq(T))
  PROVE  FlattenSeq(s \o t) = FlattenSeq(s) \o FlattenSeq(t)
<1> DEFINE Q == {u \in Seq(Seq(T)) : FlattenSeq(s \o u) = FlattenSeq(s) \o FlattenSeq(u)}
<1>1. <<>> \in Q
  <2>1. FlattenSeq(s) \in Seq(T)
    BY FlattenType
  <2>2. FlattenSeq(s) \o <<>> = FlattenSeq(s) /\ s \o <<>> = s
    BY <2>1
  <2>3. <<>> \in Seq(Seq(T))
    OBVIOUS
  <2> QED
    BY <2>2, <2>3, FlattenEmpty, Zenon
<1>2. ASSUME NEW u \in Seq(Seq(T)), NEW e \in Seq(T), u \in Q PROVE Append(u, e) \in Q
  <2>1. s \o Append(u, e) = Append(s \o u, e) /\ s \o u \in Seq(Seq(T))
    OBVIOUS
  <2>2. FlattenSeq(s \o Append(u, e)) = FlattenSeq(s \o u) \o e
    BY <2>1, FlattenAppend
  <2>3. FlattenSeq(Append(u, e)) = FlattenSeq(u) \o e
    BY FlattenAppend
  <2>4. FlattenSeq(s \o u) = FlattenSeq(s) \o FlattenSeq(u)
    BY <1>2
  <2>5. FlattenSeq(s) \in Seq(T) /\ FlattenSeq(u) \in Seq(T)
    BY FlattenType
  <2>6. (FlattenSeq(s) \o FlattenSeq(u)) \o e = FlattenSeq(s) \o (FlattenSeq(u) \o e)
    BY <2>5
  <2>7. Append(u, e) \in Seq(Seq(T))
    OBVIOUS
  <2> QED
    BY <2>2, <2>3, <2>4, <2>6, <2>7
<1>3. Seq(Seq(T)) \subseteq Q
  <2> HIDE DEF Q
  <2> QED
    BY <1>1, <1>2, SeqInduction, Zenon
<1> QED
  BY <1>3

LEMMA FlattenOne ==
  ASSUME NEW T, NEW x \in Seq(T)
  PROVE  FlattenSeq(<<x>>) = x
<1>1. Append(<<>>, x) = <<x>> /\ <<>> \o x = x
  OBVIOUS
<1> QED
  BY <1>1, FlattenAppend, FlattenEmpty, <<>> \in Seq(Seq(T))

-----------------------------------------------------------------------------
(* A sequence that is put in the place of each element, and what they make. *)

Makes(f, T, V) == f \in [T -> V]
Mapped(seq, f) == [i \in DOMAIN seq |-> f[seq[i]]]

LEMMA MappedType ==
  ASSUME NEW T, NEW V, NEW f, Makes(f, T, V)
  PROVE  \A seq \in Seq(T) :
           /\ Mapped(seq, f) \in Seq(V) /\ Len(Mapped(seq, f)) = Len(seq)
           /\ \A i \in 1..Len(seq) : Mapped(seq, f)[i] = f[seq[i]]
BY DEF Mapped, Makes

LEMMA MappedConcat ==
  ASSUME NEW T, NEW V, NEW f, Makes(f, T, V)
  PROVE  \A s, t \in Seq(T) : Mapped(s \o t, f) = Mapped(s, f) \o Mapped(t, f)
<1> SUFFICES ASSUME NEW s \in Seq(T), NEW t \in Seq(T)
             PROVE  Mapped(s \o t, f) = Mapped(s, f) \o Mapped(t, f)
  OBVIOUS
<1> DEFINE u == Mapped(s, f)
           v == Mapped(t, f)
           w == Mapped(s \o t, f)
<1>1. s \o t \in Seq(T) /\ Len(s \o t) = Len(s) + Len(t)
  OBVIOUS
<1>2. /\ u \in Seq(V) /\ Len(u) = Len(s) /\ \A i \in 1..Len(s) : u[i] = f[s[i]]
      /\ v \in Seq(V) /\ Len(v) = Len(t) /\ \A i \in 1..Len(t) : v[i] = f[t[i]]
      /\ w \in Seq(V) /\ Len(w) = Len(s) + Len(t)
      /\ \A i \in 1..(Len(s) + Len(t)) : w[i] = f[(s \o t)[i]]
  <2>1. /\ u \in Seq(V) /\ Len(u) = Len(s) /\ \A i \in 1..Len(s) : u[i] = f[s[i]]
        /\ v \in Seq(V) /\ Len(v) = Len(t) /\ \A i \in 1..Len(t) : v[i] = f[t[i]]
    BY MappedType
  <2>2. /\ w \in Seq(V) /\ Len(w) = Len(s \o t)
        /\ \A i \in 1..Len(s \o t) : w[i] = f[(s \o t)[i]]
    <3> DEFINE r == s \o t
    <3>1. r \in Seq(T)
      BY <1>1
    <3> HIDE DEF r
    <3>2. /\ Mapped(r, f) \in Seq(V) /\ Len(Mapped(r, f)) = Len(r)
          /\ \A i \in 1..Len(r) : Mapped(r, f)[i] = f[r[i]]
      BY <3>1, MappedType
    <3> QED
      BY <3>2 DEF r
  <2> QED
    BY <1>1, <2>1, <2>2, Zenon
<1> HIDE DEF u, v, w
<1>3. u \o v \in Seq(V) /\ Len(u \o v) = Len(s) + Len(t)
  <2>1. u \in Seq(V) /\ v \in Seq(V) /\ Len(u) = Len(s) /\ Len(v) = Len(t)
    BY <1>2
  <2> QED
    BY <2>1, SMT
<1>4. ASSUME NEW i \in 1..(Len(s) + Len(t)) PROVE w[i] = (u \o v)[i]
  <2>1. w[i] = f[(s \o t)[i]] /\ Len(s) \in Nat /\ Len(t) \in Nat
    BY <1>2
  <2>2. CASE i <= Len(s)
    <3>1. (s \o t)[i] = s[i] /\ i \in 1..Len(s)
      BY <2>2
    <3>2. (u \o v)[i] = u[i]
      BY <1>2, <3>1
    <3> QED
      BY <1>2, <2>1, <3>1, <3>2, Zenon
  <2>3. CASE ~(i <= Len(s))
    <3>1. (s \o t)[i] = t[i - Len(s)] /\ i - Len(s) \in 1..Len(t)
      BY <2>3
    <3>2. (u \o v)[i] = v[i - Len(u)]
      BY <1>2, <2>3
    <3> QED
      BY <1>2, <2>1, <3>1, <3>2, Zenon
  <2> QED
    BY <2>2, <2>3
<1>5. w = u \o v
  <2>1. \A i \in 1..Len(w) : w[i] = (u \o v)[i]
    BY <1>2, <1>4
  <2> QED
    BY <1>2, <1>3, <2>1, SeqEqual, Zenon
<1> QED
  BY <1>5 DEF u, v, w

LEMMA MappedFlat ==
  ASSUME NEW T, NEW U, NEW f, Makes(f, T, Seq(U))
  PROVE  \A s, t \in Seq(T) :
           /\ FlattenSeq(Mapped(s, f)) \in Seq(U)
           /\ FlattenSeq(Mapped(s \o t, f))
              = FlattenSeq(Mapped(s, f)) \o FlattenSeq(Mapped(t, f))
<1>1. \A s \in Seq(T) : Mapped(s, f) \in Seq(Seq(U))
  BY MappedType
<1>2. \A s, t \in Seq(T) : Mapped(s \o t, f) = Mapped(s, f) \o Mapped(t, f)
  BY MappedConcat
<1> QED
  BY <1>1, <1>2, FlattenType, FlattenConcat, Zenon

\* What is made of sequences, one after the other, is what each one makes.
LEMMA MappedFlatten ==
  ASSUME NEW T, NEW U, NEW f, Makes(f, T, Seq(U))
  PROVE  \A seqs \in Seq(Seq(T)) :
           FlattenSeq(Mapped(FlattenSeq(seqs), f))
           = FlattenSeq([i \in DOMAIN seqs |-> FlattenSeq(Mapped(seqs[i], f))])
<1> SUFFICES ASSUME NEW seqs \in Seq(Seq(T))
             PROVE  FlattenSeq(Mapped(FlattenSeq(seqs), f))
                    = FlattenSeq([i \in DOMAIN seqs |-> FlattenSeq(Mapped(seqs[i], f))])
  OBVIOUS
<1> DEFINE g == [s \in Seq(T) |-> FlattenSeq(Mapped(s, f))]
           S == {q \in Seq(Seq(T)) :
                   FlattenSeq(Mapped(FlattenSeq(q), f)) = FlattenSeq(Mapped(q, g))}
<1>1. Makes(g, Seq(T), Seq(U))
  <2>1. \A s \in Seq(T) : FlattenSeq(Mapped(s, f)) \in Seq(U)
    BY MappedFlat
  <2> QED
    BY <2>1 DEF Makes
<1>2. \A s \in Seq(T) : g[s] = FlattenSeq(Mapped(s, f))
  OBVIOUS
<1> HIDE DEF g
<1>3. <<>> \in S
  <2>1. Mapped(<<>>, f) = <<>> /\ Mapped(<<>>, g) = <<>> /\ <<>> \in Seq(Seq(T))
    BY DEF Mapped
  <2> QED
    BY <2>1, FlattenEmpty
<1>4. ASSUME NEW q \in Seq(Seq(T)), NEW s \in Seq(T), q \in S PROVE Append(q, s) \in S
  <2>1. FlattenSeq(q) \in Seq(T) /\ FlattenSeq(Append(q, s)) = FlattenSeq(q) \o s
    BY FlattenType, FlattenAppend
  <2>2. FlattenSeq(Mapped(FlattenSeq(q) \o s, f))
        = FlattenSeq(Mapped(FlattenSeq(q), f)) \o FlattenSeq(Mapped(s, f))
    <3> DEFINE r == FlattenSeq(q)
    <3>1. s \in Seq(T) /\ r \in Seq(T)
      BY <2>1
    <3> HIDE DEF r
    <3>2. FlattenSeq(Mapped(r \o s, f)) = FlattenSeq(Mapped(r, f)) \o FlattenSeq(Mapped(s, f))
      BY <3>1, MappedFlat
    <3> QED
      BY <3>2 DEF r
  <2>3. Append(q, s) = q \o <<s>> /\ <<s>> \in Seq(Seq(T)) /\ Append(q, s) \in Seq(Seq(T))
    <3> DEFINE X == Seq(T)
    <3>1. q \in Seq(X) /\ s \in X
      OBVIOUS
    <3> HIDE DEF X
    <3>2. Append(q, s) = q \o <<s>> /\ <<s>> \in Seq(X) /\ Append(q, s) \in Seq(X)
      BY <3>1
    <3> QED
      BY <3>2 DEF X
  <2>4. FlattenSeq(Mapped(Append(q, s), g))
        = FlattenSeq(Mapped(q, g)) \o FlattenSeq(Mapped(<<s>>, g))
    <3> DEFINE X == Seq(T)
               r == <<s>>
    <3>1. Makes(g, X, Seq(U)) /\ q \in Seq(X) /\ r \in Seq(X) /\ Append(q, s) = q \o r
      BY <1>1, <2>3
    <3> HIDE DEF X, r
    <3>2. FlattenSeq(Mapped(q \o r, g)) = FlattenSeq(Mapped(q, g)) \o FlattenSeq(Mapped(r, g))
      BY <3>1, MappedFlat
    <3> QED
      BY <3>1, <3>2, Zenon DEF r
  <2>5. Mapped(<<s>>, g) = <<g[s]>>
    BY DEF Mapped
  <2>6. FlattenSeq(Mapped(<<s>>, g)) = g[s]
    <3>1. g[s] \in Seq(U)
      BY <1>1 DEF Makes
    <3> QED
      BY <2>5, <3>1, FlattenOne, Zenon
  <2> QED
    BY <1>2, <1>4, <2>1, <2>2, <2>3, <2>4, <2>6, Zenon
<1>5. Seq(Seq(T)) \subseteq S
  <2> HIDE DEF S
  <2> QED
    BY <1>3, <1>4, SeqInduction, Zenon
<1>6. Mapped(seqs, g) = [i \in DOMAIN seqs |-> FlattenSeq(Mapped(seqs[i], f))]
  <2>1. \A i \in DOMAIN seqs : seqs[i] \in Seq(T)
    OBVIOUS
  <2> QED
    BY <1>2, <2>1, Zenon DEF Mapped
<1> QED
  BY <1>5, <1>6, Zenon

\* A sequence cut in pieces is its pieces, one after the other.
LEMMA PiecesFlatten ==
  ASSUME NEW T, NEW whole \in Seq(T), NEW n \in Nat,
         NEW parts \in Seq(Seq(T)), Len(parts) = n,
         NEW ends \in [0..n -> 0..Len(whole)], ends[0] = 0, ends[n] = Len(whole),
         \A k \in 0..(n - 1) : /\ ends[k] <= ends[k + 1]
                               /\ parts[k + 1] = SubSeq(whole, ends[k] + 1, ends[k + 1])
  PROVE  FlattenSeq(parts) = whole
<1> DEFINE S == {k \in Nat : k <= n =>
                   FlattenSeq(SubSeq(parts, 1, k)) = SubSeq(whole, 1, ends[k])}
<1>1. 0 \in S
  <2>1. SubSeq(parts, 1, 0) = <<>> /\ SubSeq(whole, 1, 0) = <<>>
    BY SubSeqEmpty
  <2> QED
    BY <2>1, FlattenEmpty
<1>2. ASSUME NEW k \in Nat, k \in S PROVE k + 1 \in S
  <2> SUFFICES ASSUME k + 1 <= n
               PROVE  FlattenSeq(SubSeq(parts, 1, k + 1)) = SubSeq(whole, 1, ends[k + 1])
    OBVIOUS
  <2> DEFINE X == Seq(T)
             p == SubSeq(parts, 1, k)
  <2>1. /\ k \in 0..n /\ k + 1 \in 1..n /\ k + 1 \in 0..n
    OBVIOUS
  <2>2. /\ ends[k] \in 0..Len(whole) /\ ends[k + 1] \in 0..Len(whole)
        /\ ends[k] <= ends[k + 1]
        /\ parts[k + 1] = SubSeq(whole, ends[k] + 1, ends[k + 1])
    <3>1. k \in 0..(n - 1)
      BY <2>1
    <3>2. ends[k] \in 0..Len(whole) /\ ends[k + 1] \in 0..Len(whole)
      BY <2>1, Zenon
    <3> QED
      BY <2>1, <3>1, <3>2, Zenon
  <2>3. parts[k + 1] \in X
    BY <2>1
  <2>4. /\ p \in Seq(X) /\ SubSeq(parts, 1, k + 1) = Append(p, parts[k + 1])
    <3>1. parts \in Seq(X)
      OBVIOUS
    <3> HIDE DEF X
    <3>2. p \in Seq(X) /\ Len(p) = k /\ \A i \in 1..k : p[i] = parts[i]
      BY <2>1, <3>1
    <3>3. /\ SubSeq(parts, 1, k + 1) \in Seq(X) /\ Len(SubSeq(parts, 1, k + 1)) = k + 1
          /\ \A i \in 1..(k + 1) : SubSeq(parts, 1, k + 1)[i] = parts[i]
      BY <2>1, <3>1
    <3> DEFINE q == SubSeq(parts, 1, k + 1)
               e == parts[k + 1]
    <3> HIDE DEF p, q, e
    <3>4. /\ Append(p, e) \in Seq(X) /\ Len(Append(p, e)) = k + 1
          /\ \A i \in 1..k : Append(p, e)[i] = p[i]
          /\ Append(p, e)[k + 1] = e
      BY <2>3, <3>2, AppendProperties DEF e
    <3>5. ASSUME NEW i \in 1..(k + 1) PROVE q[i] = Append(p, e)[i]
      <4>1. q[i] = parts[i]
        BY <3>3 DEF q
      <4>2. CASE i \in 1..k
        BY <3>2, <3>4, <4>1, <4>2, Zenon
      <4>3. CASE i \notin 1..k
        <5>1. i = k + 1
          BY <4>3
        <5> QED
          BY <3>4, <4>1, <5>1, Zenon DEF e
      <4> QED
        BY <4>2, <4>3
    <3>6. q = Append(p, e)
      BY <3>3, <3>4, <3>5, SeqEqual DEF q
    <3> QED
      BY <3>2, <3>6 DEF q, e
  <2>5. FlattenSeq(Append(p, parts[k + 1])) = FlattenSeq(p) \o parts[k + 1]
    BY <2>3, <2>4, FlattenAppend
  <2>6. FlattenSeq(p) = SubSeq(whole, 1, ends[k])
    BY <1>2, <2>1
  <2>7. SubSeq(whole, 1, ends[k]) \o SubSeq(whole, ends[k] + 1, ends[k + 1])
        = SubSeq(whole, 1, ends[k + 1])
    <3>1. /\ 1 \in 1..(Len(whole) + 1) /\ ends[k] \in (1 - 1)..Len(whole)
          /\ ends[k + 1] \in ends[k]..Len(whole)
      BY <2>2
    <3> QED
      BY <3>1, ConcatAdjacentSubSeq
  <2> QED
    BY <2>2, <2>4, <2>5, <2>6, <2>7, Zenon
<1>3. Nat \subseteq S
  <2> HIDE DEF S
  <2> QED
    BY <1>1, <1>2, SetInduction, Zenon
<1>4. FlattenSeq(SubSeq(parts, 1, n)) = SubSeq(whole, 1, ends[n])
  BY <1>3
<1>5. SubSeq(parts, 1, n) = parts /\ SubSeq(whole, 1, Len(whole)) = whole
  <2> DEFINE X == Seq(T)
  <2>1. parts \in Seq(X)
    OBVIOUS
  <2> HIDE DEF X
  <2> QED
    BY <2>1
<1> QED
  BY <1>4, <1>5
=============================================================================
