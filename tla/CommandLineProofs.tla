-------------------------- MODULE CommandLineProofs --------------------------
(***************************************************************************)
(* Proofs about what the command line runs: the batch of workflow or case  *)
(* files and the plan of a workflow (WorkflowBatch, WorkflowPlan), for     *)
(* every set of documents and number of files, and one case                *)
(* (CaseExecutor), for every set of cases, pods and devices, every number  *)
(* of targets and iterations, and any clear, crash, restart or lost answer *)
(* in between.                                                             *)
(***************************************************************************)
EXTENDS CaseExecutor, WorkflowBatch, SequenceTheorems, WellFoundedInduction, TLAPS

-----------------------------------------------------------------------------
(* Sequences of sequences.  The library's induction theorems take an operator *)
(* as a parameter; here induction is about the elements of a set.             *)

\* A set of natural numbers that is not empty has a least element: there is no
\* endless descent.
LEMMA LeastNumber == ASSUME NEW T \in SUBSET Nat, T # {} PROVE \E n \in T : \A m \in T : n <= m
<1> DEFINE Less == {p \in Nat \X Nat : p[1] < p[2]}
<1>1. IsWellFoundedOn(Less, Nat)
  BY NatLessThanWellFounded DEF OpToRel
<1>2. PICK n \in T : \A m \in T : ~ (<<m, n>> \in Less)
  BY <1>1, WFMin
<1>3. ASSUME NEW m \in T PROVE n <= m
  <2>1. <<m, n>> \in Nat \X Nat /\ <<m, n>>[1] = m /\ <<m, n>>[2] = n
    OBVIOUS
  <2>2. ~ (m < n)
    BY <1>2, <2>1
  <2>3. QED
    BY <2>2
<1>4. QED
  BY <1>3

\* Induction on sequences, for a set G: what holds of <<>>, and of Append(t, x) when it
\* holds of t, holds of every sequence.  A shortest sequence outside G would be neither.
LEMMA SequenceInduction ==
  ASSUME NEW X, NEW G, <<>> \in G, \A t \in Seq(X), x \in X : t \in G => Append(t, x) \in G
  PROVE  \A t \in Seq(X) : t \in G
<1> DEFINE Bad == {n \in Nat : \E t \in Seq(X) : Len(t) = n /\ t \notin G}
<1>1. SUFFICES Bad = {}
  BY LenProperties
<1>2. SUFFICES ASSUME Bad # {} PROVE FALSE
  OBVIOUS
<1>3. PICK n \in Bad : \A m \in Bad : n <= m
  <2>1. Bad \in SUBSET Nat
    OBVIOUS
  <2>2. QED
    BY <1>2, <2>1, LeastNumber
<1>4. PICK t \in Seq(X) : Len(t) = n /\ t \notin G
  BY <1>3
<1>5. PICK s \in Seq(X), x \in X : t = Append(s, x)
  BY <1>4, SequenceEmptyOrAppend
<1>6. Len(s) \in Nat /\ Len(t) = Len(s) + 1 /\ s \notin G
  BY <1>4, <1>5, AppendProperties, LenProperties
<1>7. Len(s) \in Bad
  BY <1>6
<1>8. QED
  BY <1>3, <1>4, <1>6, <1>7

\* f holds, for each i, the first i of the lists ss laid end to end.
Lays(f, ss, n) == f = [i \in 1 .. n |-> IF i = 1 THEN ss[i] ELSE f[i - 1] \o ss[i]]

\* The recursive function inside FlattenSeq exists, for any number of lists.
LEMMA LayingExists == ASSUME NEW ss, NEW n \in Nat PROVE \E f : Lays(f, ss, n)
<1> DEFINE Bad == {m \in Nat : ~ \E f : Lays(f, ss, m)}
<1>1. SUFFICES ASSUME Bad # {} PROVE FALSE
  OBVIOUS
<1>2. PICK m \in Bad : \A k \in Bad : m <= k
  <2>1. Bad \in SUBSET Nat
    OBVIOUS
  <2>2. QED
    BY <1>1, <2>1, LeastNumber
<1>3. CASE m = 0
  <2>1. Lays([i \in 1 .. 0 |-> ss[1]], ss, 0)
    BY DEF Lays
  <2>2. QED
    BY <1>2, <1>3, <2>1
<1>4. CASE m # 0
  <2>1. m - 1 \in Nat /\ m - 1 \notin Bad
    BY <1>2, <1>4
  <2>2. PICK g : Lays(g, ss, m - 1)
    BY <2>1
  <2> DEFINE h == [i \in 1 .. m |-> IF i = 1 THEN ss[i]
                                    ELSE IF i = m THEN g[m - 1] \o ss[m] ELSE g[i]]
  <2>3. ASSUME NEW i \in 1 .. m PROVE h[i] = IF i = 1 THEN ss[i] ELSE h[i - 1] \o ss[i]
    <3>1. g = [j \in 1 .. (m - 1) |-> IF j = 1 THEN ss[j] ELSE g[j - 1] \o ss[j]]
      BY <2>2 DEF Lays
    <3>2. \A j \in 1 .. (m - 1) : g[j] = IF j = 1 THEN ss[j] ELSE g[j - 1] \o ss[j]
      BY <3>1
    <3>3. \A j \in 1 .. (m - 1) : h[j] = g[j]
      BY <3>2, <2>1
    <3>4. CASE i = 1
      BY <3>4
    <3>5. CASE i # 1 /\ i = m
      <4>1. i - 1 \in 1 .. (m - 1) /\ i - 1 = m - 1
        BY <3>5, <2>1
      <4>2. h[i] = g[m - 1] \o ss[i]
        BY <3>5
      <4>3. QED
        BY <3>3, <3>5, <4>1, <4>2
    <3>6. CASE i # 1 /\ i # m
      <4>1. i - 1 \in 1 .. (m - 1) /\ i \in 1 .. (m - 1)
        BY <3>6, <2>1
      <4>2. h[i] = g[i] /\ h[i - 1] = g[i - 1]
        BY <3>3, <4>1
      <4>3. QED
        BY <3>2, <3>6, <4>1, <4>2
    <3>7. QED
      BY <3>4, <3>5, <3>6
  <2>4. Lays(h, ss, m)
    BY <2>3 DEF Lays
  <2>5. QED
    BY <1>2, <2>4
<1>5. QED
  BY <1>3, <1>4

\* So that FlattenSeq is its last value.
LEMMA FlattenIs ==
  ASSUME NEW ss, Len(ss) \in Nat \ {0}
  PROVE  \E f : Lays(f, ss, Len(ss)) /\ FlattenSeq(ss) = f[Len(ss)]
<1> DEFINE f == CHOOSE g : Lays(g, ss, Len(ss))
<1>1. Lays(f, ss, Len(ss))
  BY LayingExists
<1>2. FlattenSeq(ss) = f[Len(ss)]
  BY DEF FlattenSeq, Lays
<1>3. QED
  BY <1>1, <1>2

\* Of no lists, the empty one.
LEMMA FlattenEmpty == FlattenSeq(<<>>) = <<>>
  BY DEF FlattenSeq

\* One list more does not change what the lists before it come to.
LEMMA LayingsAgree ==
  ASSUME NEW tt, NEW n \in Nat, NEW f, NEW g, Lays(f, tt, n), Lays(g, tt, n + 1)
  PROVE  \A i \in 1 .. n : f[i] = g[i]
<1> DEFINE Bad == {i \in 1 .. n : f[i] # g[i]}
<1>1. SUFFICES ASSUME Bad # {} PROVE FALSE
  OBVIOUS
<1>2. PICK i \in Bad : \A k \in Bad : i <= k
  <2>1. Bad \in SUBSET Nat
    OBVIOUS
  <2>2. QED
    BY <1>1, <2>1, LeastNumber
<1>3. /\ \A j \in 1 .. n : f[j] = IF j = 1 THEN tt[j] ELSE f[j - 1] \o tt[j]
      /\ \A j \in 1 .. (n + 1) : g[j] = IF j = 1 THEN tt[j] ELSE g[j - 1] \o tt[j]
  BY DEF Lays
<1>4. i \in 1 .. n /\ i \in 1 .. (n + 1)
  BY <1>2
<1>5. i # 1 => f[i - 1] = g[i - 1]
  <2>1. i # 1 => i - 1 \in 1 .. n /\ ~ (i <= i - 1)
    BY <1>4
  <2>2. QED
    BY <1>2, <2>1
<1>6. f[i] = g[i]
  BY <1>3, <1>4, <1>5
<1>7. QED
  BY <1>2, <1>6

\* A last list goes to the end: the equation FlattenSeq is used by from here on.
LEMMA FlattenAppend ==
  ASSUME NEW S, NEW ss \in Seq(Seq(S)), NEW s \in Seq(S)
  PROVE  FlattenSeq(Append(ss, s)) = FlattenSeq(ss) \o s
<1> DEFINE tt == Append(ss, s)
           n == Len(ss)
<1>1. /\ n \in Nat /\ tt \in Seq(Seq(S)) /\ Len(tt) = n + 1 /\ tt[n + 1] = s
      /\ \A i \in 1 .. n : ss[i] = tt[i]
  BY AppendProperties, LenProperties
<1>2. PICK g : Lays(g, tt, n + 1) /\ FlattenSeq(tt) = g[n + 1]
  <2>1. Len(tt) \in Nat \ {0}
    BY <1>1
  <2> HIDE DEF tt
  <2>2. PICK g : Lays(g, tt, Len(tt)) /\ FlattenSeq(tt) = g[Len(tt)]
    BY <2>1, FlattenIs
  <2>3. QED
    BY <1>1, <2>2
<1>3. g[n + 1] = IF n + 1 = 1 THEN s ELSE g[n] \o s
  <2>1. \A j \in 1 .. (n + 1) : g[j] = IF j = 1 THEN tt[j] ELSE g[j - 1] \o tt[j]
    BY <1>2 DEF Lays
  <2>2. n + 1 \in 1 .. (n + 1) /\ (n + 1) - 1 = n
    BY <1>1
  <2>3. QED
    BY <1>1, <2>1, <2>2
<1>4. CASE n = 0
  <2>1. ss = <<>>
    BY <1>4, EmptySeq
  <2>2. <<>> \o s = s
    BY ConcatEmptySeq
  <2>3. QED
    BY <1>2, <1>3, <1>4, <2>1, <2>2, FlattenEmpty
<1>5. CASE n # 0
  <2>1. PICK f : Lays(f, ss, n) /\ FlattenSeq(ss) = f[n]
    BY <1>1, <1>5, FlattenIs
  <2>2. f[n] = g[n]
    <3>1. Lays(f, tt, n)
      <4>1. f = [i \in 1 .. n |-> IF i = 1 THEN ss[i] ELSE f[i - 1] \o ss[i]]
        BY <2>1 DEF Lays
      <4>2. f = [i \in 1 .. n |-> IF i = 1 THEN tt[i] ELSE f[i - 1] \o tt[i]]
        <5> HIDE DEF tt, n
        <5>1. QED
          BY <1>1, <4>1
      <4>3. QED
        BY <4>2 DEF Lays
    <3>2. n \in 1 .. n
      BY <1>1, <1>5
    <3> HIDE DEF tt, n
    <3>3. \A i \in 1 .. n : f[i] = g[i]
      BY <1>1, <1>2, <3>1, LayingsAgree
    <3>4. QED
      BY <3>2, <3>3
  <2>3. QED
    BY <1>1, <1>2, <1>3, <1>5, <2>1, <2>2
<1>6. QED
  BY <1>4, <1>5

\* Lists of elements of S come to a sequence of elements of S.
LEMMA FlattenType ==
  ASSUME NEW S
  PROVE  \A ss \in Seq(Seq(S)) : FlattenSeq(ss) \in Seq(S)
<1> DEFINE G == {ss \in Seq(Seq(S)) : FlattenSeq(ss) \in Seq(S)}
<1>1. <<>> \in G
  BY FlattenEmpty, EmptySeq
<1>2. ASSUME NEW ss \in Seq(Seq(S)), NEW s \in Seq(S), ss \in G PROVE Append(ss, s) \in G
  BY <1>2, FlattenAppend, AppendProperties, ConcatProperties
<1>3. \A ss \in Seq(Seq(S)) : ss \in G
  <2> HIDE DEF G
  <2>1. QED
    BY <1>1, <1>2, SequenceInduction
<1>4. QED
  BY <1>3

\* FlattenSeq takes concatenation to concatenation.
LEMMA FlattenConcat ==
  ASSUME NEW S, NEW ss \in Seq(Seq(S))
  PROVE  \A tt \in Seq(Seq(S)) : FlattenSeq(ss \o tt) = FlattenSeq(ss) \o FlattenSeq(tt)
<1> DEFINE G == {tt \in Seq(Seq(S)) : FlattenSeq(ss \o tt) = FlattenSeq(ss) \o FlattenSeq(tt)}
<1>1. <<>> \in G
  BY FlattenEmpty, FlattenType, EmptySeq, ConcatEmptySeq
<1>2. ASSUME NEW tt \in Seq(Seq(S)), NEW s \in Seq(S), tt \in G PROVE Append(tt, s) \in G
  <2>1. ss \o Append(tt, s) = Append(ss \o tt, s)
    <3>1. <<s>> \in Seq(Seq(S)) /\ ss \o tt \in Seq(Seq(S))
      BY ConcatProperties
    <3>2. Append(tt, s) = tt \o <<s>> /\ Append(ss \o tt, s) = (ss \o tt) \o <<s>>
      BY <3>1, AppendIsConcat
    <3>3. QED
      BY <3>1, <3>2, ConcatAssociative
  <2>2. FlattenSeq(Append(ss \o tt, s)) = FlattenSeq(ss \o tt) \o s
    BY FlattenAppend, ConcatProperties
  <2>3. FlattenSeq(Append(tt, s)) = FlattenSeq(tt) \o s
    BY FlattenAppend
  <2>4. FlattenSeq(ss \o tt) \o s = FlattenSeq(ss) \o (FlattenSeq(tt) \o s)
    <3>1. FlattenSeq(ss) \in Seq(S) /\ FlattenSeq(tt) \in Seq(S)
      BY FlattenType
    <3>2. FlattenSeq(ss \o tt) = FlattenSeq(ss) \o FlattenSeq(tt)
      BY <1>2
    <3>3. QED
      BY <3>1, <3>2, ConcatAssociative
  <2>5. FlattenSeq(ss \o Append(tt, s)) = FlattenSeq(ss) \o FlattenSeq(Append(tt, s))
    BY <2>1, <2>2, <2>3, <2>4
  <2>6. QED
    BY <2>5, AppendProperties
<1>3. \A tt \in Seq(Seq(S)) : tt \in G
  <2> HIDE DEF G
  <2>1. QED
    BY <1>1, <1>2, SequenceInduction
<1>4. QED
  BY <1>3

\* What ss and FlattenSeq(ss) have in common: their elements, and each in one place if
\* none is repeated.
Laid(ss) ==
    /\ \A i \in DOMAIN ss : \A p \in DOMAIN ss[i] :
          \E n \in DOMAIN FlattenSeq(ss) : FlattenSeq(ss)[n] = ss[i][p]
    /\ \A n \in DOMAIN FlattenSeq(ss) :
          \E i \in DOMAIN ss : \E p \in DOMAIN ss[i] : ss[i][p] = FlattenSeq(ss)[n]
    /\ IsInjective(FlattenSeq(ss)) =>
          \A i, j \in DOMAIN ss : \A p \in DOMAIN ss[i], q \in DOMAIN ss[j] :
             ss[i][p] = ss[j][q] => i = j /\ p = q

\* It holds of every sequence of sequences: one sequence more adds its own elements, in
\* places of their own (the layers get_execution_order adds for one group more).
LEMMA LaidAppend ==
  ASSUME NEW S, NEW ss \in Seq(Seq(S)), NEW s \in Seq(S), Laid(ss)
  PROVE  Laid(Append(ss, s))
<1> DEFINE m == Len(ss)
           tt == Append(ss, s)
           F == FlattenSeq(ss)
           k == Len(F)
           l == Len(s)
           H == FlattenSeq(tt)
<1>1. /\ m \in Nat /\ DOMAIN ss = 1 .. m /\ DOMAIN tt = 1 .. (m + 1)
      /\ \A i \in 1 .. m : tt[i] = ss[i]
      /\ tt[m + 1] = s
  BY LenProperties, AppendProperties
<1>2. F \in Seq(S) /\ H = F \o s
  BY FlattenType, FlattenAppend
<1>3. /\ k \in Nat /\ l \in Nat /\ DOMAIN F = 1 .. k /\ DOMAIN s = 1 .. l
      /\ DOMAIN H = 1 .. (k + l)
      /\ \A n \in 1 .. k : H[n] = F[n]
      /\ \A q \in 1 .. l : H[k + q] = s[q]
  <2> HIDE DEF F, H
  <2>1. k \in Nat /\ l \in Nat /\ DOMAIN F = 1 .. k /\ DOMAIN s = 1 .. l
    BY <1>2, LenProperties
  <2>2. /\ F \o s \in Seq(S) /\ Len(F \o s) = k + l
        /\ \A n \in 1 .. k + l : (F \o s)[n] = IF n <= k THEN F[n] ELSE s[n - k]
    BY <1>2, ConcatProperties
  <2>3. DOMAIN H = 1 .. (k + l)
    BY <1>2, <2>2, LenProperties
  <2>4. ASSUME NEW n \in 1 .. k PROVE H[n] = F[n]
    <3>1. n \in 1 .. k + l /\ n <= k
      BY <2>1
    <3>2. QED
      BY <1>2, <2>2, <3>1
  <2>5. ASSUME NEW q \in 1 .. l PROVE H[k + q] = s[q]
    <3>1. k + q \in 1 .. k + l /\ ~(k + q <= k) /\ (k + q) - k = q
      BY <2>1
    <3>2. QED
      BY <1>2, <2>2, <3>1
  <2>6. QED
    BY <2>1, <2>3, <2>4, <2>5
<1>4. /\ \A i \in 1 .. m : \A p \in DOMAIN ss[i] : \E n \in 1 .. k : F[n] = ss[i][p]
      /\ \A n \in 1 .. k : \E i \in 1 .. m : \E p \in DOMAIN ss[i] : ss[i][p] = F[n]
      /\ IsInjective(F) =>
            \A i, j \in 1 .. m : \A p \in DOMAIN ss[i], q \in DOMAIN ss[j] :
               ss[i][p] = ss[j][q] => i = j /\ p = q
  <2>1. /\ \A i \in DOMAIN ss : \A p \in DOMAIN ss[i] : \E n \in DOMAIN F : F[n] = ss[i][p]
        /\ \A n \in DOMAIN F : \E i \in DOMAIN ss : \E p \in DOMAIN ss[i] : ss[i][p] = F[n]
        /\ IsInjective(F) =>
              \A i, j \in DOMAIN ss : \A p \in DOMAIN ss[i], q \in DOMAIN ss[j] :
                 ss[i][p] = ss[j][q] => i = j /\ p = q
    BY DEF Laid
  <2>2. DOMAIN ss = 1 .. m /\ DOMAIN F = 1 .. k
    BY <1>1, <1>3
  <2> HIDE DEF m, F, k
  <2> DEFINE D == DOMAIN ss
             E == DOMAIN F
  <2>3. /\ \A i \in D : \A p \in DOMAIN ss[i] : \E n \in E : F[n] = ss[i][p]
        /\ \A n \in E : \E i \in D : \E p \in DOMAIN ss[i] : ss[i][p] = F[n]
        /\ IsInjective(F) =>
              \A i, j \in D : \A p \in DOMAIN ss[i], q \in DOMAIN ss[j] :
                 ss[i][p] = ss[j][q] => i = j /\ p = q
    BY <2>1
  <2>4. D = 1 .. m /\ E = 1 .. k
    BY <2>2
  <2> HIDE DEF D, E
  <2>5. QED
    BY <2>3, <2>4
<1> HIDE DEF m, tt, F, k, l, H
<1>5. ASSUME NEW i \in 1 .. (m + 1), NEW p \in DOMAIN tt[i]
      PROVE  \E n \in 1 .. (k + l) : H[n] = tt[i][p]
  <2>1. CASE i = m + 1
    <3>1. p \in 1 .. l /\ k + p \in 1 .. (k + l) /\ H[k + p] = tt[i][p]
      BY <1>1, <1>3, <2>1
    <3>2. QED
      BY <3>1
  <2>2. CASE i # m + 1
    <3>1. i \in 1 .. m /\ tt[i] = ss[i]
      BY <1>1, <2>2
    <3>2. PICK n \in 1 .. k : F[n] = ss[i][p]
      BY <1>4, <3>1
    <3>3. n \in 1 .. (k + l) /\ H[n] = tt[i][p]
      BY <1>3, <3>1, <3>2
    <3>4. QED
      BY <3>3
  <2>3. QED
    BY <2>1, <2>2
<1>6. ASSUME NEW n \in 1 .. (k + l)
      PROVE  \E i \in 1 .. (m + 1) : \E p \in DOMAIN tt[i] : tt[i][p] = H[n]
  <2>1. CASE n <= k
    <3>1. n \in 1 .. k
      BY <1>3, <2>1
    <3>2. PICK i \in 1 .. m : \E p \in DOMAIN ss[i] : ss[i][p] = F[n]
      BY <1>4, <3>1
    <3>3. i \in 1 .. (m + 1) /\ tt[i] = ss[i] /\ H[n] = F[n]
      BY <1>1, <1>3, <3>1
    <3>4. QED
      BY <3>2, <3>3
  <2>2. CASE ~(n <= k)
    <3>1. n - k \in 1 .. l /\ k + (n - k) = n
      BY <1>3, <2>2
    <3>2. H[n] = s[n - k]
      BY <1>3, <3>1
    <3>3. m + 1 \in 1 .. (m + 1) /\ n - k \in DOMAIN tt[m + 1]
      BY <1>1, <1>3, <3>1
    <3>4. QED
      BY <1>1, <3>2, <3>3
  <2>3. QED
    BY <2>1, <2>2
<1>7. ASSUME IsInjective(H),
             NEW i \in 1 .. (m + 1), NEW j \in 1 .. (m + 1),
             NEW p \in DOMAIN tt[i], NEW q \in DOMAIN tt[j], tt[i][p] = tt[j][q]
      PROVE  i = j /\ p = q
  <2>1. \A a, b \in 1 .. (k + l) : H[a] = H[b] => a = b
    BY <1>3, <1>7 DEF IsInjective
  <2>2. IsInjective(F)
    <3>1. ASSUME NEW a \in 1 .. k, NEW b \in 1 .. k, F[a] = F[b] PROVE a = b
      <4>1. a \in 1 .. (k + l) /\ b \in 1 .. (k + l) /\ H[a] = H[b]
        BY <1>3, <3>1
      <4>2. QED
        BY <2>1, <4>1
    <3>2. QED
      BY <1>3, <3>1 DEF IsInjective
  \* The element of an earlier sequence is not one of s.
  <2>3. ASSUME NEW a \in 1 .. m, NEW b \in DOMAIN ss[a], NEW c \in 1 .. l, ss[a][b] = s[c]
        PROVE  FALSE
    <3>1. PICK n \in 1 .. k : F[n] = ss[a][b]
      BY <1>4
    <3>2. /\ n \in 1 .. (k + l) /\ k + c \in 1 .. (k + l) /\ n # k + c
          /\ H[n] = F[n] /\ H[k + c] = s[c]
      BY <1>3
    <3>3. QED
      BY <2>1, <2>3, <3>1, <3>2
  <2>4. CASE i = m + 1 /\ j = m + 1
    <3>1. p \in 1 .. l /\ q \in 1 .. l /\ s[p] = s[q]
      BY <1>1, <1>3, <1>7, <2>4
    <3>2. k + p \in 1 .. (k + l) /\ k + q \in 1 .. (k + l) /\ H[k + p] = H[k + q]
      BY <1>3, <3>1
    <3>3. k + p = k + q
      BY <2>1, <3>2
    <3>4. QED
      BY <1>3, <2>4, <3>1, <3>3
  <2>5. CASE i \in 1 .. m /\ j = m + 1
    <3>1. p \in DOMAIN ss[i] /\ q \in 1 .. l /\ ss[i][p] = s[q]
      BY <1>1, <1>3, <1>7, <2>5
    <3>2. QED
      BY <2>3, <2>5, <3>1
  <2>6. CASE i = m + 1 /\ j \in 1 .. m
    <3>1. q \in DOMAIN ss[j] /\ p \in 1 .. l /\ ss[j][q] = s[p]
      BY <1>1, <1>3, <1>7, <2>6
    <3>2. QED
      BY <2>3, <2>6, <3>1
  <2>7. CASE i \in 1 .. m /\ j \in 1 .. m
    <3>1. p \in DOMAIN ss[i] /\ q \in DOMAIN ss[j] /\ ss[i][p] = ss[j][q]
      BY <1>1, <1>7, <2>7
    <3>2. QED
      BY <1>4, <2>2, <2>7, <3>1
  <2>8. QED
    <3>1. (i = m + 1 \/ i \in 1 .. m) /\ (j = m + 1 \/ j \in 1 .. m)
      BY <1>1
    <3>2. QED
      BY <2>4, <2>5, <2>6, <2>7, <3>1
<1>8. DOMAIN tt = 1 .. (m + 1) /\ DOMAIN H = 1 .. (k + l)
  BY <1>1, <1>3
<1>9. /\ \A i \in DOMAIN tt : \A p \in DOMAIN tt[i] : \E n \in DOMAIN H : H[n] = tt[i][p]
      /\ \A n \in DOMAIN H : \E i \in DOMAIN tt : \E p \in DOMAIN tt[i] : tt[i][p] = H[n]
  BY <1>5, <1>6, <1>8
<1>10. IsInjective(H) =>
        \A i, j \in DOMAIN tt : \A p \in DOMAIN tt[i], q \in DOMAIN tt[j] :
           tt[i][p] = tt[j][q] => i = j /\ p = q
  BY <1>7, <1>8
<1>11. QED
  BY <1>9, <1>10 DEF Laid, tt, H

\* By induction, it holds of all of them.
LEMMA FlattenPlaces == ASSUME NEW S PROVE \A ss \in Seq(Seq(S)) : Laid(ss)
<1> DEFINE G == {ss \in Seq(Seq(S)) : Laid(ss)}
<1>1. <<>> \in G
  <2>1. DOMAIN <<>> = {}
    BY EmptySeq
  <2>2. QED
    BY <2>1, FlattenEmpty, EmptySeq DEF Laid
<1>2. ASSUME NEW ss \in Seq(Seq(S)), NEW s \in Seq(S), ss \in G PROVE Append(ss, s) \in G
  BY <1>2, LaidAppend, AppendProperties
<1>3. \A ss \in Seq(Seq(S)) : ss \in G
  <2> HIDE DEF G
  <2>1. QED
    BY <1>1, <1>2, SequenceInduction
<1>4. QED
  BY <1>3

-----------------------------------------------------------------------------
(* The execution order of a document. *)

Ids(s) == [i \in DOMAIN s |-> s[i].id]

AnyId == TaskId \cup {EmptyId}

Lists(gs) == [i \in DOMAIN gs |-> gs[i].tasks]

Orders(gs) == [i \in DOMAIN gs |-> GroupOrder(gs[i])]

\* A function on 1 .. n is a sequence of length n.
LEMMA FunctionIsSequence ==
  ASSUME NEW X, NEW n \in Nat, NEW f \in [1 .. n -> X]
  PROVE  f \in Seq(X) /\ Len(f) = n /\ DOMAIN f = 1 .. n
  BY SeqDef, LenProperties

\* A sequence of one element.
LEMMA OneElement ==
  ASSUME NEW S, NEW e \in S
  PROVE  <<e>> \in Seq(S) \ {<<>>} /\ Len(<<e>>) = 1 /\ <<e>>[1] = e
<1>1. <<e>> \in Seq(S) /\ Len(<<e>>) = 1 /\ <<e>>[1] = e
  OBVIOUS
<1>2. Len(<<>>) = 0
  BY EmptySeq
<1>3. QED
  BY <1>1, <1>2

\* The ids of a list of tasks, and the layers of one id each (definition.py:387).
LEMMA IdsOfTasks ==
  ASSUME NEW s \in Seq(TaskData)
  PROVE  /\ Ids(s) \in Seq(AnyId) /\ Len(Ids(s)) = Len(s)
         /\ \A i \in 1 .. Len(s) : Ids(s)[i] = s[i].id
         /\ Singly(s) \in Seq(Seq(AnyId) \ {<<>>}) /\ Len(Singly(s)) = Len(s)
         /\ \A i \in 1 .. Len(s) : Singly(s)[i] = <<s[i].id>>
<1>1. /\ Len(s) \in Nat /\ DOMAIN s = 1 .. Len(s)
      /\ \A i \in 1 .. Len(s) : s[i].id \in AnyId /\ <<s[i].id>> \in Seq(AnyId) \ {<<>>}
  <2>1. \A i \in 1 .. Len(s) : s[i] \in TaskData
    BY ElementOfSeq
  <2>2. \A i \in 1 .. Len(s) : s[i].id \in AnyId
    BY <2>1 DEF TaskData, AnyId
  <2>3. QED
    BY <2>2, LenProperties, OneElement
<1>2. Ids(s) \in [1 .. Len(s) -> AnyId] /\ Singly(s) \in [1 .. Len(s) -> Seq(AnyId) \ {<<>>}]
  BY <1>1 DEF Ids, Singly
<1>3. Ids(s) \in Seq(AnyId) /\ Singly(s) \in Seq(Seq(AnyId) \ {<<>>})
  BY <1>1, <1>2
<1>4. Len(Ids(s)) = Len(s) /\ Len(Singly(s)) = Len(s)
  BY <1>1, <1>2, <1>3, LenProperties
<1>5. QED
  BY <1>1, <1>3, <1>4 DEF Ids, Singly

\* The ids of two lists of tasks, one after the other.
LEMMA IdsOfConcat ==
  ASSUME NEW s \in Seq(TaskData), NEW t \in Seq(TaskData)
  PROVE  Ids(s \o t) = Ids(s) \o Ids(t)
<1>1. /\ s \o t \in Seq(TaskData) /\ Len(s \o t) = Len(s) + Len(t)
      /\ \A i \in 1 .. (Len(s) + Len(t)) :
             (s \o t)[i] = IF i <= Len(s) THEN s[i] ELSE t[i - Len(s)]
  BY ConcatProperties
<1>2. /\ Ids(s) \o Ids(t) \in Seq(AnyId) /\ Len(Ids(s) \o Ids(t)) = Len(s) + Len(t)
      /\ \A i \in 1 .. (Len(s) + Len(t)) :
             (Ids(s) \o Ids(t))[i] = IF i <= Len(s) THEN Ids(s)[i] ELSE Ids(t)[i - Len(s)]
  <2>1. /\ Ids(s) \in Seq(AnyId) /\ Ids(t) \in Seq(AnyId)
        /\ Len(Ids(s)) = Len(s) /\ Len(Ids(t)) = Len(t)
    BY IdsOfTasks
  <2>2. /\ Ids(s) \o Ids(t) \in Seq(AnyId) /\ Len(Ids(s) \o Ids(t)) = Len(Ids(s)) + Len(Ids(t))
        /\ \A i \in 1 .. (Len(Ids(s)) + Len(Ids(t))) :
               (Ids(s) \o Ids(t))[i] = IF i <= Len(Ids(s)) THEN Ids(s)[i]
                                                         ELSE Ids(t)[i - Len(Ids(s))]
    BY <2>1, ConcatProperties
  <2>3. QED
    BY <2>1, <2>2
<1>3. Len(s) \in Nat /\ Len(t) \in Nat
  BY LenProperties
<1>4. ASSUME NEW i \in 1 .. (Len(s) + Len(t)) PROVE Ids(s \o t)[i] = (Ids(s) \o Ids(t))[i]
  <2>1. Ids(s \o t)[i] = (s \o t)[i].id
    BY <1>1, IdsOfTasks
  <2>2. CASE i <= Len(s)
    <3>1. i \in 1 .. Len(s)
      BY <1>3, <2>2
    <3>2. Ids(s)[i] = s[i].id
      BY <3>1, IdsOfTasks
    <3>3. QED
      BY <1>1, <1>2, <2>1, <2>2, <3>2
  <2>3. CASE ~ (i <= Len(s))
    <3>1. i - Len(s) \in 1 .. Len(t)
      BY <1>3, <2>3
    <3>2. Ids(t)[i - Len(s)] = t[i - Len(s)].id
      BY <3>1, IdsOfTasks
    <3>3. QED
      BY <1>1, <1>2, <2>1, <2>3, <3>2
  <2>4. QED
    BY <2>2, <2>3
<1>5. Ids(s \o t) \in Seq(AnyId) /\ Len(Ids(s \o t)) = Len(s) + Len(t)
  BY <1>1, IdsOfTasks
<1>6. QED
  BY <1>2, <1>4, <1>5, SeqEqual

\* A last task is a last layer of a serial order.
LEMMA SinglyOfAppend ==
  ASSUME NEW s \in Seq(TaskData), NEW t \in TaskData
  PROVE  Singly(Append(s, t)) = Append(Singly(s), <<t.id>>)
<1>1. /\ Append(s, t) \in Seq(TaskData) /\ Len(Append(s, t)) = Len(s) + 1
      /\ Append(s, t)[Len(s) + 1] = t
      /\ \A i \in 1 .. Len(s) : Append(s, t)[i] = s[i]
  BY AppendProperties
<1>2. <<t.id>> \in Seq(AnyId) /\ Singly(s) \in Seq(Seq(AnyId)) /\ Len(s) \in Nat
  <2>1. t.id \in AnyId
    BY DEF TaskData, AnyId
  <2>2. Singly(s) \in Seq(Seq(AnyId))
    BY IdsOfTasks, SeqMonotonic
  <2>3. QED
    BY <2>1, <2>2, OneElement, LenProperties
<1>3. /\ Append(Singly(s), <<t.id>>) \in Seq(Seq(AnyId))
      /\ Len(Append(Singly(s), <<t.id>>)) = Len(s) + 1
      /\ Append(Singly(s), <<t.id>>)[Len(s) + 1] = <<t.id>>
      /\ \A i \in 1 .. Len(s) : Append(Singly(s), <<t.id>>)[i] = Singly(s)[i]
  BY <1>2, IdsOfTasks, AppendProperties
<1>4. /\ Singly(Append(s, t)) \in Seq(Seq(AnyId)) /\ Len(Singly(Append(s, t))) = Len(s) + 1
      /\ \A i \in 1 .. (Len(s) + 1) : Singly(Append(s, t))[i] = <<Append(s, t)[i].id>>
  BY <1>1, IdsOfTasks, SeqMonotonic
<1>5. ASSUME NEW i \in 1 .. (Len(s) + 1)
      PROVE  Singly(Append(s, t))[i] = Append(Singly(s), <<t.id>>)[i]
  <2>1. CASE i = Len(s) + 1
    BY <1>1, <1>3, <1>4, <2>1
  <2>2. CASE i # Len(s) + 1
    <3>1. i \in 1 .. Len(s)
      BY <1>2, <2>2
    <3>2. Singly(s)[i] = <<s[i].id>>
      BY <3>1, IdsOfTasks
    <3>3. QED
      BY <1>1, <1>3, <1>4, <3>1, <3>2
  <2>3. QED
    BY <2>1, <2>2
<1>6. QED
  BY <1>3, <1>4, <1>5, SeqEqual

\* Serial: laid end to end the layers are the ids of the tasks, in their order.
LEMMA SinglyInOrder == \A s \in Seq(TaskData) : FlattenSeq(Singly(s)) = Ids(s)
<1> DEFINE G == {s \in Seq(TaskData) : FlattenSeq(Singly(s)) = Ids(s)}
<1>1. <<>> \in G
  <2>1. Singly(<<>>) = <<>> /\ Ids(<<>>) = <<>>
    BY DEF Singly, Ids
  <2>2. QED
    BY <2>1, FlattenEmpty, EmptySeq
<1>2. ASSUME NEW s \in Seq(TaskData), NEW t \in TaskData, s \in G PROVE Append(s, t) \in G
  <2>1. t.id \in AnyId /\ <<t>> \in Seq(TaskData) /\ <<t.id>> \in Seq(AnyId)
    BY OneElement DEF TaskData, AnyId
  <2>2. Singly(s) \in Seq(Seq(AnyId))
    BY IdsOfTasks, SeqMonotonic
  <2>3. FlattenSeq(Append(Singly(s), <<t.id>>)) = Ids(s) \o <<t.id>>
    BY <1>2, <2>1, <2>2, FlattenAppend
  <2>4. Ids(<<t>>) = <<t.id>>
    BY DEF Ids
  <2>5. Ids(Append(s, t)) = Ids(s) \o <<t.id>>
    <3>1. Append(s, t) = s \o <<t>>
      BY AppendIsConcat
    <3>2. Ids(s \o <<t>>) = Ids(s) \o Ids(<<t>>)
      BY <2>1, IdsOfConcat
    <3>3. QED
      BY <2>4, <3>1, <3>2
  <2>6. QED
    BY <2>3, <2>5, SinglyOfAppend, AppendProperties
<1>3. \A s \in Seq(TaskData) : s \in G
  <2> HIDE DEF G
  <2>1. QED
    BY <1>1, <1>2, SequenceInduction
<1>4. QED
  BY <1>3

\* Parallel: so is the one layer.
LEMMA TogetherInOrder == ASSUME NEW s \in Seq(TaskData) PROVE FlattenSeq(Together(s)) = Ids(s)
<1>1. Ids(s) \in Seq(AnyId) /\ <<>> \in Seq(Seq(AnyId))
  BY IdsOfTasks, EmptySeq
<1>2. Together(s) = Append(<<>>, Ids(s))
  BY DEF Together, Ids
<1>3. <<>> \o Ids(s) = Ids(s)
  BY <1>1, ConcatEmptySeq
<1>4. QED
  BY <1>1, <1>2, <1>3, FlattenAppend, FlattenEmpty

\* A group with tasks is layers of their ids, none of them empty.
LEMMA GroupLayers ==
  ASSUME NEW g \in GroupData
  PROVE  /\ GroupOrder(g) \in Seq(Seq(AnyId)) /\ FlattenSeq(GroupOrder(g)) = Ids(g.tasks)
         /\ g.tasks # <<>> => GroupOrder(g) \in Seq(Seq(AnyId) \ {<<>>})
<1>1. g.tasks \in Seq(TaskData)
  BY DEF GroupData
<1>2. CASE g.mode = "serial"
  <2>1. Singly(g.tasks) \in Seq(Seq(AnyId) \ {<<>>}) /\ Singly(g.tasks) \in Seq(Seq(AnyId))
    BY <1>1, IdsOfTasks, SeqMonotonic
  <2>2. QED
    BY <1>1, <1>2, <2>1, SinglyInOrder DEF GroupOrder
<1>3. CASE g.mode # "serial"
  <2>1. Ids(g.tasks) \in Seq(AnyId) /\ Len(Ids(g.tasks)) = Len(g.tasks)
    BY <1>1, IdsOfTasks
  <2>2. g.tasks # <<>> => Ids(g.tasks) # <<>>
    BY <1>1, <2>1, EmptySeq
  <2>3. Together(g.tasks) = <<Ids(g.tasks)>>
    BY DEF Together, Ids
  <2>4. /\ Together(g.tasks) \in Seq(Seq(AnyId))
        /\ g.tasks # <<>> => Together(g.tasks) \in Seq(Seq(AnyId) \ {<<>>})
    BY <2>1, <2>2, <2>3, OneElement
  <2>5. QED
    BY <1>1, <1>3, <2>4, TogetherInOrder DEF GroupOrder
<1>4. QED
  BY <1>2, <1>3

\* The lists and the orders of groups, and what one group more adds to them.
LEMMA GroupsOf ==
  ASSUME NEW X, X \subseteq GroupData, NEW gs \in Seq(X), NEW g \in X
  PROVE  /\ Lists(gs) \in Seq(Seq(TaskData))
         /\ Orders(gs) \in Seq(Seq(Seq(AnyId)))
         /\ Lists(Append(gs, g)) = Append(Lists(gs), g.tasks)
         /\ Orders(Append(gs, g)) = Append(Orders(gs), GroupOrder(g))
<1> DEFINE n == Len(gs)
           hs == Append(gs, g)
<1>1. /\ n \in Nat /\ DOMAIN gs = 1 .. n /\ DOMAIN hs = 1 .. (n + 1)
      /\ \A i \in 1 .. n : hs[i] = gs[i] /\ gs[i] \in GroupData
      /\ hs[n + 1] = g /\ g \in GroupData
  BY LenProperties, AppendProperties, ElementOfSeq
<1>2. \A h \in GroupData : h.tasks \in Seq(TaskData) /\ GroupOrder(h) \in Seq(Seq(AnyId))
  BY GroupLayers DEF GroupData
<1>3. /\ Lists(gs) \in [1 .. n -> Seq(TaskData)] /\ Orders(gs) \in [1 .. n -> Seq(Seq(AnyId))]
      /\ Lists(hs) \in [1 .. (n + 1) -> Seq(TaskData)]
      /\ Orders(hs) \in [1 .. (n + 1) -> Seq(Seq(AnyId))]
  BY <1>1, <1>2 DEF Lists, Orders
<1>4. /\ Lists(gs) \in Seq(Seq(TaskData)) /\ Len(Lists(gs)) = n
      /\ Orders(gs) \in Seq(Seq(Seq(AnyId))) /\ Len(Orders(gs)) = n
      /\ Lists(hs) \in Seq(Seq(TaskData)) /\ Len(Lists(hs)) = n + 1
      /\ Orders(hs) \in Seq(Seq(Seq(AnyId))) /\ Len(Orders(hs)) = n + 1
  <2> HIDE DEF n, hs
  <2>1. n + 1 \in Nat
    BY <1>1
  <2>2. QED
    BY <1>1, <1>3, <2>1, LenProperties
<1>5. g.tasks \in Seq(TaskData) /\ GroupOrder(g) \in Seq(Seq(AnyId))
  BY <1>1, <1>2
<1>6. /\ Append(Lists(gs), g.tasks) \in Seq(Seq(TaskData))
      /\ Len(Append(Lists(gs), g.tasks)) = n + 1
      /\ Append(Lists(gs), g.tasks)[n + 1] = g.tasks
      /\ \A i \in 1 .. n : Append(Lists(gs), g.tasks)[i] = gs[i].tasks
  <2>1. \A i \in 1 .. n : Lists(gs)[i] = gs[i].tasks
    BY <1>1 DEF Lists
  <2>2. /\ Append(Lists(gs), g.tasks) \in Seq(Seq(TaskData))
        /\ Len(Append(Lists(gs), g.tasks)) = Len(Lists(gs)) + 1
        /\ Append(Lists(gs), g.tasks)[Len(Lists(gs)) + 1] = g.tasks
        /\ \A i \in 1 .. Len(Lists(gs)) : Append(Lists(gs), g.tasks)[i] = Lists(gs)[i]
    BY <1>4, <1>5, AppendProperties
  <2> HIDE DEF n
  <2>3. QED
    BY <1>4, <2>1, <2>2
<1>7. /\ Append(Orders(gs), GroupOrder(g)) \in Seq(Seq(Seq(AnyId)))
      /\ Len(Append(Orders(gs), GroupOrder(g))) = n + 1
      /\ Append(Orders(gs), GroupOrder(g))[n + 1] = GroupOrder(g)
      /\ \A i \in 1 .. n : Append(Orders(gs), GroupOrder(g))[i] = GroupOrder(gs[i])
  <2>1. \A i \in 1 .. n : Orders(gs)[i] = GroupOrder(gs[i])
    BY <1>1 DEF Orders
  <2>2. /\ Append(Orders(gs), GroupOrder(g)) \in Seq(Seq(Seq(AnyId)))
        /\ Len(Append(Orders(gs), GroupOrder(g))) = Len(Orders(gs)) + 1
        /\ Append(Orders(gs), GroupOrder(g))[Len(Orders(gs)) + 1] = GroupOrder(g)
        /\ \A i \in 1 .. Len(Orders(gs)) : Append(Orders(gs), GroupOrder(g))[i] = Orders(gs)[i]
    BY <1>4, <1>5, AppendProperties
  <2> HIDE DEF n
  <2>3. QED
    BY <1>4, <2>1, <2>2
<1>8. ASSUME NEW i \in 1 .. (n + 1)
      PROVE  /\ Lists(hs)[i] = Append(Lists(gs), g.tasks)[i]
             /\ Orders(hs)[i] = Append(Orders(gs), GroupOrder(g))[i]
  <2> HIDE DEF n, hs
  <2>1. Lists(hs)[i] = hs[i].tasks /\ Orders(hs)[i] = GroupOrder(hs[i])
    BY <1>1 DEF Lists, Orders
  <2>2. CASE i = n + 1
    BY <1>1, <1>6, <1>7, <2>1, <2>2
  <2>3. CASE i # n + 1
    <3>1. i \in 1 .. n
      BY <1>1, <2>3
    <3>2. QED
      BY <1>1, <1>6, <1>7, <2>1, <3>1
  <2>4. QED
    BY <2>2, <2>3
<1>9. QED
  <2> HIDE DEF n, hs
  <2>1. Lists(hs) = Append(Lists(gs), g.tasks)
    BY <1>4, <1>6, <1>8, SeqEqual
  <2>2. Orders(hs) = Append(Orders(gs), GroupOrder(g))
    BY <1>4, <1>7, <1>8, SeqEqual
  <2>3. QED
    BY <1>4, <2>1, <2>2 DEF hs

\* The orders of the groups, laid end to end twice, are the ids of their tasks
\* (definition.py:455, one group after the other).
LEMMA GroupsInOrder ==
  \A gs \in Seq(GroupData) : FlattenSeq(FlattenSeq(Orders(gs))) = Ids(FlattenSeq(Lists(gs)))
<1> DEFINE G == {gs \in Seq(GroupData) :
                   FlattenSeq(FlattenSeq(Orders(gs))) = Ids(FlattenSeq(Lists(gs)))}
<1>1. <<>> \in G
  <2>1. Orders(<<>>) = <<>> /\ Lists(<<>>) = <<>> /\ Ids(<<>>) = <<>>
    BY DEF Orders, Lists, Ids
  <2>2. QED
    BY <2>1, FlattenEmpty, EmptySeq
<1>2. ASSUME NEW gs \in Seq(GroupData), NEW g \in GroupData, gs \in G PROVE Append(gs, g) \in G
  <2> DEFINE order == FlattenSeq(Orders(gs))
             list == FlattenSeq(Lists(gs))
  <2>1. /\ Lists(gs) \in Seq(Seq(TaskData)) /\ Orders(gs) \in Seq(Seq(Seq(AnyId)))
        /\ Lists(Append(gs, g)) = Append(Lists(gs), g.tasks)
        /\ Orders(Append(gs, g)) = Append(Orders(gs), GroupOrder(g))
    BY GroupsOf
  <2>2. /\ g.tasks \in Seq(TaskData) /\ GroupOrder(g) \in Seq(Seq(AnyId))
        /\ FlattenSeq(GroupOrder(g)) = Ids(g.tasks)
    BY GroupLayers DEF GroupData
  <2>3. order \in Seq(Seq(AnyId)) /\ list \in Seq(TaskData)
    BY <2>1, FlattenType
  <2>4. FlattenSeq(Append(Orders(gs), GroupOrder(g))) = order \o GroupOrder(g)
    BY <2>1, <2>2, FlattenAppend
  <2>5. FlattenSeq(Append(Lists(gs), g.tasks)) = list \o g.tasks
    BY <2>1, <2>2, FlattenAppend
  <2>6. FlattenSeq(order) = Ids(list)
    BY <1>2
  <2>7. FlattenSeq(order \o GroupOrder(g)) = FlattenSeq(order) \o FlattenSeq(GroupOrder(g))
    <3> HIDE DEF order
    <3>1. QED
      BY <2>2, <2>3, FlattenConcat
  <2>8. Ids(list \o g.tasks) = Ids(list) \o Ids(g.tasks)
    <3> HIDE DEF list
    <3>1. QED
      BY <2>2, <2>3, IdsOfConcat
  <2>9. FlattenSeq(FlattenSeq(Orders(Append(gs, g)))) = Ids(FlattenSeq(Lists(Append(gs, g))))
    BY <2>1, <2>2, <2>4, <2>5, <2>6, <2>7, <2>8
  <2>10. QED
    BY <2>9, AppendProperties
<1>3. \A gs \in Seq(GroupData) : gs \in G
  <2> HIDE DEF G
  <2>1. QED
    BY <1>1, <1>2, SequenceInduction
<1>4. QED
  BY <1>3

\* Layers that are not empty and hold the ids of the tasks in order; tasks that are sound
\* and differ in their ids.
GoodPlan(d) ==
    /\ ExecutionOrder(d) \in Seq(Seq(AnyId) \ {<<>>})
    /\ FlattenSeq(ExecutionOrder(d)) = Ids(ListedTasks(d))
    /\ ListedTasks(d) \in Seq({t \in TaskData : TaskValid(t)})
    /\ DistinctIds(ListedTasks(d))

\* A good plan is an order of the listed tasks as the executor assumes it: as their ids
\* differ, each of them has one place.
LEMMA GoodOrder ==
  ASSUME NEW d, GoodPlan(d)
  PROVE  IsOrderOf(ExecutionOrder(d), Range(Ids(ListedTasks(d))))
<1> DEFINE layers == ExecutionOrder(d)
           s == ListedTasks(d)
           I == Range(Ids(s))
<1>1. /\ layers \in Seq(Seq(AnyId) \ {<<>>}) /\ FlattenSeq(layers) = Ids(s)
      /\ DistinctIds(s)
  BY DEF GoodPlan
<1>2. IsInjective(Ids(s)) /\ \A n \in DOMAIN Ids(s) : Ids(s)[n] \in I
  BY <1>1 DEF IsInjective, Range, DistinctIds, Ids
<1>3. \A e \in I : \E n \in DOMAIN Ids(s) : Ids(s)[n] = e
  BY DEF Range
<1> HIDE DEF layers, s, I
<1>4. layers \in Seq(Seq(AnyId)) /\ Laid(layers)
  BY <1>1, SeqMonotonic, FlattenPlaces
<1>5. /\ Len(layers) \in Nat /\ DOMAIN layers = 1 .. Len(layers)
      /\ \A i \in DOMAIN layers : layers[i] \in Seq(AnyId) /\ layers[i] # <<>>
  BY <1>1, LenProperties, ElementOfSeq
<1>6. \A i \in DOMAIN layers : \A p \in DOMAIN layers[i] : layers[i][p] \in I
  BY <1>1, <1>2, <1>4 DEF Laid
<1>7. \A i \in DOMAIN layers : layers[i] \in Seq(I) /\ Len(layers[i]) > 0
  <2> SUFFICES ASSUME NEW i \in DOMAIN layers PROVE layers[i] \in Seq(I) /\ Len(layers[i]) > 0
    OBVIOUS
  <2> DEFINE r == layers[i]
  <2>1. r \in Seq(AnyId) /\ r # <<>> /\ \A p \in DOMAIN r : r[p] \in I
    BY <1>5, <1>6
  <2> HIDE DEF r
  <2>2. Len(r) \in Nat /\ DOMAIN r = 1 .. Len(r) /\ r \in [1 .. Len(r) -> AnyId]
    BY <2>1, LenProperties
  <2>3. r \in [1 .. Len(r) -> I] /\ Len(r) # 0
    BY <2>1, <2>2, EmptySeq
  <2>4. QED
    BY <2>2, <2>3 DEF r
<1>8. layers \in Seq(Seq(I))
  <2>1. layers \in [1 .. Len(layers) -> Seq(AnyId) \ {<<>>}]
    BY <1>1, LenProperties
  <2>2. layers \in [1 .. Len(layers) -> Seq(I)]
    BY <1>5, <1>7, <2>1
  <2>3. QED
    BY <1>5, <2>2
<1>9. \A e \in I : \E i \in DOMAIN layers : \E p \in DOMAIN layers[i] : layers[i][p] = e
  BY <1>1, <1>3, <1>4 DEF Laid
<1>10. \A i, j \in DOMAIN layers : \A p \in DOMAIN layers[i], q \in DOMAIN layers[j] :
          layers[i][p] = layers[j][q] => i = j /\ p = q
  BY <1>1, <1>2, <1>4 DEF Laid
<1>11. IsOrderOf(layers, I)
  BY <1>7, <1>8, <1>9, <1>10 DEF IsOrderOf
<1>12. QED
  BY <1>11 DEF layers, s, I

\* A serial or a parallel document that is accepted has a good plan.
LEMMA FlatPlan == ASSUME NEW d \in FlatDocument, FlatValid(d) PROVE GoodPlan(d)
<1> DEFINE s == d.tasks
<1>1. d.mode \in {"serial", "parallel"} /\ s \in Seq(TaskData) /\ ListedTasks(d) = s
  BY DEF FlatDocument, ListedTasks
<1>2. s # <<>> /\ DistinctIds(s) /\ \A i \in DOMAIN s : TaskValid(s[i])
  BY DEF FlatValid
<1>3. s \in Seq({t \in TaskData : TaskValid(t)})
  <2> HIDE DEF s
  <2>1. Len(s) \in Nat /\ DOMAIN s = 1 .. Len(s) /\ s \in [1 .. Len(s) -> TaskData]
    BY <1>1, LenProperties
  <2>2. s \in [1 .. Len(s) -> {t \in TaskData : TaskValid(t)}]
    BY <1>2, <2>1
  <2>3. QED
    BY <2>1, <2>2
<1>4. CASE d.mode = "serial"
  <2>1. ExecutionOrder(d) = Singly(s)
    BY <1>4 DEF ExecutionOrder
  <2> HIDE DEF s
  <2>2. Singly(s) \in Seq(Seq(AnyId) \ {<<>>}) /\ FlattenSeq(Singly(s)) = Ids(s)
    BY <1>1, IdsOfTasks, SinglyInOrder
  <2>3. QED
    BY <1>1, <1>2, <1>3, <2>1, <2>2 DEF GoodPlan
<1>5. CASE d.mode = "parallel"
  <2>1. ExecutionOrder(d) = Together(s)
    BY <1>5 DEF ExecutionOrder
  <2> HIDE DEF s
  <2>2. Together(s) = <<Ids(s)>> /\ FlattenSeq(Together(s)) = Ids(s)
    BY <1>1, TogetherInOrder DEF Together, Ids
  <2>3. Ids(s) \in Seq(AnyId) \ {<<>>}
    BY <1>1, <1>2, IdsOfTasks, EmptySeq
  <2>4. Together(s) \in Seq(Seq(AnyId) \ {<<>>})
    BY <2>2, <2>3, OneElement
  <2>5. QED
    BY <1>1, <1>2, <1>3, <2>1, <2>2, <2>4 DEF GoodPlan
<1>6. QED
  BY <1>1, <1>4, <1>5

\* A hybrid one too: it is where layers of groups and of final tasks come together.
LEMMA HybridPlan == ASSUME NEW d \in HybridDocument, HybridValid(d) PROVE GoodPlan(d)
<1> DEFINE gs == d.groups
           s == d.final
           Sound == {t \in TaskData : TaskValid(t)}
           order == FlattenSeq(Orders(gs))
           list == FlattenSeq(Lists(gs))
<1>1. /\ gs \in Seq(GroupData) /\ s \in Seq(TaskData)
      /\ ListedTasks(d) = list \o s
      /\ ExecutionOrder(d) = order \o Singly(s)
  BY DEF HybridDocument, ListedTasks, ExecutionOrder, Lists, Orders
<1>2. /\ \A i \in DOMAIN gs : GroupValid(gs[i])
      /\ DistinctIds(ListedTasks(d))
      /\ \A i \in DOMAIN s : TaskValid(s[i])
  BY DEF HybridValid
<1>3. /\ Len(gs) \in Nat /\ DOMAIN gs = 1 .. Len(gs)
      /\ \A i \in 1 .. Len(gs) : gs[i] \in GroupData
  <2> HIDE DEF gs
  <2>1. QED
    BY <1>1, LenProperties, ElementOfSeq
<1>4. ASSUME NEW i \in 1 .. Len(gs)
      PROVE  /\ gs[i].tasks \in Seq(Sound)
             /\ GroupOrder(gs[i]) \in Seq(Seq(AnyId) \ {<<>>})
             /\ GroupOrder(gs[i]) \in Seq(Seq(AnyId)) /\ gs[i].tasks \in Seq(TaskData)
  <2> DEFINE r == gs[i].tasks
  <2>1. gs[i] \in GroupData /\ GroupValid(gs[i])
    BY <1>2, <1>3
  <2>2. r \in Seq(TaskData) /\ r # <<>> /\ \A j \in DOMAIN r : TaskValid(r[j])
    BY <2>1 DEF GroupData, GroupValid
  <2>3. r \in Seq(Sound)
    <3> HIDE DEF r
    <3>1. Len(r) \in Nat /\ DOMAIN r = 1 .. Len(r) /\ r \in [1 .. Len(r) -> TaskData]
      BY <2>2, LenProperties
    <3>2. r \in [1 .. Len(r) -> Sound]
      BY <2>2, <3>1
    <3>3. QED
      BY <3>1, <3>2
  <2>4. QED
    BY <2>1, <2>2, <2>3, GroupLayers
<1>5. /\ Lists(gs) \in Seq(Seq(Sound)) /\ Orders(gs) \in Seq(Seq(Seq(AnyId) \ {<<>>}))
      /\ Lists(gs) \in Seq(Seq(TaskData)) /\ Orders(gs) \in Seq(Seq(Seq(AnyId)))
  <2>1. /\ Lists(gs) \in [1 .. Len(gs) -> Seq(Sound)]
        /\ Orders(gs) \in [1 .. Len(gs) -> Seq(Seq(AnyId) \ {<<>>})]
        /\ Lists(gs) \in [1 .. Len(gs) -> Seq(TaskData)]
        /\ Orders(gs) \in [1 .. Len(gs) -> Seq(Seq(AnyId))]
    <3> HIDE DEF gs, Sound
    <3>1. QED
      BY <1>3, <1>4 DEF Lists, Orders
  <2> HIDE DEF gs, Sound
  <2>2. QED
    BY <1>3, <2>1, FunctionIsSequence
<1>6. /\ list \in Seq(Sound) /\ order \in Seq(Seq(AnyId) \ {<<>>})
      /\ list \in Seq(TaskData) /\ order \in Seq(Seq(AnyId))
  <2> HIDE DEF gs, Sound
  <2>1. QED
    BY <1>5, FlattenType
<1>7. s \in Seq(Sound)
  <2> HIDE DEF s
  <2>1. Len(s) \in Nat /\ DOMAIN s = 1 .. Len(s) /\ s \in [1 .. Len(s) -> TaskData]
    BY <1>1, LenProperties
  <2>2. s \in [1 .. Len(s) -> Sound]
    BY <1>2, <2>1
  <2>3. QED
    BY <2>1, <2>2
<1>8. /\ Singly(s) \in Seq(Seq(AnyId) \ {<<>>}) /\ Singly(s) \in Seq(Seq(AnyId))
      /\ FlattenSeq(Singly(s)) = Ids(s)
  <2> HIDE DEF s
  <2>1. QED
    BY <1>1, IdsOfTasks, SinglyInOrder, SeqMonotonic
<1>9. list \o s \in Seq(Sound)
  <2> HIDE DEF s, list, Sound
  <2>1. QED
    BY <1>6, <1>7, ConcatProperties
<1>10. ExecutionOrder(d) \in Seq(Seq(AnyId) \ {<<>>})
  <2> HIDE DEF s, order
  <2>1. QED
    BY <1>1, <1>6, <1>8, ConcatProperties
<1>11. FlattenSeq(ExecutionOrder(d)) = Ids(ListedTasks(d))
  <2>1. FlattenSeq(order) = Ids(list)
    BY <1>1, GroupsInOrder
  <2> HIDE DEF s, order, list
  <2>2. FlattenSeq(order \o Singly(s)) = FlattenSeq(order) \o FlattenSeq(Singly(s))
    BY <1>6, <1>8, FlattenConcat
  <2>3. Ids(list \o s) = Ids(list) \o Ids(s)
    BY <1>1, <1>6, IdsOfConcat
  <2>4. QED
    BY <1>1, <1>8, <2>1, <2>2, <2>3
<1>12. QED
  BY <1>1, <1>2, <1>9, <1>10, <1>11 DEF GoodPlan

-----------------------------------------------------------------------------
(* The batch. *)

BatchTypes ==
    /\ command \in {"workflow", "case"} /\ found \in Nat
    /\ at \in {"next", "parsed", "running", "done"}
    /\ stop \in BOOLEAN
    /\ results \in Seq({"success", "failed", "skipped"})
    /\ Len(results) <= found
    /\ doc # NoDocument => doc \in Document /\ Accepted(doc)

\* A file is being looked at while its workflow is parsed or runs; a case batch
\* never parses, skips or knows the stop event.
UnderWay ==
    /\ at \in {"parsed", "running"} => command = "workflow" /\ Len(results) < found
    /\ command = "case" => ~stop

\* A skip says the stop event is set, and after it nothing runs.
SkippedStops ==
    \A i \in DOMAIN results : results[i] = "skipped" =>
        /\ stop /\ at # "running"
        /\ \A j \in DOMAIN results : i < j => results[j] # "success"

\* 0 is the code of a report.
ExitTells ==
    exit = 0 => at = "done" /\ ExitZeroMeansAll

BatchInv == BatchTypes /\ UnderWay /\ SkippedStops /\ ExitTells

\* The loop starts with no result.
LEMMA BatchStarts == BatchInit => BatchInv
<1> SUFFICES ASSUME BatchInit PROVE BatchInv
  OBVIOUS
<1>1. results = <<>> /\ Len(results) = 0 /\ results \in Seq({"success", "failed", "skipped"})
  BY EmptySeq DEF BatchInit
<1>2. QED
  <2>1. BatchTypes
    <3>1. found \in Nat /\ 0 <= found
      BY BatchAssumption DEF BatchInit
    <3>2. /\ command \in {"workflow", "case"} /\ at = "next" /\ doc = NoDocument
          /\ stop = FALSE
      BY DEF BatchInit
    <3>3. QED
      BY <1>1, <3>1, <3>2 DEF BatchTypes
  <2>2. DOMAIN results = {}
    BY <1>1
  <2>3. UnderWay /\ SkippedStops /\ ExitTells
    BY <2>2 DEF BatchInit, UnderWay, SkippedStops, ExitTells
  <2>4. QED
    BY <2>1, <2>3 DEF BatchInv

\* What one more result leaves of those there are.
LEMMA OneMore ==
  ASSUME BatchTypes, NEW status \in {"success", "failed", "skipped"}
  PROVE  /\ Append(results, status) \in Seq({"success", "failed", "skipped"})
         /\ Len(Append(results, status)) = Len(results) + 1
         /\ Append(results, status)[Len(results) + 1] = status
         /\ \A i \in DOMAIN results : Append(results, status)[i] = results[i]
         /\ DOMAIN results = 1 .. Len(results) /\ Len(results) \in Nat
         /\ DOMAIN Append(results, status) = 1 .. (Len(results) + 1)
<1>1. results \in Seq({"success", "failed", "skipped"})
  BY DEF BatchTypes
<1>2. /\ Append(results, status) \in Seq({"success", "failed", "skipped"})
      /\ Len(Append(results, status)) = Len(results) + 1
      /\ Append(results, status)[Len(results) + 1] = status
      /\ \A i \in 1 .. Len(results) : Append(results, status)[i] = results[i]
  BY <1>1, AppendProperties
<1>3. QED
  BY <1>1, <1>2, LenProperties

\* One more result: no success comes after a skip.
LEMMA ResultAdded ==
  ASSUME BatchInv, NEW status \in {"success", "failed", "skipped"},
         results' = Append(results, status), at' = "next", stop' = stop,
         status = "skipped" => stop,
         status = "success" => at = "running" \/ ~stop
  PROVE  SkippedStops'
<1> DEFINE n == Len(results)
<1>1. /\ results'[n + 1] = status /\ n \in Nat /\ DOMAIN results = 1 .. n
      /\ \A i \in 1 .. n : results'[i] = results[i]
      /\ DOMAIN results' = 1 .. (n + 1)
  BY OneMore DEF BatchInv
<1> HIDE DEF n
<1>2. ASSUME NEW i \in DOMAIN results', results'[i] = "skipped"
      PROVE  stop /\ \A j \in DOMAIN results' : i < j => results'[j] # "success"
  <2>1. CASE i = n + 1
    BY <1>1, <1>2, <2>1
  <2>2. CASE i \in 1 .. n
    <3>1. /\ stop /\ at # "running"
          /\ \A j \in 1 .. n : i < j => results[j] # "success"
      BY <1>1, <1>2, <2>2 DEF BatchInv, SkippedStops
    <3>2. status # "success"
      BY <3>1
    <3>3. QED
      BY <1>1, <3>1, <3>2
  <2>3. QED
    BY <1>1, <1>2, <2>1, <2>2
<1>3. QED
  BY <1>2 DEF SkippedStops

\* A file that does not parse: a failure, or the end of the program (main.py:445).
LEMMA ParseFailsKeeps == ASSUME BatchInv, ParseFails PROVE BatchInv'
<1>1. CASE timed
  <2>1. /\ results' = Append(results, "failed") /\ at = "next" /\ at' = at
        /\ exit' = exit /\ Len(results) < found /\ command = "workflow"
    BY <1>1 DEF ParseFails, More
  <2>2. UNCHANGED <<command, found, doc, stop>>
    BY DEF ParseFails, given
  <2>3. BatchTypes'
    BY <2>1, <2>2, OneMore DEF BatchInv, BatchTypes
  <2>4. SkippedStops'
    BY <2>1, <2>2, ResultAdded
  <2>5. UnderWay' /\ ExitTells'
    BY <2>1, <2>2 DEF BatchInv, UnderWay, ExitTells
  <2>6. QED
    BY <2>3, <2>4, <2>5 DEF BatchInv
<1>2. CASE ~timed
  BY <1>2 DEF ParseFails, given, BatchInv, BatchTypes, UnderWay, SkippedStops, ExitTells, Accepted
<1>3. QED
  BY <1>1, <1>2

\* The end of a workflow, skipped or run (main.py:433).
LEMMA EndsKeeps ==
  ASSUME BatchInv, NEW status \in {"success", "failed", "skipped"}, Ends(status),
         Len(results) < found, at \in {"parsed", "running"},
         UNCHANGED <<given, stop, exit>>,
         status = "skipped" => stop,
         status = "success" => at = "running"
  PROVE  BatchInv'
<1>1. results' = Append(results, status) /\ at' = "next" /\ doc' = NoDocument
  BY DEF Ends
<1>2. UNCHANGED <<command, found, stop, exit>>
  BY DEF given
<1>3. BatchTypes'
  BY <1>1, <1>2, OneMore DEF BatchInv, BatchTypes
<1>4. SkippedStops'
  BY <1>1, <1>2, ResultAdded
<1>5. UnderWay' /\ ExitTells'
  BY <1>1, <1>2 DEF BatchInv, UnderWay, ExitTells
<1>6. QED
  BY <1>3, <1>4, <1>5 DEF BatchInv

\* A case file (case/base.py, execute_single): no skip can be there before it.
LEMMA RunCaseKeeps == ASSUME BatchInv, RunCase PROVE BatchInv'
<1>1. PICK status \in {"success", "failed"} : results' = Append(results, status)
  BY DEF RunCase
<1>2. /\ at = "next" /\ at' = at /\ Len(results) < found /\ command = "case"
      /\ UNCHANGED <<command, found, doc, stop, exit>>
  BY DEF RunCase, More, given
<1>3. BatchTypes'
  BY <1>1, <1>2, OneMore DEF BatchInv, BatchTypes
<1>4. SkippedStops'
  BY <1>1, <1>2, ResultAdded DEF BatchInv, UnderWay
<1>5. UnderWay' /\ ExitTells'
  BY <1>1, <1>2 DEF BatchInv, UnderWay, ExitTells
<1>6. QED
  BY <1>3, <1>4, <1>5 DEF BatchInv

\* The report and the exit code (main.py:458).
LEMMA ReportsKeeps == ASSUME BatchInv, Reports PROVE BatchInv'
<1>1. /\ at = "next" /\ at' = "done" /\ ~ (Len(results) < found)
      /\ UNCHANGED <<command, found, doc, stop, results>>
  BY DEF Reports, More, given
<1>2. /\ Len(results) \in Nat /\ found \in Nat /\ Len(results) <= found
  BY LenProperties DEF BatchInv, BatchTypes
<1>3. BatchTypes' /\ UnderWay' /\ SkippedStops'
  BY <1>1 DEF BatchInv, BatchTypes, UnderWay, SkippedStops
<1>4. exit' = 0 => \A i \in DOMAIN results : results[i] = "success"
  BY DEF Reports
<1>5. ExitTells'
  BY <1>1, <1>2, <1>4 DEF ExitTells, ExitZeroMeansAll
<1>6. QED
  BY <1>3, <1>5 DEF BatchInv

\* Every step of the batch keeps BatchInv.
LEMMA BatchStep == ASSUME BatchInv, [BatchNext]_batchVars PROVE BatchInv'
<1> USE DEF given
<1>1. CASE ParseFails
  BY <1>1, ParseFailsKeeps
<1>2. CASE Parses
  <2>1. PICK d \in Document : Accepted(d) /\ doc' = d
    BY <1>2 DEF Parses
  <2>2. /\ at' = "parsed" /\ Len(results) < found /\ command = "workflow"
        /\ UNCHANGED <<command, found, stop, results, exit>>
        /\ at = "next"
    BY <1>2 DEF Parses, More
  <2>3. BatchTypes'
    <3>1. Accepted(doc)' <=> Accepted(d)
      BY <2>1 DEF Accepted, HybridValid, FlatValid, ListedTasks
    <3>2. QED
      BY <2>1, <2>2, <3>1 DEF BatchInv, BatchTypes
  <2>4. UnderWay' /\ SkippedStops' /\ ExitTells'
    BY <2>2 DEF BatchInv, UnderWay, SkippedStops, ExitTells
  <2>5. QED
    BY <2>3, <2>4 DEF BatchInv
<1>3. CASE Skips
  BY <1>3, EndsKeeps DEF Skips, BatchInv, UnderWay
<1>4. CASE Runs
  <2>1. /\ at = "parsed" /\ at' = "running" /\ ~stop
        /\ UNCHANGED <<command, found, doc, stop, results, exit>>
    BY <1>4 DEF Runs
  <2>2. QED
    BY <2>1 DEF BatchInv, BatchTypes, UnderWay, SkippedStops, ExitTells
<1>5. CASE RunEnds
  <2>1. PICK status \in {"success", "failed"} : Ends(status)
    BY <1>5 DEF RunEnds
  <2>2. QED
    BY <1>5, <2>1, EndsKeeps DEF RunEnds, BatchInv, UnderWay
<1>6. CASE Reports
  BY <1>6, ReportsKeeps
<1>7. CASE RunCase
  BY <1>7, RunCaseKeeps
<1>8. CASE Stop
  <2>1. /\ command = "workflow" /\ stop'
        /\ UNCHANGED <<command, found, at, doc, results, exit>> /\ stop' \in BOOLEAN
    BY <1>8 DEF Stop
  <2>2. QED
    BY <2>1 DEF BatchInv, BatchTypes, UnderWay, SkippedStops, ExitTells, ExitZeroMeansAll
<1>9. CASE Interrupt
  <2>1. /\ command = "case" /\ at' = "done" /\ exit' = 1
        /\ UNCHANGED <<command, found, doc, stop, results>>
    BY <1>9 DEF Interrupt
  <2>2. QED
    BY <2>1 DEF BatchInv, BatchTypes, UnderWay, SkippedStops, ExitTells
<1>10. CASE UNCHANGED batchVars
  BY <1>10 DEF batchVars, BatchInv, BatchTypes, UnderWay, SkippedStops, ExitTells, ExitZeroMeansAll
<1>11. QED
  BY <1>1, <1>2, <1>3, <1>4, <1>5, <1>6, <1>7, <1>8, <1>9, <1>10 DEF BatchNext, BatchTerminated

\* BatchInv holds throughout.
LEMMA BatchInvariant == BatchSpec => []BatchInv
  BY BatchStarts, BatchStep, PTL DEF BatchSpec

\* Every document that gets past the parser has a plan the executor can run, whatever
\* its tasks and groups are and however many: no layer is empty, and end to end the
\* layers are the listed tasks, each once and in order (definition.py:387, 413, 455).
THEOREM PlansAreComplete == BatchSpec => []PlanIsComplete
<1>1. ASSUME BatchInv PROVE PlanIsComplete
  <2>1. SUFFICES ASSUME doc # NoDocument PROVE PlanIsComplete
    BY DEF PlanIsComplete
  <2>2. GoodPlan(doc)
    <3>1. doc \in FlatDocument \cup HybridDocument /\ Accepted(doc)
      BY <1>1, <2>1, BatchAssumption DEF BatchInv, BatchTypes
    <3>2. CASE doc \in FlatDocument
      <4>1. doc.mode # "hybrid"
        BY <3>2 DEF FlatDocument
      <4>2. QED
        BY <3>1, <3>2, <4>1, FlatPlan DEF Accepted
    <3>3. CASE doc \in HybridDocument
      <4>1. doc.mode = "hybrid"
        BY <3>3 DEF HybridDocument
      <4>2. QED
        BY <3>1, <3>3, <4>1, HybridPlan DEF Accepted
    <3>4. QED
      BY <3>1, <3>2, <3>3
  <2> DEFINE s == ListedTasks(doc)
             flat == FlattenSeq(ExecutionOrder(doc))
  <2>3. flat = Ids(s) /\ DistinctIds(s) /\ s \in Seq({t \in TaskData : TaskValid(t)})
    BY <2>2 DEF GoodPlan
  <2>5. \A i \in DOMAIN s : s[i].id \in TaskId
    <3> HIDE DEF s
    <3>1. \A i \in DOMAIN s : s[i] \in {t \in TaskData : TaskValid(t)}
      BY <2>3, LenProperties, ElementOfSeq
    <3>2. QED
      BY <3>1 DEF TaskData, TaskValid
  <2>6. Range(Ids(s)) \subseteq TaskId
    BY <2>5 DEF Range, Ids
  <2>7. IsOrderOf(ExecutionOrder(doc), Range(Ids(s)))
    BY <2>2, GoodOrder
  <2>8. QED
    BY <2>3, <2>6, <2>7 DEF PlanIsComplete, Ids
<1>2. QED
  BY <1>1, BatchInvariant, PTL

\* The process ends with 0 only if every file that was found has a result and all are
\* successes (main.py:127, 462), for every number of files.
THEOREM ExitIsHonest == BatchSpec => []ExitZeroMeansAll
<1>1. BatchInv => ExitZeroMeansAll
  BY DEF BatchInv, ExitTells, ExitZeroMeansAll
<1>2. QED
  BY <1>1, BatchInvariant, PTL

\* After a workflow that was skipped no other is run to a success: the stop event of
\* the one executor is never reset (executor.py, stop).
THEOREM SkipsAreLast == BatchSpec => []StopStopsTheBatch
<1>1. BatchInv => StopStopsTheBatch
  BY DEF BatchInv, SkippedStops, StopStopsTheBatch
<1>2. QED
  BY <1>1, BatchInvariant, PTL


-----------------------------------------------------------------------------
(* One case. *)


Place == {"idle", "select", "inject", "record", "recover", "mark", "fail", "clear", "clearing",
          "snapshot", "records", "sweep", "true", "false"}

StoreRecord == {NoRecord} \cup [case : Case, status : Status \ {"none"}]

\* A case that acts on a target has one, and a fault id that names its pod.
OnTarget == {"inject", "record", "recover", "mark", "fail"}
HasFault == {"record", "recover", "mark", "fail"}

Types ==
    /\ clock \in 0 .. MaxSecond
    /\ pc \in [Actor -> Place]
    /\ todo \in [Case -> Seq(Pod)]
    /\ fid \in [Actor -> Id \cup {NoId}]
    /\ faults \in [Slot -> SUBSET Case]
    /\ store \in [Id -> StoreRecord]
    /\ saving \in [Actor -> {"none", "got", "loaded", "cut"}]
    /\ buffer \in [Actor -> [Id -> StoreRecord]]
    /\ sweep \subseteq Id
    /\ blind \subseteq Case

TargetKnown ==
    \A c \in Case :
        /\ pc[c] \in OnTarget => todo[c] # <<>>
        /\ pc[c] \in HasFault => fid[c] \in Id /\ fid[c][2] = Head(todo[c])

\* Who is in a call of the state manager, and about which record.
Storing == {"record", "mark", "fail", "sweep"}

Places ==
    /\ pc[ClearCommand] \in {"idle", "clearing", "snapshot", "records", "sweep"}
    /\ \A c \in Case : pc[c] \notin {"idle", "snapshot", "records", "sweep"}
    /\ \A a \in Actor : saving[a] # "none" => pc[a] \in Storing
    /\ pc[ClearCommand] = "sweep" => fid[ClearCommand] \in Id
    /\ \A a \in Actor : saving[a] = "got" => buffer[a][fid[a]] # NoRecord

\* Two calls under way know of no record that is not lost.
NothingShared ==
    \A a, b \in Actor : a # b /\ MidSave(a) /\ MidSave(b) =>
        \A i \in Id \ lost : store[i] = NoRecord /\ buffer[a][i] = NoRecord

\* What a call has loaded is still there.
Fresh ==
    \A a \in Actor : saving[a] = "loaded" =>
        \A i \in Id \ lost : i # fid[a] => buffer[a][i] = store[i]

\* Only a call that was not alone can leave a file that does not parse.
Torn ==
    \A a \in Actor : saving[a] = "cut" /\ ~blank => \A i \in Id \ lost : buffer[a][i] = NoRecord

Told(place) == CASE place = "record" -> "running" [] place = "fail" -> "failed"
                 [] OTHER -> "recovered"

\* What a call writes for its own record, which is no other case's.
Own ==
    \A a \in Actor : MidSave(a) /\ fid[a] \notin lost =>
        a \in Case /\ buffer[a][fid[a]] = [case |-> a, status |-> Told(pc[a])]

OwnGot ==
    \A a \in Actor : saving[a] = "got" /\ fid[a] \notin lost => buffer[a][fid[a]].case = a

NotOthers ==
    \A a \in Actor : saving[a] = "loaded" /\ fid[a] \notin lost =>
        store[fid[a]].case = a \/ store[fid[a]].status \in {"none", "recovered"}

Calls == NothingShared /\ Fresh /\ Torn /\ Own /\ OwnGot /\ NotOthers

\* The device of the case is one its recover acts on.
Known(c) == DeviceOf(c) \in {Eth0, Container}

\* The fault of a case that saw all answers is where its last injection put it, and
\* the case is between that injection and its recover, or gave up there.
AtItsSite ==
    \A c \in Case, s \in Slot :
        c \in faults[s] /\ c \notin blind /\ Known(c) =>
            /\ pc[c] \in {"record", "recover", "fail", "false"}
            /\ fid[c] \in Id /\ s = <<fid[c][2], DeviceOf(c)>>

\* It is on record, once that was written and unless somebody else touched the record.
OnRecord ==
    \A c \in Case, s \in Slot :
        c \in faults[s] /\ c \notin blind /\ Known(c) /\ pc[c] # "record" /\ fid[c] \notin lost =>
            Listed[fid[c]].case = c /\ Listed[fid[c]].status \in {"running", "failed"}

\* What a case has not settled is the record of its last injection.
OthersSettled ==
    \A c \in Case : \A i \in Id \ lost :
        Listed[i].case = c /\ Listed[i].status # "recovered" =>
            pc[c] \in {"record", "recover", "mark", "fail", "false"} /\ i = fid[c]

\* Between its injection and its recover a network case has the device of an undisturbed
\* pod for itself.
AllKnown == \A c \in Case : Known(c)

AloneOnDevice ==
    AllKnown =>
        \A c \in Case :
            /\ pc[c] \in {"record", "recover"} /\ ~Stops(c) /\ Head(todo[c]) \notin disturbed
            => faults[<<Head(todo[c]), Eth0>>] = {c}

Parts == TargetKnown /\ AtItsSite /\ OnRecord /\ OthersSettled /\ AloneOnDevice

CInv == Types /\ Places /\ Calls /\ Parts

-----------------------------------------------------------------------------
(* Targets, devices and ids *)

\* A selection is a nonempty sequence of pods.
LEMMA TargetsArePods ==
    ASSUME NEW c \in Case, NEW ts \in Targets(c) PROVE ts \in Seq(Pod) /\ ts # <<>>
<1>1. PICK n \in 1 .. MaxTargets[c] : ts \in [1 .. n -> Matches[c]]
  BY DEF Targets
<1>2. MaxTargets[c] \in Nat /\ Matches[c] \subseteq Pod
  BY CaseAssumption
<1>3. n \in Nat /\ n >= 1 /\ ts \in [1 .. n -> Pod]
  BY <1>1, <1>2
<1>4. ts \in Seq(Pod) /\ Len(ts) = n
  BY <1>3
<1>5. QED
  BY <1>3, <1>4

\* Where a case injects and recovers; the two agree on a device recover knows.
LEMMA Sites ==
    ASSUME Types, NEW c \in Case, todo[c] # <<>>
    PROVE  /\ Head(todo[c]) \in Pod
           /\ DeviceOf(c) \in Device \cup {Container}
           /\ Site(c) \in Slot /\ Site(c) = <<Head(todo[c]), DeviceOf(c)>>
           /\ RecoverSite(c) \in Slot
           /\ RecoverSite(c) = <<Head(todo[c]), IF Stops(c) THEN Container ELSE Eth0>>
           /\ Known(c) => RecoverSite(c) = Site(c)
           /\ Known(c) => DeviceOf(c) = IF Stops(c) THEN Container ELSE Eth0
           /\ \A t \in 0 .. MaxSecond :
                 FaultId(c, t) \in Id /\ FaultId(c, t)[2] = Head(todo[c])
<1>1. todo[c] \in Seq(Pod)
  BY DEF Types
<1>2. Head(todo[c]) \in Pod
  BY <1>1
<1>3. Named[c] \in Device \cup {Container, NoDevice}
  BY CaseAssumption DEF Actor
<1>4. DeviceOf(c) \in Device \cup {Container}
  BY <1>3, CaseAssumption DEF DeviceOf
<1>5. Known(c) => DeviceOf(c) = IF Stops(c) THEN Container ELSE Eth0
  BY <1>3, CaseAssumption DEF Known, DeviceOf, Stops
<1>6. Site(c) = <<Head(todo[c]), DeviceOf(c)>>
  BY DEF Site
<1>7. RecoverSite(c) = <<Head(todo[c]), IF Stops(c) THEN Container ELSE Eth0>>
  BY DEF RecoverSite
<1>8. \A t \in 0 .. MaxSecond : FaultId(c, t) \in Id /\ FaultId(c, t)[2] = Head(todo[c])
  BY <1>2 DEF FaultId, Id
<1>9. Site(c) \in Slot /\ RecoverSite(c) \in Slot
  BY <1>2, <1>4, <1>6, <1>7, CaseAssumption DEF Slot
<1>10. QED
  BY <1>2, <1>4, <1>5, <1>6, <1>7, <1>8, <1>9

-----------------------------------------------------------------------------
(* The calls of the state manager *)

\* What the file shows, with a write that has begun counted as done.
Viewed ==
    /\ Listed \in [Id -> StoreRecord]
    /\ \A a \in Actor : saving[a] = "cut" => \A i \in Id \ lost : Listed[i] = buffer[a][i]
    /\ (\A a \in Actor : saving[a] # "cut") => Listed = store
    /\ \A i \in Id : Listed[i] # NoRecord => i \in Recorded

\* Of two calls that have truncated, neither knows of a record that is not lost.
LEMMA ViewIs == Types /\ Calls => Viewed
<1> SUFFICES ASSUME Types, Calls PROVE Viewed
  OBVIOUS
<1>1. CASE \E a \in Actor : saving[a] = "cut"
  <2> DEFINE b == CHOOSE a \in Actor : saving[a] = "cut"
  <2>1. b \in Actor /\ saving[b] = "cut" /\ Listed = buffer[b]
    BY <1>1 DEF Listed
  <2> HIDE DEF b
  <2>2. ASSUME NEW a \in Actor, saving[a] = "cut", NEW i \in Id \ lost
        PROVE  Listed[i] = buffer[a][i]
    BY <2>1, <2>2 DEF Calls, NothingShared, MidSave
  <2>3. QED
    BY <1>1, <2>1, <2>2 DEF Viewed, Types, Recorded
<1>2. CASE \A a \in Actor : saving[a] # "cut"
  BY <1>2 DEF Viewed, Listed, Types, Recorded
<1>3. QED
  BY <1>1, <1>2

\* The same, one step later.
LEMMA ViewNext == Types' /\ Calls' => Viewed'
  BY ViewIs, PTL

\* What a record that is not lost shows stays as it is.
Keeps == \A i \in Id \ lost' : Listed'[i] = Listed[i]

\* Calls end, or nobody touches the file.
LEMMA CallsEnd ==
    ASSUME Types, Calls, NEW A \in SUBSET Actor, UNCHANGED <<store, blank>>, lost \subseteq lost',
           \A a \in A : saving'[a] = "none",
           \A a \in Actor \ A : /\ saving'[a] = saving[a] /\ buffer'[a] = buffer[a]
                                /\ saving[a] # "none" => pc'[a] = pc[a] /\ fid'[a] = fid[a]
    PROVE  Calls'
<1> USE DEF Calls, MidSave
<1>1. NothingShared'
  BY DEF NothingShared
<1>2. Fresh'
  BY DEF Fresh
<1>3. Torn'
  BY DEF Torn
<1>4. Own'
  BY DEF Own
<1>5. OwnGot'
  BY DEF OwnGot
<1>6. NotOthers'
  BY DEF NotOthers
<1>7. QED
  BY <1>1, <1>2, <1>3, <1>4, <1>5, <1>6

\* A step that has nothing to do with the file.
LEMMA FileUntouched ==
    ASSUME Types, Calls, Places, UNCHANGED <<store, blank, saving, buffer>>,
           lost \subseteq lost',
           \A a \in Actor : saving[a] # "none" => pc'[a] = pc[a] /\ fid'[a] = fid[a]
    PROVE  Calls' /\ Keeps
<1>1. Calls'
  <2>1. {} \in SUBSET Actor /\ \A a \in {} : saving'[a] = "none"
    OBVIOUS
  <2>2. \A a \in Actor \ {} : /\ saving'[a] = saving[a] /\ buffer'[a] = buffer[a]
                              /\ saving[a] # "none" => pc'[a] = pc[a] /\ fid'[a] = fid[a]
    OBVIOUS
  <2>3. QED
    BY <2>1, <2>2, CallsEnd
<1>2. Listed' = Listed
  BY DEF Listed
<1>3. QED
  BY <1>1, <1>2 DEF Keeps

\* Where a call that is over leaves its caller.
LEMMA ReturnsTo ==
    ASSUME Types, NEW a \in Actor, Returns(a)
    PROVE  /\ pc[a] \in Storing
           /\ saving'[a] = "none" /\ buffer'[a] = NoRecords
           /\ \A b \in Actor : b # a => /\ saving'[b] = saving[b] /\ buffer'[b] = buffer[b]
                                        /\ pc'[b] = pc[b]
           /\ pc[a] = "record" => pc'[a] \in {"false", "recover"} /\ todo' = todo
           /\ pc[a] = "fail" => pc'[a] = "false" /\ todo' = todo
           /\ pc[a] = "sweep" => pc'[a] = "records" /\ todo' = todo
           /\ pc[a] = "mark" => /\ pc'[a] \in {"inject", "select", "clear", "true"}
                                /\ todo' = [todo EXCEPT ![a] = Tail(@)]
                                /\ pc'[a] = "inject" => Len(todo[a]) > 1
           /\ \E there \in Place : pc' = [pc EXCEPT ![a] = there]
           /\ saving' \in [Actor -> {"none", "got", "loaded", "cut"}]
           /\ buffer' \in [Actor -> [Id -> StoreRecord]]
<1>1. /\ saving' = [saving EXCEPT ![a] = "none"] /\ buffer' = [buffer EXCEPT ![a] = NoRecords]
      /\ pc[a] \in Storing
  BY DEF Returns, Storing
<1>2. NoRecords \in [Id -> StoreRecord]
  BY DEF NoRecords, StoreRecord
<1>3. AfterLast(a) \in {"select", "clear", "true"}
  BY DEF AfterLast
<1>4. \/ /\ pc[a] = "record" /\ todo' = todo
         /\ pc' = [pc EXCEPT ![a] = IF Timing[a] = "bad" THEN "false" ELSE "recover"]
      \/ /\ pc[a] = "mark" /\ todo' = [todo EXCEPT ![a] = Tail(@)]
         /\ pc' = [pc EXCEPT ![a] = IF Len(todo[a]) > 1 THEN "inject" ELSE AfterLast(a)]
      \/ pc[a] = "fail" /\ todo' = todo /\ pc' = [pc EXCEPT ![a] = "false"]
      \/ pc[a] = "sweep" /\ todo' = todo /\ pc' = [pc EXCEPT ![a] = "records"]
  BY DEF Returns, Goes
<1>5. /\ saving' \in [Actor -> {"none", "got", "loaded", "cut"}] /\ saving'[a] = "none"
      /\ \A b \in Actor : b # a => saving'[b] = saving[b]
  BY <1>1 DEF Types
<1>6. /\ buffer' \in [Actor -> [Id -> StoreRecord]] /\ buffer'[a] = NoRecords
      /\ \A b \in Actor : b # a => buffer'[b] = buffer[b]
  BY <1>1, <1>2 DEF Types
<1>7. /\ \E there \in Place : pc' = [pc EXCEPT ![a] = there]
      /\ \A b \in Actor : b # a => pc'[b] = pc[b]
  BY <1>3, <1>4 DEF Types, Place
<1>8. /\ pc[a] = "record" => pc'[a] \in {"false", "recover"} /\ todo' = todo
      /\ pc[a] = "fail" => pc'[a] = "false" /\ todo' = todo
      /\ pc[a] = "sweep" => pc'[a] = "records" /\ todo' = todo
      /\ pc[a] = "mark" => /\ pc'[a] \in {"inject", "select", "clear", "true"}
                           /\ todo' = [todo EXCEPT ![a] = Tail(@)]
                           /\ pc'[a] = "inject" => Len(todo[a]) > 1
  BY <1>3, <1>4 DEF Types
<1>9. QED
  BY <1>1, <1>5, <1>6, <1>7, <1>8

\* The record a call is about.
LEMMA OwnRecord ==
    ASSUME Types, Places, Parts, NEW a \in Actor, saving[a] # "none" \/ pc[a] \in Storing
    PROVE  /\ pc[a] \in Storing /\ fid[a] \in Id
           /\ a \in Case \/ (a = ClearCommand /\ pc[a] = "sweep")
           /\ a \in Case => pc[a] \in HasFault /\ pc[a] # "sweep"
  BY DEF Places, Storing, Parts, TargetKnown, HasFault, Actor

\* What a call makes of its record is a record.
LEMMA ChangedIs ==
    ASSUME Types, Places, Parts, NEW a \in Actor, Loads(a), ~Refuses(a)
    PROVE  /\ Changed(a) \in StoreRecord /\ Changed(a) # NoRecord
           /\ a \in Case /\ pc[a] = "record" => Changed(a) = [case |-> a, status |-> "running"]
           /\ pc[a] = "fail" => Changed(a) = [case |-> buffer[a][fid[a]].case, status |-> "failed"]
           /\ pc[a] \in {"mark", "sweep"} =>
                 /\ Changed(a) = [case |-> store[fid[a]].case, status |-> "recovered"]
                 /\ store[fid[a]].status # "none"
<1>1. pc[a] \in Storing /\ (pc[a] = "fail" => saving[a] = "got")
  BY DEF Loads, Storing
<1>2. fid[a] \in Id /\ (a \in Case \/ pc[a] = "sweep")
  BY <1>1, OwnRecord
<1>3. store[fid[a]] \in StoreRecord /\ buffer[a][fid[a]] \in StoreRecord
  BY <1>2 DEF Types
<1>4. \A r \in StoreRecord : r # NoRecord => r \in [case : Case, status : Status \ {"none"}]
  BY DEF StoreRecord
<1>5. CASE pc[a] = "record"
  <2>1. Changed(a) = [case |-> a, status |-> "running"]
    BY <1>5 DEF Changed
  <2>2. QED
    BY <1>2, <1>5, <2>1, CaseAssumption DEF StoreRecord, Status, NoRecord
<1>6. CASE pc[a] = "fail"
  <2>1. Changed(a) = [buffer[a][fid[a]] EXCEPT !.status = "failed"]
    BY <1>6 DEF Changed
  <2>2. buffer[a][fid[a]] # NoRecord
    BY <1>1, <1>6 DEF Places
  <2>3. buffer[a][fid[a]] \in [case : Case, status : Status \ {"none"}]
    BY <1>3, <1>4, <2>2
  <2>4. Changed(a) = [case |-> buffer[a][fid[a]].case, status |-> "failed"]
    BY <2>1, <2>3
  <2>5. QED
    BY <1>6, <2>3, <2>4 DEF StoreRecord, Status, NoRecord
<1>7. CASE pc[a] \in {"mark", "sweep"}
  <2>1. Changed(a) = [store[fid[a]] EXCEPT !.status = "recovered"]
    BY <1>7 DEF Changed
  <2>2. store[fid[a]].status # "none"
    BY <1>7 DEF Refuses
  <2>3. store[fid[a]] # NoRecord
    BY <2>2 DEF NoRecord
  <2>4. store[fid[a]] \in [case : Case, status : Status \ {"none"}]
    BY <1>3, <1>4, <2>3
  <2>5. Changed(a) = [case |-> store[fid[a]].case, status |-> "recovered"]
    BY <2>1, <2>4
  <2>6. QED
    BY <1>7, <2>2, <2>4, <2>5 DEF StoreRecord, Status, NoRecord
<1>8. QED
  BY <1>1, <1>5, <1>6, <1>7 DEF Storing

\* A call that gives up before it has truncated anything.
LEMMA GivesUp ==
    ASSUME Types, Calls, NEW a \in Actor, Returns(a), saving[a] # "cut",
           UNCHANGED <<store, blank, fid>>, lost \subseteq lost'
    PROVE  Calls' /\ Keeps
<1>1. /\ saving'[a] = "none" /\ buffer'[a] = NoRecords
      /\ \A b \in Actor : b # a => /\ saving'[b] = saving[b] /\ buffer'[b] = buffer[b]
                                   /\ pc'[b] = pc[b]
  BY ReturnsTo
<1>2. Calls'
  <2>1. {a} \in SUBSET Actor /\ \A b \in {a} : saving'[b] = "none"
    BY <1>1
  <2>2. \A b \in Actor \ {a} : /\ saving'[b] = saving[b] /\ buffer'[b] = buffer[b]
                               /\ saving[b] # "none" => pc'[b] = pc[b] /\ fid'[b] = fid[b]
    BY <1>1
  <2>3. QED
    BY <2>1, <2>2, CallsEnd
<1>3. Listed' = Listed
  <2>1. \A b \in Actor : saving'[b] = "cut" <=> saving[b] = "cut"
    BY <1>1
  <2>2. CASE \E b \in Actor : saving[b] = "cut"
    <3> DEFINE x == CHOOSE b \in Actor : saving[b] = "cut"
               y == CHOOSE b \in Actor : saving'[b] = "cut"
    <3>1. x = y
      BY <2>1
    <3>2. x \in Actor /\ saving[x] = "cut"
      BY <2>2
    <3>3. Listed = buffer[x] /\ Listed' = buffer'[y]
      BY <2>1, <2>2 DEF Listed
    <3> HIDE DEF x, y
    <3>4. QED
      BY <1>1, <3>1, <3>2, <3>3
  <2>3. CASE \A b \in Actor : saving[b] # "cut"
    BY <2>1, <2>3 DEF Listed
  <2>4. QED
    BY <2>2, <2>3
<1>4. QED
  BY <1>2, <1>3 DEF Keeps

\* The effects of the first step of a call that goes on: it has a copy.
LEMMA Copies ==
    ASSUME Types, NEW a \in Actor, NEW stage \in {"got", "loaded"}, saving[a] # "cut",
           NEW copy \in [Id -> StoreRecord],
           saving' = [saving EXCEPT ![a] = stage], buffer' = [buffer EXCEPT ![a] = copy],
           UNCHANGED store
    PROVE  /\ saving'[a] = stage /\ buffer'[a] = copy
           /\ \A b \in Actor : b # a => saving'[b] = saving[b] /\ buffer'[b] = buffer[b]
           /\ Listed' = Listed
           /\ saving' \in [Actor -> {"none", "got", "loaded", "cut"}]
           /\ buffer' \in [Actor -> [Id -> StoreRecord]]
<1>1. /\ saving'[a] = stage /\ buffer'[a] = copy
      /\ \A b \in Actor : b # a => saving'[b] = saving[b] /\ buffer'[b] = buffer[b]
      /\ saving' \in [Actor -> {"none", "got", "loaded", "cut"}]
      /\ buffer' \in [Actor -> [Id -> StoreRecord]]
  BY DEF Types
<1>2. \A b \in Actor : saving'[b] = "cut" <=> saving[b] = "cut"
  BY <1>1
<1>3. CASE \E b \in Actor : saving[b] = "cut"
  <2> DEFINE x == CHOOSE b \in Actor : saving[b] = "cut"
             y == CHOOSE b \in Actor : saving'[b] = "cut"
  <2>1. x = y
    BY <1>2
  <2>2. x \in Actor /\ saving[x] = "cut"
    BY <1>3
  <2>3. Listed = buffer[x] /\ Listed' = buffer'[y]
    BY <1>2, <1>3 DEF Listed
  <2> HIDE DEF x, y
  <2>4. QED
    BY <1>1, <2>1, <2>2, <2>3
<1>4. CASE \A b \in Actor : saving[b] # "cut"
  BY <1>1, <1>2, <1>4 DEF Listed
<1>5. QED
  BY <1>1, <1>3, <1>4

\* mark_failed has found its record.
LEMMA GetKeeps ==
    ASSUME Types, Calls, Places, Parts, NEW c \in Case, Get(c), store[fid[c]].status # "none"
    PROVE  Calls' /\ Keeps
<1>1. /\ pc[c] = "fail" /\ saving[c] = "none" /\ c \in Actor
      /\ saving' = [saving EXCEPT ![c] = "got"] /\ buffer' = [buffer EXCEPT ![c] = store]
      /\ UNCHANGED <<pc, fid, store, blank>>
      /\ lost' = IF Meddles(c) THEN lost \cup {fid[c]} ELSE lost
  BY DEF Get, Actor
<1>2. store \in [Id -> StoreRecord]
  BY DEF Types
<1>3. /\ saving'[c] = "got" /\ buffer'[c] = store
      /\ \A b \in Actor : b # c => saving'[b] = saving[b] /\ buffer'[b] = buffer[b]
      /\ Listed' = Listed
  BY <1>1, <1>2, Copies
<1>4. lost \subseteq lost' /\ (fid[c] \notin lost' => store[fid[c]].case = c)
  BY <1>1 DEF Meddles
<1> USE DEF Calls, MidSave
<1>5. NothingShared' /\ Torn'
  BY <1>1, <1>3, <1>4 DEF NothingShared, Torn
<1>6. Fresh' /\ NotOthers'
  BY <1>1, <1>3, <1>4 DEF Fresh, NotOthers
<1>7. Own'
  BY <1>1, <1>3, <1>4 DEF Own
<1>8. OwnGot'
  BY <1>1, <1>3, <1>4 DEF OwnGot
<1>9. QED
  BY <1>3, <1>5, <1>6, <1>7, <1>8 DEF Keeps

\* A call has loaded the file and changed its copy.
LEMMA LoadKeeps ==
    ASSUME Types, Calls, Places, Parts, NEW a \in Actor, Load(a), ~Refuses(a)
    PROVE  /\ Calls' /\ Keeps
           /\ saving' \in [Actor -> {"none", "got", "loaded", "cut"}]
           /\ buffer' \in [Actor -> [Id -> StoreRecord]]
<1> DEFINE copy == [store EXCEPT ![fid[a]] = Changed(a)]
<1>1. /\ Loads(a)
      /\ saving' = [saving EXCEPT ![a] = "loaded"] /\ buffer' = [buffer EXCEPT ![a] = copy]
      /\ UNCHANGED <<pc, fid, store, blank>>
      /\ lost' = lost \cup (IF \E b \in Actor \ {a} : MidSave(b)
                            THEN Recorded \cup {fid[a]} ELSE {})
                      \cup (IF Meddles(a) THEN {fid[a]} ELSE {})
  BY DEF Load
<1>2. /\ pc[a] \in Storing /\ saving[a] \in {"none", "got"}
      /\ pc[a] = "fail" => saving[a] = "got"
  BY <1>1 DEF Loads, Storing
<1>3. fid[a] \in Id /\ (a \in Case \/ (a = ClearCommand /\ pc[a] = "sweep"))
  BY <1>2, OwnRecord
<1>4. /\ Changed(a) \in StoreRecord
      /\ a \in Case /\ pc[a] = "record" => Changed(a) = [case |-> a, status |-> "running"]
      /\ pc[a] = "fail" => Changed(a) = [case |-> buffer[a][fid[a]].case, status |-> "failed"]
      /\ pc[a] \in {"mark", "sweep"} =>
            /\ Changed(a) = [case |-> store[fid[a]].case, status |-> "recovered"]
            /\ store[fid[a]].status # "none"
  BY <1>1, ChangedIs
<1>5. /\ copy \in [Id -> StoreRecord] /\ copy[fid[a]] = Changed(a)
      /\ \A i \in Id : i # fid[a] => copy[i] = store[i]
  BY <1>3, <1>4 DEF Types
<1> HIDE DEF copy
<1>6. /\ saving'[a] = "loaded" /\ buffer'[a] = copy
      /\ \A b \in Actor : b # a => saving'[b] = saving[b] /\ buffer'[b] = buffer[b]
      /\ Listed' = Listed
      /\ saving' \in [Actor -> {"none", "got", "loaded", "cut"}]
      /\ buffer' \in [Actor -> [Id -> StoreRecord]]
  BY <1>1, <1>2, <1>5, Copies
<1>7. /\ lost \subseteq lost'
      /\ Meddles(a) => fid[a] \in lost'
      /\ (\E b \in Actor : b # a /\ MidSave(b)) =>
            /\ fid[a] \in lost'
            /\ \A i \in Id \ lost' : store[i] = NoRecord /\ \A b \in Actor : buffer[b][i] = NoRecord
  BY <1>1 DEF Recorded
<1>8. fid[a] \notin lost' =>
         /\ a \in Case /\ copy[fid[a]] = [case |-> a, status |-> Told(pc[a])]
         /\ store[fid[a]].case = a \/ store[fid[a]].status \in {"none", "recovered"}
  <2> SUFFICES ASSUME fid[a] \notin lost'
               PROVE  /\ a \in Case /\ copy[fid[a]] = [case |-> a, status |-> Told(pc[a])]
                      /\ store[fid[a]].case = a \/ store[fid[a]].status \in {"none", "recovered"}
    OBVIOUS
  <2>1. ~Meddles(a)
    BY <1>7
  <2>2. CASE pc[a] = "record"
    BY <1>3, <1>4, <1>5, <2>1, <2>2, CaseAssumption DEF Meddles, Told
  <2>3. CASE pc[a] = "fail"
    <3>1. buffer[a][fid[a]].case = a
      BY <1>2, <1>7, <2>3 DEF Calls, OwnGot
    <3>2. QED
      BY <1>3, <1>4, <1>5, <2>1, <2>3, <3>1 DEF Meddles, Told
  <2>4. CASE pc[a] \in {"mark", "sweep"}
    <3>1. store[fid[a]].status # "none" /\ store[fid[a]].case = a
      BY <1>4, <2>1, <2>4 DEF Meddles
    <3>2. store[fid[a]] \in [case : Case, status : Status \ {"none"}]
      BY <1>3, <3>1 DEF Types, StoreRecord, NoRecord
    <3>3. QED
      BY <1>4, <1>5, <2>4, <3>1, <3>2 DEF Told
  <2>5. QED
    BY <1>2, <2>2, <2>3, <2>4 DEF Storing
<1> USE DEF Calls, MidSave
<1>9. NothingShared'
  BY <1>1, <1>5, <1>6, <1>7 DEF NothingShared
<1>10. Fresh'
  BY <1>1, <1>5, <1>6, <1>7 DEF Fresh
<1>11. Torn'
  BY <1>1, <1>6, <1>7 DEF Torn
<1>12. Own'
  BY <1>1, <1>6, <1>7, <1>8 DEF Own
<1>13. OwnGot' /\ NotOthers'
  BY <1>1, <1>6, <1>7, <1>8 DEF OwnGot, NotOthers
<1>14. QED
  BY <1>6, <1>9, <1>10, <1>11, <1>12, <1>13 DEF Keeps

\* open('w') makes what the call is about to write the record of its own fault, and
\* shows the others as they were.
LEMMA TruncateKeeps ==
    ASSUME Types, Calls, Places, Parts, NEW a \in Actor, Truncate(a), Types'
    PROVE  /\ Calls'
           /\ pc[a] \in Storing /\ fid[a] \in Id
           /\ \A i \in Id \ lost' : i # fid[a] => Listed'[i] = Listed[i]
           /\ fid[a] \notin lost' =>
                 /\ a \in Case
                 /\ Listed'[fid[a]] = [case |-> a, status |-> Told(pc[a])]
                 /\ Listed[fid[a]].case = a \/ Listed[fid[a]].status \in {"none", "recovered"}
<1>1. /\ saving[a] = "loaded" /\ store' = NoRecords /\ blank' = TRUE
      /\ saving' = [saving EXCEPT ![a] = "cut"]
      /\ UNCHANGED <<pc, fid, buffer, lost>>
  BY DEF Truncate, case, history
<1>2. saving'[a] = "cut" /\ \A b \in Actor : b # a => saving'[b] = saving[b]
  BY <1>1 DEF Types
<1>3. \A i \in Id : NoRecords[i] = NoRecord
  BY DEF NoRecords
<1>4. pc[a] \in Storing /\ fid[a] \in Id
  BY <1>1, OwnRecord
<1>5. Calls'
  <2> USE DEF Calls, MidSave
  <2>1. NothingShared'
    BY <1>1, <1>2, <1>3 DEF NothingShared
  <2>2. Fresh'
    BY <1>1, <1>2, <1>3 DEF Fresh, NothingShared
  <2>3. Torn'
    BY <1>1, <1>2 DEF Torn
  <2>4. Own'
    BY <1>1, <1>2 DEF Own
  <2>5. OwnGot'
    BY <1>1, <1>2 DEF OwnGot
  <2>6. NotOthers'
    <3>1. ASSUME NEW b \in Actor, saving'[b] = "loaded", fid[b] \notin lost
          PROVE  store'[fid[b]].status = "none"
      <4>1. b # a /\ saving[b] = "loaded"
        BY <1>2, <3>1
      <4>2. fid[b] \in Id
        BY <4>1, OwnRecord
      <4>3. QED
        BY <1>1, <1>3, <4>2 DEF NoRecord
    <3>2. QED
      BY <1>1, <3>1 DEF NotOthers
  <2>7. QED
    BY <2>1, <2>2, <2>3, <2>4, <2>5, <2>6
<1>6. Viewed /\ Viewed'
  BY <1>5, ViewIs, ViewNext
<1>7. \A i \in Id \ lost : Listed'[i] = buffer[a][i]
  BY <1>1, <1>2, <1>6 DEF Viewed
<1>8. CASE \E b \in Actor : saving[b] = "cut"
  <2>1. PICK b \in Actor : saving[b] = "cut"
    BY <1>8
  <2>2. a # b /\ MidSave(a) /\ MidSave(b)
    BY <1>1, <2>1 DEF MidSave
  <2>3. \A i \in Id \ lost : buffer[a][i] = NoRecord /\ buffer[b][i] = NoRecord
    BY <2>2 DEF Calls, NothingShared
  <2>4. \A i \in Id \ lost : Listed'[i] = Listed[i]
    BY <1>6, <1>7, <2>1, <2>3 DEF Viewed
  <2>5. fid[a] \in lost
    <3>1. SUFFICES ASSUME fid[a] \notin lost PROVE FALSE
      OBVIOUS
    <3>2. a \in Case /\ buffer[a][fid[a]] = [case |-> a, status |-> Told(pc[a])]
      BY <2>2, <3>1 DEF Calls, Own
    <3>3. buffer[a][fid[a]].case = NoCase
      BY <1>4, <2>3, <3>1 DEF NoRecord
    <3>4. QED
      BY <3>2, <3>3, CaseAssumption
  <2>6. QED
    BY <1>1, <1>4, <1>5, <2>4, <2>5
<1>9. CASE \A b \in Actor : saving[b] # "cut"
  <2>1. Listed = store
    BY <1>6, <1>9 DEF Viewed
  <2>2. \A i \in Id \ lost : i # fid[a] => Listed'[i] = Listed[i]
    BY <1>1, <1>7, <2>1 DEF Calls, Fresh
  <2>3. ASSUME fid[a] \notin lost
        PROVE  /\ a \in Case
               /\ Listed'[fid[a]] = [case |-> a, status |-> Told(pc[a])]
               /\ Listed[fid[a]].case = a \/ Listed[fid[a]].status \in {"none", "recovered"}
    BY <1>1, <1>4, <1>7, <2>1, <2>3 DEF Calls, Own, NotOthers, MidSave
  <2>4. QED
    BY <1>1, <1>4, <1>5, <2>2, <2>3
<1>10. QED
  BY <1>8, <1>9

\* json.dump: a call that was alone writes what it showed.
LEMMA WriteKeeps ==
    ASSUME Types, Calls, Places, Parts, NEW a \in Actor, Write(a), Types'
    PROVE  /\ Calls' /\ Keeps /\ lost' = lost
           /\ fid[a] \notin lost => Listed'[fid[a]] = [case |-> a, status |-> Told(pc[a])]
<1>1. /\ saving[a] = "cut" /\ blank' = FALSE /\ UNCHANGED <<fid, lost>>
      /\ store' = buffer[a] \/ (store' = NoRecords /\ ~blank)
      /\ Returns(a)
  BY DEF Write, history
<1>2. /\ saving'[a] = "none" /\ buffer'[a] = NoRecords
      /\ \A b \in Actor : b # a => /\ saving'[b] = saving[b] /\ buffer'[b] = buffer[b]
                                   /\ pc'[b] = pc[b]
  BY <1>1, ReturnsTo
<1>3. \A i \in Id : NoRecords[i] = NoRecord
  BY DEF NoRecords
<1>4. \A i \in Id \ lost : store'[i] = buffer[a][i]
  BY <1>1, <1>3 DEF Calls, Torn
<1>5. \A b \in Actor \ {a} : MidSave(b) =>
         \A i \in Id \ lost : buffer[b][i] = NoRecord /\ store'[i] = NoRecord
  BY <1>1, <1>4 DEF Calls, NothingShared, MidSave
<1>6. Calls'
  <2> USE DEF Calls, MidSave
  <2>1. NothingShared'
    BY <1>1, <1>2, <1>5 DEF NothingShared
  <2>2. Fresh'
    BY <1>1, <1>2, <1>5 DEF Fresh
  <2>3. Torn'
    BY <1>1, <1>2, <1>5 DEF Torn
  <2>4. Own'
    BY <1>1, <1>2 DEF Own
  <2>5. OwnGot'
    BY <1>1, <1>2 DEF OwnGot
  <2>6. NotOthers'
    <3>1. ASSUME NEW b \in Actor, saving'[b] = "loaded", fid[b] \notin lost
          PROVE  store'[fid[b]].status = "none"
      <4>1. b # a /\ saving[b] = "loaded"
        BY <1>2, <3>1
      <4>2. fid[b] \in Id
        BY <4>1, OwnRecord
      <4>3. QED
        BY <1>5, <3>1, <4>1, <4>2 DEF NoRecord
    <3>2. QED
      BY <1>1, <3>1 DEF NotOthers
  <2>7. QED
    BY <2>1, <2>2, <2>3, <2>4, <2>5, <2>6
<1>7. Viewed /\ Viewed'
  BY <1>6, ViewIs, ViewNext
<1>8. \A i \in Id \ lost : Listed[i] = buffer[a][i]
  BY <1>1, <1>7 DEF Viewed
<1>9. \A i \in Id \ lost : Listed'[i] = buffer[a][i]
  <2>1. CASE \E b \in Actor : saving'[b] = "cut"
    <3>1. PICK b \in Actor : saving'[b] = "cut"
      BY <2>1
    <3>2. b # a /\ saving[b] = "cut" /\ buffer'[b] = buffer[b]
      BY <1>2, <3>1
    <3>3. \A i \in Id \ lost : buffer[b][i] = NoRecord /\ store'[i] = NoRecord
      BY <1>5, <3>2 DEF MidSave
    <3>4. \A i \in Id \ lost : Listed'[i] = buffer[b][i]
      BY <1>1, <1>7, <3>1, <3>2 DEF Viewed
    <3>5. QED
      BY <1>4, <3>3, <3>4
  <2>2. CASE \A b \in Actor : saving'[b] # "cut"
    BY <1>4, <1>7, <2>2 DEF Viewed
  <2>3. QED
    BY <2>1, <2>2
<1>10. fid[a] \notin lost => buffer[a][fid[a]] = [case |-> a, status |-> Told(pc[a])]
  BY <1>1 DEF Calls, Own, MidSave
<1>11. fid[a] \in Id
  BY <1>1, OwnRecord
<1>12. QED
  BY <1>1, <1>6, <1>8, <1>9, <1>10, <1>11 DEF Keeps

\* Once the file is gone, with calls that were under way or without, no record that
\* anybody knew of is kept out of the lost ones.
LEMMA Emptied ==
    ASSUME Types, Calls, Viewed, Viewed', lost \cup Recorded \subseteq lost',
           \A i \in Id \ lost' : store'[i] = NoRecord /\ \A a \in Actor : buffer'[a][i] = NoRecord
    PROVE  Keeps
<1>1. \A i \in Id \ lost' : Listed[i] = NoRecord
  BY DEF Viewed
<1>2. \A i \in Id \ lost' : Listed'[i] = NoRecord
  BY DEF Viewed, Recorded
<1>3. QED
  BY <1>1, <1>2 DEF Keeps

\* A write that raises.
LEMMA WriteFailsKeeps ==
    ASSUME Types, Calls, Places, Parts, NEW a \in Actor, WriteFails(a), Types'
    PROVE  Calls' /\ Keeps /\ lost \subseteq lost' /\ fid[a] \in lost'
<1>1. /\ saving[a] = "cut" /\ UNCHANGED fid /\ lost' = lost \cup Recorded
      /\ UNCHANGED <<store, blank>> \/ (store' = NoRecords /\ blank' = FALSE)
      /\ Returns(a)
  BY DEF WriteFails
<1>2. /\ saving'[a] = "none" /\ buffer'[a] = NoRecords
      /\ \A b \in Actor : b # a => /\ saving'[b] = saving[b] /\ buffer'[b] = buffer[b]
                                   /\ pc'[b] = pc[b]
  BY <1>1, ReturnsTo
<1>3. \A i \in Id : NoRecords[i] = NoRecord
  BY DEF NoRecords
<1>4. \A i \in Id \ lost' : /\ store[i] = NoRecord /\ store'[i] = NoRecord
                            /\ \A b \in Actor : buffer[b][i] = NoRecord /\ buffer'[b][i] = NoRecord
  BY <1>1, <1>2, <1>3 DEF Recorded
<1>5. Calls'
  <2> USE DEF Calls, MidSave
  <2>1. NothingShared' /\ Fresh' /\ Torn'
    BY <1>4 DEF NothingShared, Fresh, Torn
  <2>2. Own'
    BY <1>1, <1>2 DEF Own
  <2>3. OwnGot'
    BY <1>1, <1>2 DEF OwnGot
  <2>4. NotOthers'
    <3>1. ASSUME NEW b \in Actor, saving'[b] = "loaded", fid[b] \notin lost'
          PROVE  store'[fid[b]].status = "none"
      <4>1. b # a /\ saving[b] = "loaded"
        BY <1>2, <3>1
      <4>2. fid[b] \in Id
        BY <4>1, OwnRecord
      <4>3. QED
        BY <1>4, <3>1, <4>2 DEF NoRecord
    <3>2. QED
      BY <1>1, <3>1 DEF NotOthers
  <2>5. QED
    BY <2>1, <2>2, <2>3, <2>4
<1>6. Viewed /\ Viewed'
  BY <1>5, ViewIs, ViewNext
<1>7. Keeps
  BY <1>1, <1>4, <1>6, Emptied
<1>8. fid[a] \in lost'
  <2>1. SUFFICES ASSUME fid[a] \notin lost' PROVE FALSE
    OBVIOUS
  <2>2. a \in Case /\ buffer[a][fid[a]] = [case |-> a, status |-> Told(pc[a])]
    BY <1>1, <2>1 DEF Calls, Own, MidSave
  <2>3. fid[a] \in Id
    BY <1>1, OwnRecord
  <2>4. buffer[a][fid[a]].case = NoCase
    BY <1>4, <2>1, <2>3 DEF NoRecord
  <2>5. QED
    BY <2>2, <2>4, CaseAssumption
<1>9. QED
  BY <1>1, <1>5, <1>7, <1>8

\* Processes that die, in a call or not.
LEMMA KilledKeeps ==
    ASSUME Types, Calls, Places, NEW A \in SUBSET Actor, Killed(A), UNCHANGED <<store, blank>>,
           \A a \in Actor \ A : fid'[a] = fid[a], Types'
    PROVE  Calls' /\ Keeps /\ lost \subseteq lost'
<1>1. /\ \A a \in A : saving'[a] = "none" /\ buffer'[a] = NoRecords
      /\ \A a \in Actor \ A : pc'[a] = pc[a] /\ saving'[a] = saving[a] /\ buffer'[a] = buffer[a]
      /\ lost \subseteq lost'
      /\ (\E a \in A : saving[a] = "cut") => Recorded \subseteq lost'
  <2>1. \A a \in Actor : /\ a \in A => saving'[a] = "none" /\ buffer'[a] = NoRecords
                         /\ a \notin A => saving'[a] = saving[a] /\ buffer'[a] = buffer[a]
    BY DEF Killed
  <2>2. \A a \in Actor \ A : pc'[a] = pc[a]
    BY DEF Killed
  <2>3. lost \subseteq lost' /\ ((\E a \in A : saving[a] = "cut") => Recorded \subseteq lost')
    BY DEF Killed
  <2>4. QED
    BY <2>1, <2>2, <2>3
<1>2. Calls'
  BY <1>1, CallsEnd
<1>3. Viewed /\ Viewed'
  BY <1>2, ViewIs, ViewNext
<1>4. CASE \E a \in A : saving[a] = "cut"
  <2>1. \A i \in Id \ lost' : store[i] = NoRecord /\ \A a \in Actor : buffer[a][i] = NoRecord
    BY <1>1, <1>4 DEF Recorded
  <2>2. \A i \in Id \ lost' : store'[i] = NoRecord /\ \A a \in Actor : buffer'[a][i] = NoRecord
    BY <1>1, <2>1 DEF NoRecords
  <2>3. QED
    BY <1>1, <1>2, <1>3, <1>4, <2>2, Emptied
<1>5. CASE \A a \in A : saving[a] # "cut"
  <2>1. \A b \in Actor : saving'[b] = "cut" <=> saving[b] = "cut"
    BY <1>1, <1>5
  <2>2. CASE \E b \in Actor : saving[b] = "cut"
    <3> DEFINE x == CHOOSE b \in Actor : saving[b] = "cut"
               y == CHOOSE b \in Actor : saving'[b] = "cut"
    <3>1. x = y
      BY <2>1
    <3>2. x \in Actor /\ saving[x] = "cut"
      BY <2>2
    <3>3. Listed = buffer[x] /\ Listed' = buffer'[y]
      BY <2>1, <2>2 DEF Listed
    <3> HIDE DEF x, y
    <3>4. Listed' = Listed
      BY <1>1, <1>5, <3>1, <3>2, <3>3
    <3>5. QED
      BY <1>1, <1>2, <3>4 DEF Keeps
  <2>3. CASE \A b \in Actor : saving[b] # "cut"
    BY <1>1, <1>2, <2>1, <2>3 DEF Keeps, Listed
  <2>4. QED
    BY <2>2, <2>3
<1>6. QED
  BY <1>4, <1>5

-----------------------------------------------------------------------------
(* Steps that only move a case on, or take faults away from outside *)

\* A case that gives up, one that begins a clean-up, a clear command, the clock, a crash.
LEMMA MovesOn ==
    ASSUME CInv, UNCHANGED <<todo, faults>>, \A c \in Case : fid'[c] = fid[c],
           Keeps, lost \subseteq lost',
           blind \subseteq blind', disturbed \subseteq disturbed',
           NEW a \in Actor, NEW there \in Place, pc' = [pc EXCEPT ![a] = there],
           there \notin OnTarget, pc[a] # "record",
           pc[a] \in {"recover", "mark", "fail", "false"} => there = "false"
    PROVE  Parts'
<1> USE DEF CInv, Parts, OnTarget, HasFault
<1>1. /\ pc \in [Actor -> Place] /\ Case \subseteq Actor
      /\ \A c \in Case : c # a => pc'[c] = pc[c]
      /\ pc'[a] = there
  BY DEF Types, Actor
<1>2. TargetKnown'
  BY <1>1 DEF TargetKnown
<1>3. AtItsSite'
  BY <1>1 DEF AtItsSite, Known, DeviceOf
<1>4. OnRecord'
  BY <1>1 DEF OnRecord, AtItsSite, Known, DeviceOf, Keeps
<1>5. OthersSettled'
  BY <1>1 DEF OthersSettled, Keeps
<1>6. AloneOnDevice'
  BY <1>1 DEF AloneOnDevice, AllKnown, Known, DeviceOf, Stops
<1>7. QED
  BY <1>2, <1>3, <1>4, <1>5, <1>6 DEF Parts

\* A clear or a restart of a pod, which is disturbed from then on.
LEMMA TakesAway ==
    ASSUME CInv, UNCHANGED <<pc, todo, fid, blind>>, Keeps, lost \subseteq lost',
           disturbed \subseteq disturbed',
           \A s \in Slot : faults'[s] = faults[s] \/ (faults'[s] = {} /\ s[1] \in disturbed')
    PROVE  Parts'
<1> USE DEF CInv, Parts, OnTarget, HasFault
<1>2. TargetKnown'
  BY DEF TargetKnown
<1>3. AtItsSite'
  BY DEF AtItsSite, Known, DeviceOf
<1>4. OnRecord'
  BY DEF OnRecord, AtItsSite, Known, DeviceOf, Keeps
<1>5. OthersSettled'
  BY DEF OthersSettled, Keeps
<1>6. AloneOnDevice'
  <2>1. ASSUME NEW c \in Case, pc[c] \in {"record", "recover"}, Head(todo[c]) \notin disturbed'
        PROVE  faults'[<<Head(todo[c]), Eth0>>] = faults[<<Head(todo[c]), Eth0>>]
    <3>1. Head(todo[c]) \in Pod
      BY <2>1, Sites DEF TargetKnown
    <3>2. <<Head(todo[c]), Eth0>> \in Slot /\ <<Head(todo[c]), Eth0>>[1] = Head(todo[c])
      BY <3>1, CaseAssumption DEF Slot
    <3>3. QED
      BY <2>1, <3>2
  <2>2. QED
    BY <2>1 DEF AloneOnDevice, AllKnown, Known, DeviceOf, Stops
<1>7. QED
  BY <1>2, <1>3, <1>4, <1>5, <1>6 DEF Parts

-----------------------------------------------------------------------------
(* The steps of a case on its target *)

\* A case that starts on new targets has nothing in place and nothing unsettled.
LEMMA SelectKeeps == ASSUME CInv, NEW c \in Case, Select(c) PROVE Parts'
<1> USE DEF CInv, Parts, OnTarget, HasFault
<1>1. PICK ts \in Targets(c) : todo' = [todo EXCEPT ![c] = ts]
  BY DEF Select
<1>2. /\ UNCHANGED <<fid, faults, lost, blind, disturbed>> /\ Listed' = Listed
      /\ pc[c] = "select" /\ pc' = [pc EXCEPT ![c] = "inject"]
  BY DEF Select, Goes, world, file, history, Listed
<1>3. ts # <<>>
  BY TargetsArePods
<1>4. /\ pc'[c] = "inject" /\ todo'[c] # <<>>
      /\ \A d \in Case : d # c => pc'[d] = pc[d] /\ todo'[d] = todo[d]
  BY <1>1, <1>2, <1>3 DEF Types, Actor
<1>5. TargetKnown'
  BY <1>2, <1>4 DEF TargetKnown
<1>6. AtItsSite' /\ OnRecord'
  BY <1>2, <1>4 DEF AtItsSite, OnRecord, Known, DeviceOf
<1>7. OthersSettled'
  BY <1>2, <1>4 DEF OthersSettled
<1>8. AloneOnDevice'
  BY <1>2, <1>4 DEF AloneOnDevice, AllKnown, Known, DeviceOf, Stops
<1>9. QED
  BY <1>5, <1>6, <1>7, <1>8 DEF Parts

\* What an injection that took effect does to the sites of the other cases.
LEMMA InjectionElsewhere ==
    ASSUME CInv, NEW c \in Case, pc[c] = "inject", Stops(c) \/ faults[Site(c)] = {},
           faults' = [faults EXCEPT ![Site(c)] = @ \cup {c}]
    PROVE  /\ \A s \in Slot : faults'[s] = IF s = Site(c) THEN faults[s] \cup {c} ELSE faults[s]
           /\ AllKnown => \A d \in Case : d # c /\ pc[d] \in {"record", "recover"} /\ ~Stops(d)
                                         /\ Head(todo[d]) \notin disturbed
                 => faults'[<<Head(todo[d]), Eth0>>] = {d}
<1>1. todo[c] # <<>>
  BY DEF CInv, Parts, TargetKnown, OnTarget
<1>2. Site(c) \in Slot /\ Site(c) = <<Head(todo[c]), DeviceOf(c)>>
  BY <1>1, Sites DEF CInv
<1>3. \A s \in Slot : faults'[s] = IF s = Site(c) THEN faults[s] \cup {c} ELSE faults[s]
  BY <1>2 DEF CInv, Types
<1>4. ASSUME AllKnown, NEW d \in Case, d # c, pc[d] \in {"record", "recover"}, ~Stops(d),
             Head(todo[d]) \notin disturbed
      PROVE  faults'[<<Head(todo[d]), Eth0>>] = {d}
  <2>1. faults[<<Head(todo[d]), Eth0>>] = {d}
    BY <1>4 DEF CInv, Parts, AloneOnDevice
  <2>2. Head(todo[d]) \in Pod
    BY <1>4, Sites DEF CInv, Parts, TargetKnown, OnTarget
  <2>3. <<Head(todo[d]), Eth0>> \in Slot
    BY <2>2, CaseAssumption DEF Slot
  <2>4. <<Head(todo[d]), Eth0>> # Site(c)
    <3>1. CASE Stops(c)
      <4>1. DeviceOf(c) = Container
        BY <1>1, <1>4, <3>1, Sites DEF CInv, AllKnown
      <4>2. Container # Eth0
        BY CaseAssumption
      <4>3. QED
        BY <1>2, <4>1, <4>2
    <3>2. CASE faults[Site(c)] = {}
      BY <2>1, <3>2
    <3>3. QED
      BY <3>1, <3>2
  <2>5. QED
    BY <1>3, <2>1, <2>3, <2>4
<1>5. QED
  BY <1>3, <1>4

\* An injection that says it failed: nothing happened, or the case is blind.
LEMMA InjectFailsKeeps == ASSUME CInv, NEW c \in Case, InjectFails(c) PROVE Parts'
<1> USE DEF CInv, Parts, OnTarget, HasFault
<1>1. /\ UNCHANGED <<todo, fid, lost, disturbed>> /\ pc[c] = "inject"
      /\ pc' = [pc EXCEPT ![c] = "false"] /\ Listed' = Listed
  BY DEF InjectFails, Goes, case, file, Listed
<1>2. c \in Actor /\ "false" \in Place /\ Keeps
  BY <1>1 DEF Actor, Place, Keeps
<1>3. CASE UNCHANGED <<faults, blind>>
  BY <1>1, <1>2, <1>3, MovesOn
<1>4. CASE /\ Stops(c) \/ faults[Site(c)] = {}
           /\ faults' = [faults EXCEPT ![Site(c)] = @ \cup {c}]
           /\ blind' = blind \cup {c}
  <2>1. /\ pc'[c] = "false"
        /\ \A d \in Case : d # c => pc'[d] = pc[d]
    BY <1>1 DEF Types, Actor
  <2>2. /\ \A s \in Slot : faults'[s] = IF s = Site(c) THEN faults[s] \cup {c} ELSE faults[s]
        /\ AllKnown => \A d \in Case : d # c /\ pc[d] \in {"record", "recover"} /\ ~Stops(d)
                                      /\ Head(todo[d]) \notin disturbed
              => faults'[<<Head(todo[d]), Eth0>>] = {d}
    BY <1>1, <1>4, InjectionElsewhere
  <2>3. TargetKnown'
    BY <1>1, <2>1 DEF TargetKnown
  <2>4. AtItsSite' /\ OnRecord'
    BY <1>1, <1>4, <2>1, <2>2 DEF AtItsSite, OnRecord, Known, DeviceOf
  <2>5. OthersSettled'
    BY <1>1, <2>1 DEF OthersSettled
  <2>6. AloneOnDevice'
    BY <1>1, <2>1, <2>2 DEF AloneOnDevice, AllKnown, Known, DeviceOf, Stops
  <2>7. QED
    BY <2>3, <2>4, <2>5, <2>6 DEF Parts
<1>5. QED
  BY <1>3, <1>4 DEF InjectFails

\* An injection puts the one fault of the case in place, on a device that was free.
LEMMA InjectKeeps == ASSUME CInv, NEW c \in Case, Inject(c) PROVE Parts'
<1> USE DEF CInv, Parts, OnTarget, HasFault
<1>1. /\ UNCHANGED <<todo, lost, blind, disturbed>> /\ pc[c] = "inject" /\ Listed' = Listed
      /\ pc' = [pc EXCEPT ![c] = "record"] /\ fid' = [fid EXCEPT ![c] = FaultId(c, clock')]
      /\ clock' \in clock .. MaxSecond
      /\ Stops(c) \/ faults[Site(c)] = {}
      /\ faults' = [faults EXCEPT ![Site(c)] = @ \cup {c}]
  BY DEF Inject, Goes, file, history, Listed
<1>2. todo[c] # <<>>
  BY <1>1 DEF TargetKnown
<1>3. /\ Site(c) \in Slot /\ Site(c) = <<Head(todo[c]), DeviceOf(c)>>
      /\ FaultId(c, clock') \in Id /\ FaultId(c, clock')[2] = Head(todo[c])
      /\ Known(c) => DeviceOf(c) = IF Stops(c) THEN Container ELSE Eth0
  <2>1. clock' \in 0 .. MaxSecond
    BY <1>1, CaseAssumption DEF Types
  <2>2. QED
    BY <1>2, <2>1, Sites
<1>4. /\ pc'[c] = "record" /\ fid'[c] = FaultId(c, clock')
      /\ \A d \in Case : d # c => pc'[d] = pc[d] /\ fid'[d] = fid[d]
  BY <1>1 DEF Types, Actor
<1>5. /\ \A s \in Slot : faults'[s] = IF s = Site(c) THEN faults[s] \cup {c} ELSE faults[s]
      /\ AllKnown => \A d \in Case : d # c /\ pc[d] \in {"record", "recover"} /\ ~Stops(d)
                                    /\ Head(todo[d]) \notin disturbed
            => faults'[<<Head(todo[d]), Eth0>>] = {d}
  BY <1>1, InjectionElsewhere
<1>6. TargetKnown'
  BY <1>1, <1>2, <1>3, <1>4 DEF TargetKnown
<1>7. AtItsSite'
  <2>1. ASSUME NEW s \in Slot, c \in faults'[s], c \notin blind, Known(c)
        PROVE  s = Site(c)
    BY <1>1, <1>5, <2>1 DEF AtItsSite
  <2>2. QED
    BY <1>1, <1>3, <1>4, <1>5, <2>1 DEF AtItsSite, Known, DeviceOf
<1>8. OnRecord'
  BY <1>1, <1>4, <1>5 DEF OnRecord, Known, DeviceOf
<1>9. OthersSettled'
  BY <1>1, <1>4 DEF OthersSettled
<1>10. AloneOnDevice'
  <2>1. ASSUME AllKnown, ~Stops(c) PROVE faults'[<<Head(todo[c]), Eth0>>] = {c}
    BY <1>1, <1>3, <1>5, <2>1 DEF AllKnown
  <2>2. QED
    BY <1>1, <1>4, <1>5, <2>1 DEF AloneOnDevice, AllKnown, Known, DeviceOf, Stops
<1>11. QED
  BY <1>6, <1>7, <1>8, <1>9, <1>10 DEF Parts

\* What a recover takes away is the case's own fault, on an undisturbed pod nobody else's.
LEMMA RecoverKeeps ==
    ASSUME CInv, NEW c \in Case, RecoverNetwork(c) \/ RecoverStop(c) PROVE Parts'
<1> USE DEF CInv, Parts, OnTarget, HasFault
<1>1. /\ UNCHANGED <<todo, fid, lost, disturbed>> /\ pc[c] = "recover" /\ Listed' = Listed
      /\ blind \subseteq blind'
      /\ \E there \in {"mark", "fail"} : pc' = [pc EXCEPT ![c] = there]
      /\ \/ faults' = [faults EXCEPT ![RecoverSite(c)] = {}]
         \/ faults' = faults /\ c \in blind'
         \/ faults' = faults /\ pc' = [pc EXCEPT ![c] = "fail"]
  BY DEF RecoverNetwork, RecoverStop, Goes, case, file, history, Listed
<1>2. todo[c] # <<>> /\ fid[c][2] = Head(todo[c])
  BY <1>1 DEF TargetKnown
<1>3. /\ RecoverSite(c) \in Slot
      /\ Site(c) = <<Head(todo[c]), DeviceOf(c)>>
      /\ RecoverSite(c) = <<Head(todo[c]), IF Stops(c) THEN Container ELSE Eth0>>
      /\ Known(c) => RecoverSite(c) = Site(c)
  BY <1>2, Sites
<1>4. /\ pc'[c] \in {"mark", "fail"}
      /\ pc' = [pc EXCEPT ![c] = "fail"] => pc'[c] = "fail"
      /\ \A d \in Case : d # c => pc'[d] = pc[d]
  BY <1>1 DEF Types, Actor
<1>5. \A s \in Slot : \/ faults'[s] = faults[s]
                      \/ s = RecoverSite(c) /\ faults'[s] = {}
  BY <1>1, <1>3 DEF Types
<1>6. c \in blind' \/ pc'[c] = "fail" \/ faults'[RecoverSite(c)] = {}
  BY <1>1, <1>3, <1>4 DEF Types
<1>7. TargetKnown' /\ OthersSettled'
  BY <1>1, <1>4 DEF TargetKnown, OthersSettled
<1>8. AtItsSite'
  BY <1>1, <1>2, <1>3, <1>4, <1>5, <1>6 DEF AtItsSite, Known, DeviceOf
<1>9. OnRecord'
  BY <1>1, <1>4, <1>5 DEF OnRecord, Known, DeviceOf
<1>10. AloneOnDevice'
  <2>1. ASSUME AllKnown, NEW d \in Case, d # c, pc[d] \in {"record", "recover"}, ~Stops(d),
               Head(todo[d]) \notin disturbed
        PROVE  faults'[<<Head(todo[d]), Eth0>>] = {d}
    <3>1. faults[<<Head(todo[d]), Eth0>>] = {d}
      BY <2>1 DEF AloneOnDevice
    <3>2. <<Head(todo[d]), Eth0>> # RecoverSite(c)
      <4>1. CASE Stops(c)
        BY <1>3, <4>1, CaseAssumption
      <4>2. CASE ~Stops(c)
        <5>1. Head(todo[c]) \notin disturbed => faults[<<Head(todo[c]), Eth0>>] = {c}
          BY <1>1, <2>1, <4>2 DEF AloneOnDevice
        <5>2. QED
          BY <1>3, <2>1, <3>1, <4>2, <5>1
      <4>3. QED
        BY <4>1, <4>2
    <3>3. Head(todo[d]) \in Pod
      BY <2>1, Sites DEF TargetKnown
    <3>4. <<Head(todo[d]), Eth0>> \in Slot
      BY <3>3, CaseAssumption DEF Slot
    <3>5. QED
      BY <1>5, <3>1, <3>2, <3>4
  <2>2. QED
    BY <1>1, <1>4, <2>1 DEF AloneOnDevice, AllKnown, Known, DeviceOf, Stops
<1>11. QED
  BY <1>7, <1>8, <1>9, <1>10 DEF Parts

-----------------------------------------------------------------------------
(* The calls of the state manager, and the cases *)

\* A call is over: what a case goes on to do fits what its call left on record.
LEMMA ReturnKeeps ==
    ASSUME CInv, NEW a \in Actor, Returns(a), UNCHANGED <<fid, faults, blind, disturbed>>,
           Keeps, lost \subseteq lost',
           pc[a] = "record" /\ fid[a] \notin lost' =>
               Listed'[fid[a]] = [case |-> a, status |-> "running"],
           pc[a] = "mark" /\ fid[a] \notin lost' =>
               Listed'[fid[a]].case # a \/ Listed'[fid[a]].status = "recovered"
    PROVE  Parts'
<1> USE DEF CInv, Parts, OnTarget, HasFault
<1>1. /\ pc[a] \in Storing
      /\ \A b \in Actor : b # a => pc'[b] = pc[b]
      /\ pc[a] = "record" => pc'[a] \in {"false", "recover"} /\ todo' = todo
      /\ pc[a] = "fail" => pc'[a] = "false" /\ todo' = todo
      /\ pc[a] = "sweep" => pc'[a] = "records" /\ todo' = todo
      /\ pc[a] = "mark" => /\ pc'[a] \in {"inject", "select", "clear", "true"}
                           /\ todo' = [todo EXCEPT ![a] = Tail(@)]
                           /\ pc'[a] = "inject" => Len(todo[a]) > 1
  BY ReturnsTo
<1>2. /\ fid[a] \in Id /\ Case \subseteq Actor
      /\ a \in Case => pc[a] \in HasFault
      /\ a \notin Case => pc[a] = "sweep"
  BY <1>1, OwnRecord DEF Actor
<1>3. \A c \in Case : /\ c # a => todo'[c] = todo[c]
                      /\ c = a /\ pc'[c] = "inject" => todo'[c] # <<>>
                      /\ c = a /\ pc[c] # "mark" => todo'[c] = todo[c]
  <2>1. ASSUME a \in Case, Len(todo[a]) > 1 PROVE Tail(todo[a]) # <<>>
    <3>1. todo[a] \in Seq(Pod)
      BY <2>1 DEF Types
    <3>2. Len(todo[a]) \in Nat /\ todo[a] # <<>>
      BY <2>1, <3>1, EmptySeq
    <3>3. Len(Tail(todo[a])) = Len(todo[a]) - 1
      BY <3>1, <3>2
    <3>4. Len(Tail(todo[a])) # 0
      <4>1. ASSUME NEW n \in Nat, n > 1 PROVE n - 1 # 0
        BY <4>1
      <4>2. QED
        BY <2>1, <3>2, <3>3, <4>1, Zenon
    <3>5. Len(<<>>) = 0
      BY EmptySeq
    <3>6. QED
      BY <3>4, <3>5, Zenon
  <2>2. todo \in [Case -> Seq(Pod)]
    BY DEF Types
  <2>3. QED
    BY <1>1, <1>2, <2>1, <2>2 DEF Storing
<1>4. TargetKnown'
  BY <1>1, <1>2, <1>3 DEF TargetKnown
<1>5. AtItsSite'
  BY <1>1, <1>2 DEF AtItsSite, Known, DeviceOf, Storing
<1>6. OnRecord'
  <2>1. ASSUME NEW c \in Case, NEW s \in Slot, c \in faults[s], c \notin blind, Known(c),
               pc'[c] # "record", fid[c] \notin lost'
        PROVE  Listed'[fid[c]].case = c /\ Listed'[fid[c]].status \in {"running", "failed"}
    <3>1. fid[c] \in Id
      BY <2>1 DEF AtItsSite
    <3>2. CASE c = a /\ pc[a] = "record"
      BY <2>1, <3>2
    <3>3. CASE ~(c = a /\ pc[a] = "record")
      <4>1. pc[c] # "record"
        BY <1>1, <1>2, <2>1, <3>3
      <4>2. Listed[fid[c]].case = c /\ Listed[fid[c]].status \in {"running", "failed"}
        BY <2>1, <4>1 DEF OnRecord
      <4>3. QED
        BY <2>1, <3>1, <4>2 DEF Keeps
    <3>4. QED
      BY <3>2, <3>3
  <2>2. QED
    BY <2>1 DEF OnRecord, Known, DeviceOf
<1>7. OthersSettled'
  <2>1. ASSUME NEW c \in Case, NEW i \in Id \ lost', Listed'[i].case = c,
               Listed'[i].status # "recovered"
        PROVE  pc'[c] \in {"record", "recover", "mark", "fail", "false"} /\ i = fid[c]
    <3>1. pc[c] \in {"record", "recover", "mark", "fail", "false"} /\ i = fid[c]
      BY <2>1 DEF OthersSettled, Keeps
    <3>2. CASE c = a
      BY <1>1, <1>2, <2>1, <3>1, <3>2 DEF Storing
    <3>3. CASE c # a
      BY <1>1, <1>2, <3>1, <3>3
    <3>4. QED
      BY <3>2, <3>3
  <2>2. QED
    BY <2>1 DEF OthersSettled
<1>8. AloneOnDevice'
  <2>1. \A c \in Case : pc'[c] \in {"record", "recover"} =>
                           pc[c] \in {"record", "recover"} /\ todo'[c] = todo[c]
    BY <1>1, <1>2, <1>3 DEF Storing
  <2>2. QED
    BY <2>1 DEF AloneOnDevice, AllKnown, Known, DeviceOf, Stops
<1>9. QED
  BY <1>4, <1>5, <1>6, <1>7, <1>8 DEF Parts

\* A step within a call, which leaves the cases where they are.
LEMMA StaysPut ==
    ASSUME CInv, UNCHANGED <<pc, todo, fid, faults, blind, disturbed>>, lost \subseteq lost',
           NEW a \in Actor, pc[a] \in Storing, fid[a] \in Id,
           \A i \in Id \ lost' : i # fid[a] => Listed'[i] = Listed[i],
           fid[a] \notin lost' =>
               \/ Listed'[fid[a]] = Listed[fid[a]]
               \/ /\ a \in Case
                  /\ Listed'[fid[a]] = [case |-> a, status |-> Told(pc[a])]
                  /\ Listed[fid[a]].case = a \/ Listed[fid[a]].status \in {"none", "recovered"}
    PROVE  Parts'
<1> USE DEF CInv, Parts, OnTarget, HasFault
<1>1. TargetKnown' /\ AtItsSite' /\ AloneOnDevice'
  BY DEF TargetKnown, AtItsSite, AloneOnDevice, AllKnown, Known, DeviceOf, Stops
<1>2. OnRecord'
  <2>1. ASSUME NEW c \in Case, NEW s \in Slot, c \in faults[s], c \notin blind, Known(c),
               pc[c] # "record", fid[c] \notin lost'
        PROVE  Listed'[fid[c]].case = c /\ Listed'[fid[c]].status \in {"running", "failed"}
    <3>1. fid[c] \in Id /\ pc[c] \in {"record", "recover", "fail", "false"}
      BY <2>1 DEF AtItsSite
    <3>2. Listed[fid[c]].case = c /\ Listed[fid[c]].status \in {"running", "failed"}
      BY <2>1 DEF OnRecord
    <3>3. CASE Listed'[fid[c]] = Listed[fid[c]]
      BY <3>2, <3>3
    <3>4. CASE Listed'[fid[c]] # Listed[fid[c]]
      <4>1. fid[c] = fid[a] /\ a \in Case /\ Listed'[fid[a]] = [case |-> a, status |-> Told(pc[a])]
        BY <2>1, <3>1, <3>4
      <4>2. a = c
        BY <2>1, <3>2, <3>4, <4>1
      <4>3. pc[a] = "fail"
        BY <2>1, <3>1, <4>2 DEF Storing
      <4>4. QED
        BY <4>1, <4>2, <4>3 DEF Told
    <3>5. QED
      BY <3>3, <3>4
  <2>2. QED
    BY <2>1 DEF OnRecord, Known, DeviceOf
<1>3. OthersSettled'
  <2>1. ASSUME NEW c \in Case, NEW i \in Id \ lost', Listed'[i].case = c,
               Listed'[i].status # "recovered"
        PROVE  pc[c] \in {"record", "recover", "mark", "fail", "false"} /\ i = fid[c]
    <3>1. CASE Listed'[i] = Listed[i]
      BY <2>1, <3>1 DEF OthersSettled
    <3>2. CASE Listed'[i] # Listed[i]
      <4>1. i = fid[a] /\ a \in Case /\ Listed'[fid[a]] = [case |-> a, status |-> Told(pc[a])]
        BY <2>1, <3>2
      <4>2. a = c
        BY <2>1, <4>1
      <4>3. QED
        BY <4>1, <4>2 DEF Storing, Places
    <3>3. QED
      BY <3>1, <3>2
  <2>2. QED
    BY <2>1 DEF OthersSettled
<1>4. QED
  BY <1>1, <1>2, <1>3

-----------------------------------------------------------------------------
(* The invariant *)

\* What a case does outside the state manager.
CaseActs(c) ==
    \/ Refuse(c) \/ Select(c) \/ InjectFails(c) \/ Inject(c)
    \/ RecoverNetwork(c) \/ RecoverRaises(c) \/ RecoverStop(c) \/ AutoClear(c)

ClearActs(a) ==
    \/ ClearPod(a) \/ ClearEnds(a)
    \/ a = ClearCommand /\ (Clear \/ Snapshot \/ ClearNext)

\* The actions of a case leave the file and the calls alone.
LEMMA CaseOnly ==
    ASSUME CInv, NEW c \in Case, CaseActs(c)
    PROVE  /\ UNCHANGED <<store, blank, saving, buffer, sweep, lost>>
           /\ pc[c] \in {"select", "inject", "recover", "clear"}
           /\ \E there \in {"false", "inject", "record", "mark", "fail", "clearing"} :
                 pc' = [pc EXCEPT ![c] = there]
           /\ \A a \in Actor : a # c => pc'[a] = pc[a] /\ fid'[a] = fid[a]
           /\ saving[c] = "none" /\ c \in Actor
<1>1. /\ UNCHANGED <<store, blank, saving, buffer, sweep, lost>>
      /\ pc[c] \in {"select", "inject", "recover", "clear"}
      /\ \E there \in {"false", "inject", "record", "mark", "fail", "clearing"} :
            pc' = [pc EXCEPT ![c] = there]
      /\ fid' = fid \/ fid' = [fid EXCEPT ![c] = FaultId(c, clock')]
  BY DEF CaseActs, Refuse, Select, InjectFails, Inject, RecoverNetwork, RecoverRaises,
         RecoverStop, AutoClear, Goes, world, file, history, case
<1>2. \A a \in Actor : a # c => pc'[a] = pc[a] /\ fid'[a] = fid[a]
  BY <1>1 DEF CInv, Types
<1>3. saving[c] = "none" /\ c \in Actor
  BY <1>1 DEF CInv, Places, Storing, Actor
<1>4. QED
  BY <1>1, <1>2, <1>3

\* So do those of a clear, but for the record it takes up.
LEMMA ClearOnly ==
    ASSUME CInv, NEW a \in Actor, ClearActs(a)
    PROVE  /\ UNCHANGED <<todo, store, blank, saving, buffer, lost, blind, clock>>
           /\ sweep' \subseteq Id
           /\ \/ pc' = pc /\ fid' = fid /\ pc[a] = "clearing"
              \/ /\ UNCHANGED <<faults, disturbed>>
                 /\ \E there \in {"clearing", "snapshot", "records", "sweep", "idle", "true"} :
                       /\ pc' = [pc EXCEPT ![a] = there]
                       /\ there = "true" <=> a # ClearCommand
                       /\ there = "sweep" => fid'[a] \in Id
                 /\ pc[a] \in {"idle", "clearing", "snapshot", "records"}
                 /\ \A b \in Actor : b # a => fid'[b] = fid[b]
                 /\ fid' = fid \/ a = ClearCommand
           /\ fid' \in [Actor -> Id \cup {NoId}]
           /\ saving[a] = "none"
<1>1. CASE ClearPod(a)
  BY <1>1 DEF ClearPod, case, file, CInv, Types, Places, Storing
<1>2. CASE ClearEnds(a)
  BY <1>2 DEF ClearEnds, Goes, case, file, history, CInv, Types, Places, Storing
<1>3. CASE a = ClearCommand /\ (Clear \/ Snapshot)
  BY <1>3 DEF Clear, Snapshot, Goes, case, file, history, CInv, Types, Places, Storing
<1>4. CASE a = ClearCommand /\ ClearNext
  <2>1. /\ UNCHANGED <<todo, store, blank, saving, buffer, lost, blind, clock, faults, disturbed>>
        /\ pc[a] = "records" /\ saving[a] = "none"
    BY <1>4 DEF ClearNext, history, CInv, Places, Storing
  <2>2. CASE sweep = {} /\ Goes(a, "idle") /\ fid' = [fid EXCEPT ![a] = NoId] /\ sweep' = sweep
    BY <1>4, <2>1, <2>2 DEF Goes, CInv, Types
  <2>3. ASSUME NEW i \in sweep, fid' = [fid EXCEPT ![a] = i], sweep' = sweep \ {i}, Goes(a, "sweep")
        PROVE  /\ sweep' \subseteq Id /\ fid'[a] \in Id /\ pc' = [pc EXCEPT ![a] = "sweep"]
               /\ \A b \in Actor : b # a => fid'[b] = fid[b]
               /\ fid' \in [Actor -> Id \cup {NoId}]
    BY <2>3 DEF Goes, CInv, Types
  <2>4. QED
    BY <1>4, <2>1, <2>2, <2>3 DEF ClearNext
<1>5. QED
  BY <1>1, <1>2, <1>3, <1>4 DEF ClearActs

\* The steps of a call, and deaths.
CallActs(a) ==
    \/ a \in Case /\ Get(a)
    \/ Load(a) \/ Truncate(a) \/ Write(a) \/ WriteFails(a)

\* Each step of a call gives up, takes a copy, truncates or ends.
LEMMA CallSteps ==
    ASSUME CInv, NEW a \in Actor, CallActs(a)
    PROVE  /\ UNCHANGED <<clock, fid, faults, sweep, blind, disturbed>> /\ lost \subseteq lost'
           /\ \/ Returns(a)
              \/ UNCHANGED <<pc, todo>> /\ saving[a] # "cut" /\ saving'[a] # "none"
           /\ pc[a] \in Storing
           /\ saving' \in [Actor -> {"none", "got", "loaded", "cut"}]
           /\ buffer' \in [Actor -> [Id -> StoreRecord]]
           /\ store' \in [Id -> StoreRecord]
           /\ \A b \in Actor : b # a => saving'[b] = saving[b] /\ buffer'[b] = buffer[b]
           /\ saving'[a] = "got" => buffer'[a][fid[a]] # NoRecord
<1> USE DEF CInv
<1>1. NoRecords \in [Id -> StoreRecord] /\ buffer[a] \in [Id -> StoreRecord]
  BY DEF NoRecords, StoreRecord, Types
<1>2. CASE Returns(a)
  <2>1. /\ UNCHANGED <<clock, fid, faults, sweep, blind, disturbed>> /\ lost \subseteq lost'
        /\ store' \in {store, buffer[a], NoRecords}
    BY <1>2 DEF CallActs, Get, Load, Truncate, Write, WriteFails, case, history
  <2>2. store' \in [Id -> StoreRecord]
    BY <1>1, <2>1 DEF Types
  <2>3. QED
    BY <1>2, <2>1, <2>2, ReturnsTo
<1>3. CASE a \in Case /\ Get(a) /\ ~Returns(a)
  <2>1. /\ UNCHANGED <<clock, fid, faults, sweep, blind, disturbed, pc, todo, store>>
        /\ lost \subseteq lost' /\ saving[a] = "none" /\ pc[a] = "fail"
        /\ saving' = [saving EXCEPT ![a] = "got"] /\ buffer' = [buffer EXCEPT ![a] = store]
        /\ store[fid[a]].status # "none"
    BY <1>3 DEF Get
  <2>2. /\ saving'[a] = "got" /\ buffer'[a] = store
        /\ \A b \in Actor : b # a => saving'[b] = saving[b] /\ buffer'[b] = buffer[b]
        /\ saving' \in [Actor -> {"none", "got", "loaded", "cut"}]
        /\ buffer' \in [Actor -> [Id -> StoreRecord]]
    BY <2>1, Copies DEF Types
  <2>3. QED
    BY <2>1, <2>2 DEF Storing, Types, NoRecord
<1>4. CASE Load(a) /\ ~Returns(a)
  <2>1. /\ UNCHANGED <<clock, fid, faults, sweep, blind, disturbed, pc, todo, store>>
        /\ lost \subseteq lost' /\ ~Refuses(a) /\ Loads(a)
        /\ saving' = [saving EXCEPT ![a] = "loaded"]
        /\ buffer' = [buffer EXCEPT ![a] = [store EXCEPT ![fid[a]] = Changed(a)]]
    BY <1>4 DEF Load
  <2>2. pc[a] \in Storing /\ saving[a] # "cut"
    BY <2>1 DEF Loads, Storing
  <2>3. fid[a] \in Id /\ Changed(a) \in StoreRecord
    BY <2>1, <2>2, OwnRecord, ChangedIs
  <2>4. [store EXCEPT ![fid[a]] = Changed(a)] \in [Id -> StoreRecord]
    BY <2>3 DEF Types
  <2>5. /\ saving'[a] = "loaded"
        /\ \A b \in Actor : b # a => saving'[b] = saving[b] /\ buffer'[b] = buffer[b]
        /\ saving' \in [Actor -> {"none", "got", "loaded", "cut"}]
        /\ buffer' \in [Actor -> [Id -> StoreRecord]]
    BY <2>1, <2>2, <2>4, Copies
  <2>6. QED
    BY <2>1, <2>2, <2>5 DEF Types
<1>5. CASE Truncate(a)
  <2>1. /\ UNCHANGED <<clock, fid, faults, sweep, blind, disturbed, pc, todo, lost, buffer>>
        /\ saving[a] = "loaded" /\ store' = NoRecords /\ saving' = [saving EXCEPT ![a] = "cut"]
    BY <1>5 DEF Truncate, case, history
  <2>2. QED
    BY <1>1, <2>1 DEF Types, Places
<1>6. QED
  BY <1>2, <1>3, <1>4, <1>5 DEF CallActs, Write, WriteFails

\* Every step keeps the types.
LEMMA TypesKept == ASSUME CInv, Next PROVE Types'
<1> USE DEF CInv, Parts
<1>1. ASSUME NEW c \in Case, CaseActs(c) PROVE Types'
  <2>1. UNCHANGED <<store, saving, buffer, sweep>> /\ pc' \in [Actor -> Place]
    BY <1>1, CaseOnly DEF Types, Place
  <2>2. todo' \in [Case -> Seq(Pod)]
    <3>1. CASE Select(c)
      BY <3>1, TargetsArePods DEF Select, Types
    <3>2. CASE ~Select(c)
      BY <1>1, <3>2 DEF CaseActs, Refuse, InjectFails, Inject, RecoverNetwork, RecoverRaises,
             RecoverStop, AutoClear, case, Types
    <3>3. QED
      BY <3>1, <3>2
  <2>3. /\ clock' \in 0 .. MaxSecond
        /\ fid' \in [Actor -> Id \cup {NoId}]
        /\ faults' \in [Slot -> SUBSET Case]
        /\ blind' \subseteq Case
    <3>1. CASE InjectFails(c) \/ Inject(c)
      <4>1. todo[c] # <<>>
        BY <3>1 DEF InjectFails, Inject, TargetKnown, OnTarget
      <4>2. Site(c) \in Slot /\ \A t \in 0 .. MaxSecond : FaultId(c, t) \in Id
        BY <4>1, Sites
      <4>3. \/ faults' = faults
            \/ faults' = [faults EXCEPT ![Site(c)] = @ \cup {c}]
        BY <3>1 DEF InjectFails, Inject
      <4>4. \/ fid' = fid /\ clock' = clock
            \/ fid' = [fid EXCEPT ![c] = FaultId(c, clock')] /\ clock' \in clock .. MaxSecond
        BY <3>1 DEF InjectFails, Inject, case
      <4>5. blind' \subseteq blind \cup {c}
        BY <3>1 DEF InjectFails, Inject, history
      <4>6. faults' \in [Slot -> SUBSET Case]
        BY <4>2, <4>3 DEF Types
      <4>7. clock' \in 0 .. MaxSecond
        BY <4>4, CaseAssumption DEF Types
      <4>8. fid' \in [Actor -> Id \cup {NoId}]
        BY <4>2, <4>4, <4>7 DEF Types
      <4>9. QED
        BY <4>5, <4>6, <4>7, <4>8 DEF Types
    <3>2. CASE RecoverNetwork(c) \/ RecoverStop(c)
      <4>1. todo[c] # <<>>
        BY <3>2 DEF RecoverNetwork, RecoverStop, TargetKnown, OnTarget
      <4>2. RecoverSite(c) \in Slot
        BY <4>1, Sites
      <4>3. /\ faults' = faults \/ faults' = [faults EXCEPT ![RecoverSite(c)] = {}]
            /\ fid' = fid /\ clock' = clock /\ blind' \subseteq blind \cup {c}
        BY <3>2 DEF RecoverNetwork, RecoverStop, case, history
      <4>4. faults' \in [Slot -> SUBSET Case]
        BY <4>2, <4>3 DEF Types
      <4>5. QED
        BY <4>3, <4>4 DEF Types
    <3>3. CASE ~InjectFails(c) /\ ~Inject(c) /\ ~RecoverNetwork(c) /\ ~RecoverStop(c)
      BY <1>1, <3>3 DEF CaseActs, Refuse, Select, RecoverRaises, AutoClear,
             case, world, history, Types
    <3>4. QED
      BY <3>1, <3>2, <3>3
  <2>4. QED
    BY <2>1, <2>2, <2>3 DEF Types
<1>2. ASSUME NEW a \in Actor, ClearActs(a) PROVE Types'
  <2>1. /\ UNCHANGED <<clock, todo, store, saving, buffer, blind>> /\ sweep' \subseteq Id
        /\ fid' \in [Actor -> Id \cup {NoId}] /\ pc' \in [Actor -> Place]
    BY <1>2, ClearOnly DEF Types, Place
  <2>2. faults' \in [Slot -> SUBSET Case]
    <3>1. \/ faults' = faults
          \/ \E p \in clearing[a] : faults' = [faults EXCEPT ![<<p, ClearDevice(a)>>] = {}]
      BY <1>2 DEF ClearActs, ClearPod, ClearEnds, Clear, Snapshot, ClearNext
    <3>2. QED
      BY <3>1 DEF Types
  <2>3. QED
    BY <2>1, <2>2 DEF Types
<1>3. ASSUME NEW a \in Actor, CallActs(a) PROVE Types'
  <2>1. /\ UNCHANGED <<clock, fid, faults, sweep, blind>>
        /\ Returns(a) \/ UNCHANGED <<pc, todo>>
        /\ pc[a] \in Storing
        /\ saving' \in [Actor -> {"none", "got", "loaded", "cut"}]
        /\ buffer' \in [Actor -> [Id -> StoreRecord]]
        /\ store' \in [Id -> StoreRecord]
    BY <1>3, CallSteps
  <2>2. pc' \in [Actor -> Place]
    BY <2>1, ReturnsTo DEF Types
  <2>3. todo' \in [Case -> Seq(Pod)]
    <3>1. \/ todo' = todo
          \/ pc[a] = "mark" /\ todo' = [todo EXCEPT ![a] = Tail(@)]
      BY <2>1, ReturnsTo DEF Storing
    <3>2. CASE pc[a] = "mark" /\ todo' = [todo EXCEPT ![a] = Tail(@)]
      <4>1. a \in Case
        BY <3>2, OwnRecord DEF Storing
      <4>2. todo[a] \in Seq(Pod) /\ todo[a] # <<>>
        BY <3>2, <4>1 DEF Types, TargetKnown, OnTarget
      <4>3. Tail(todo[a]) \in Seq(Pod)
        BY <4>2
      <4>4. QED
        BY <3>2, <4>3 DEF Types
    <3>3. QED
      BY <3>1, <3>2 DEF Types
  <2>4. QED
    BY <2>1, <2>2, <2>3 DEF Types
<1>4. ASSUME NEW A \in SUBSET Actor, Killed(A), UNCHANGED <<clock, faults, store, blind>>,
             sweep' \subseteq sweep, fid' = fid \/ fid' = [fid EXCEPT ![ClearCommand] = NoId]
      PROVE  Types'
  <2>1. pc' \in [Actor -> Place]
    BY <1>4 DEF Killed, Types, Place
  <2>2. saving' \in [Actor -> {"none", "got", "loaded", "cut"}]
    BY <1>4 DEF Killed, Types
  <2>3. buffer' \in [Actor -> [Id -> StoreRecord]]
    <3>1. NoRecords \in [Id -> StoreRecord]
      BY DEF NoRecords, StoreRecord
    <3>2. QED
      BY <1>4, <3>1 DEF Killed, Types
  <2>4. todo' \in [Case -> Seq(Pod)]
    <3>1. <<>> \in Seq(Pod)
      BY EmptySeq
    <3>2. QED
      BY <1>4, <3>1 DEF Killed, Types
  <2>5. fid' \in [Actor -> Id \cup {NoId}]
    BY <1>4 DEF Types
  <2>6. QED
    BY <1>4, <2>1, <2>2, <2>3, <2>4, <2>5 DEF Types
<1>5. CASE Crash
  <2>1. {c \in Case : ~Ended(c)} \in SUBSET Actor
    BY DEF Actor
  <2>2. QED
    BY <1>4, <1>5, <2>1 DEF Crash
<1>6. CASE ClearDies
  <2>1. {ClearCommand} \in SUBSET Actor
    BY DEF Actor
  <2>2. QED
    BY <1>4, <1>6, <2>1 DEF ClearDies
<1>7. ASSUME NEW p \in Pod, PodRestarts(p) PROVE Types'
  BY <1>7 DEF PodRestarts, case, file, Types
<1>8. QED
  BY <1>1, <1>2, <1>3, <1>5, <1>6, <1>7 DEF Next, CaseActs, ClearActs, CallActs, Actor

\* What a case does outside the state manager keeps the rest of the invariant.
LEMMA CaseKeeps == ASSUME CInv, NEW c \in Case, CaseActs(c) PROVE Places' /\ Calls' /\ Parts'
<1>1. /\ UNCHANGED <<store, blank, saving, buffer, sweep, lost>>
      /\ pc[c] \in {"select", "inject", "recover", "clear"}
      /\ \A a \in Actor : a # c => pc'[a] = pc[a] /\ fid'[a] = fid[a]
      /\ saving[c] = "none" /\ c \in Actor
  BY CaseOnly
<1>2. PICK there \in {"false", "inject", "record", "mark", "fail", "clearing"} :
         pc' = [pc EXCEPT ![c] = there]
  BY CaseOnly
<1>3. pc'[c] = there /\ Case \subseteq Actor /\ ClearCommand \in Actor /\ ClearCommand # c
  BY <1>2, CaseAssumption DEF CInv, Types, Actor
<1>4. Places'
  BY <1>1, <1>3 DEF CInv, Places
<1>5. Calls' /\ Keeps
  BY <1>1, FileUntouched DEF CInv
<1>6. CASE Refuse(c) \/ RecoverRaises(c) \/ AutoClear(c)
  <2>1. /\ UNCHANGED <<todo, fid, faults, lost, blind, disturbed>>
        /\ pc[c] \in {"select", "recover", "clear"}
        /\ \E else \in {"false", "clearing"} : /\ pc' = [pc EXCEPT ![c] = else]
                                               /\ pc[c] = "recover" => else = "false"
    BY <1>6 DEF Refuse, RecoverRaises, AutoClear, Goes, case, world, history
  <2>2. {"false", "clearing"} \subseteq Place /\ \A p \in {"false", "clearing"} : p \notin OnTarget
    BY DEF Place, OnTarget
  <2>3. Parts'
    BY <1>1, <1>5, <2>1, <2>2, MovesOn
  <2>4. QED
    BY <1>4, <1>5, <2>3
<1>7. CASE \/ Select(c) \/ InjectFails(c) \/ Inject(c) \/ RecoverNetwork(c) \/ RecoverStop(c)
  BY <1>4, <1>5, <1>7, SelectKeeps, InjectFailsKeeps, InjectKeeps, RecoverKeeps
<1>8. QED
  BY <1>6, <1>7 DEF CaseActs

\* So does a clear outside the state manager.
LEMMA ClearKeeps == ASSUME CInv, NEW a \in Actor, ClearActs(a) PROVE Places' /\ Calls' /\ Parts'
<1>1. UNCHANGED <<todo, store, blank, saving, buffer, lost, blind>> /\ saving[a] = "none"
  BY ClearOnly
<1>2. CASE pc' = pc /\ fid' = fid
  <2>1. Places'
    BY <1>1, <1>2 DEF CInv, Places
  <2>2. Calls' /\ Keeps
    BY <1>1, <1>2, FileUntouched DEF CInv
  <2>3. /\ disturbed \subseteq disturbed'
        /\ \A s \in Slot : faults'[s] = faults[s] \/ (faults'[s] = {} /\ s[1] \in disturbed')
    <3>1. CASE UNCHANGED <<faults, disturbed>>
      BY <3>1
    <3>2. ASSUME NEW p \in clearing[a], faults' = [faults EXCEPT ![<<p, ClearDevice(a)>>] = {}],
                 disturbed' = disturbed \cup {p}
          PROVE  /\ disturbed \subseteq disturbed'
                 /\ \A s \in Slot :
                       faults'[s] = faults[s] \/ (faults'[s] = {} /\ s[1] \in disturbed')
      <4>1. \A s \in Slot : s = <<p, ClearDevice(a)>> => s[1] = p
        OBVIOUS
      <4>2. faults \in [Slot -> SUBSET Case]
        BY DEF CInv, Types
      <4>3. \A s \in Slot : faults'[s] = faults[s] \/ (faults'[s] = {} /\ s = <<p, ClearDevice(a)>>)
        BY <3>2, <4>2
      <4>4. QED
        BY <3>2, <4>1, <4>3
    <3>3. \/ UNCHANGED <<faults, disturbed>>
          \/ \E p \in clearing[a] : /\ faults' = [faults EXCEPT ![<<p, ClearDevice(a)>>] = {}]
                                    /\ disturbed' = disturbed \cup {p}
      BY DEF ClearActs, ClearPod, ClearEnds, Clear, Snapshot, ClearNext, history
    <3>4. QED
      BY <3>1, <3>2, <3>3
  <2>4. Parts'
    BY <1>1, <1>2, <2>2, <2>3, TakesAway
  <2>5. QED
    BY <2>1, <2>2, <2>4
<1>3. ASSUME NEW there \in {"clearing", "snapshot", "records", "sweep", "idle", "true"},
             UNCHANGED <<faults, disturbed>>, pc' = [pc EXCEPT ![a] = there],
             there = "true" <=> a # ClearCommand, there = "sweep" => fid'[a] \in Id,
             pc[a] \in {"idle", "clearing", "snapshot", "records"},
             \A b \in Actor : b # a => fid'[b] = fid[b],
             fid' = fid \/ a = ClearCommand
      PROVE  Places' /\ Calls' /\ Parts'
  <2>1. /\ pc'[a] = there /\ \A b \in Actor : b # a => pc'[b] = pc[b]
        /\ Case \subseteq Actor /\ ClearCommand \in Actor
    BY <1>3 DEF CInv, Types, Actor
  <2>2. Places'
    <3>1. pc'[ClearCommand] \in {"idle", "clearing", "snapshot", "records", "sweep"}
      BY <1>3, <2>1 DEF CInv, Places
    <3>2. \A c \in Case : pc'[c] \notin {"idle", "snapshot", "records", "sweep"}
      <4>1. a \in Case => there = "true" \/ there = "clearing"
        BY <1>3, CaseAssumption
      <4>2. QED
        BY <2>1, <4>1 DEF CInv, Places
    <3>3. \A b \in Actor : saving'[b] # "none" => pc'[b] \in Storing
      BY <1>1, <2>1 DEF CInv, Places
    <3>4. pc'[ClearCommand] = "sweep" => fid'[ClearCommand] \in Id
      BY <1>3, <2>1 DEF CInv, Places
    <3>5. \A b \in Actor : saving'[b] = "got" => buffer'[b][fid'[b]] # NoRecord
      BY <1>1, <1>3 DEF CInv, Places
    <3>6. QED
      BY <3>1, <3>2, <3>3, <3>4, <3>5 DEF Places
  <2>3. Calls' /\ Keeps
    BY <1>1, <1>3, <2>1, FileUntouched DEF CInv
  <2>4. \A c \in Case : fid'[c] = fid[c]
    BY <1>3, CaseAssumption DEF Actor
  <2>5. there \in Place /\ there \notin OnTarget
    BY <1>3 DEF Place, OnTarget
  <2>6. Parts'
    BY <1>1, <1>3, <2>3, <2>4, <2>5, MovesOn
  <2>7. QED
    BY <2>2, <2>3, <2>6
<1>4. QED
  <2>1. \/ pc' = pc /\ fid' = fid
        \/ /\ UNCHANGED <<faults, disturbed>>
           /\ \E there \in {"clearing", "snapshot", "records", "sweep", "idle", "true"} :
                 /\ pc' = [pc EXCEPT ![a] = there]
                 /\ there = "true" <=> a # ClearCommand
                 /\ there = "sweep" => fid'[a] \in Id
           /\ pc[a] \in {"idle", "clearing", "snapshot", "records"}
           /\ \A b \in Actor : b # a => fid'[b] = fid[b]
           /\ fid' = fid \/ a = ClearCommand
    BY ClearOnly
  <2>2. QED
    BY <1>2, <1>3, <2>1

\* The steps of a call: what the reader of the file would see, and what the cases rely on.
LEMMA CallKeeps ==
    ASSUME CInv, NEW a \in Actor, CallActs(a), Types' PROVE Places' /\ Calls' /\ Parts'
<1>1. /\ UNCHANGED <<clock, fid, faults, sweep, blind, disturbed>> /\ lost \subseteq lost'
      /\ \/ Returns(a)
         \/ UNCHANGED <<pc, todo>> /\ saving[a] # "cut" /\ saving'[a] # "none"
      /\ pc[a] \in Storing
      /\ \A b \in Actor : b # a => saving'[b] = saving[b] /\ buffer'[b] = buffer[b]
      /\ saving'[a] = "got" => buffer'[a][fid[a]] # NoRecord
  BY CallSteps
<1>2. fid[a] \in Id /\ (a \in Case \/ (a = ClearCommand /\ pc[a] = "sweep"))
  BY <1>1, OwnRecord DEF CInv
<1>3. Places'
  <2>1. CASE Returns(a)
    <3>1. /\ saving'[a] = "none" /\ \A b \in Actor : b # a => pc'[b] = pc[b]
          /\ pc[a] = "record" => pc'[a] \in {"false", "recover"}
          /\ pc[a] = "fail" => pc'[a] = "false"
          /\ pc[a] = "sweep" => pc'[a] = "records"
          /\ pc[a] = "mark" => pc'[a] \in {"inject", "select", "clear", "true"}
      BY <2>1, ReturnsTo DEF CInv
    <3>2. Case \subseteq Actor /\ ClearCommand \in Actor /\ ClearCommand \notin Case
      BY CaseAssumption DEF Actor
    <3>3. QED
      BY <1>1, <1>2, <3>1, <3>2 DEF CInv, Places, Storing
  <2>2. CASE UNCHANGED <<pc, todo>>
    BY <1>1, <2>2 DEF CInv, Places
  <2>3. QED
    BY <1>1, <2>1, <2>2
<1>4. ASSUME Returns(a), saving[a] # "cut", UNCHANGED <<store, blank>>,
             pc[a] # "record",
             pc[a] = "mark" /\ fid[a] \notin lost' => Listed[fid[a]].case # a
      PROVE  Calls' /\ Parts'
  <2>1. Calls' /\ Keeps
    BY <1>1, <1>4, GivesUp DEF CInv
  <2>2. pc[a] = "mark" /\ fid[a] \notin lost' => Listed'[fid[a]].case # a
    BY <1>2, <1>4, <2>1 DEF Keeps
  <2>3. QED
    BY <1>1, <1>4, <2>1, <2>2, ReturnKeeps
<1>5. ASSUME Calls', Keeps, UNCHANGED <<pc, todo>> PROVE Parts'
  BY <1>1, <1>2, <1>5, StaysPut DEF Keeps
<1>6. CASE a \in Case /\ Get(a)
  <2>1. pc[a] = "fail" /\ saving[a] = "none" /\ UNCHANGED <<store, blank>>
    BY <1>6 DEF Get
  <2>2. CASE store[fid[a]].status = "none"
    <3>1. Returns(a)
      BY <1>6, <2>2 DEF Get
    <3>2. QED
      BY <1>3, <1>4, <2>1, <3>1
  <2>3. CASE store[fid[a]].status # "none"
    <3>1. UNCHANGED <<pc, todo>>
      BY <1>6, <2>3 DEF Get
    <3>2. Calls' /\ Keeps
      BY <1>6, <2>3, GetKeeps DEF CInv
    <3>3. QED
      BY <1>3, <1>5, <3>1, <3>2
  <2>4. QED
    BY <2>2, <2>3
<1>7. CASE Load(a)
  <2>1. /\ Loads(a) /\ UNCHANGED <<store, blank>>
        /\ (\E b \in Actor \ {a} : MidSave(b)) => fid[a] \in lost'
    BY <1>7 DEF Load
  <2>2. CASE Refuses(a)
    <3>1. Returns(a) /\ saving[a] = "none" /\ pc[a] \in {"mark", "sweep"}
      BY <1>7, <2>1, <2>2 DEF Load, Loads, Refuses
    <3>2. ASSUME pc[a] = "mark", fid[a] \notin lost' PROVE Listed[fid[a]].case # a
      <4>1. \A b \in Actor : saving[b] # "cut"
        BY <2>1, <3>1, <3>2 DEF MidSave
      <4>2. Listed = store
        BY <4>1 DEF Listed
      <4>3. store[fid[a]].status = "none" /\ store[fid[a]] \in StoreRecord
        BY <1>2, <2>2 DEF Refuses, CInv, Types
      <4>4. store[fid[a]] = NoRecord
        BY <4>3 DEF StoreRecord
      <4>5. a \in Case
        BY <1>2, <3>2
      <4>6. QED
        BY <4>2, <4>4, <4>5, CaseAssumption DEF NoRecord
    <3>3. QED
      BY <1>3, <1>4, <2>1, <3>1, <3>2
  <2>3. CASE ~Refuses(a)
    <3>1. UNCHANGED <<pc, todo>>
      BY <1>7, <2>3 DEF Load
    <3>2. Calls' /\ Keeps
      BY <1>7, <2>3, LoadKeeps DEF CInv
    <3>3. QED
      BY <1>3, <1>5, <3>1, <3>2
  <2>4. QED
    BY <2>2, <2>3
<1>8. CASE Truncate(a)
  <2>1. UNCHANGED <<pc, todo>>
    BY <1>8 DEF Truncate, case
  <2>2. /\ Calls'
        /\ \A i \in Id \ lost' : i # fid[a] => Listed'[i] = Listed[i]
        /\ fid[a] \notin lost' =>
              /\ a \in Case
              /\ Listed'[fid[a]] = [case |-> a, status |-> Told(pc[a])]
              /\ Listed[fid[a]].case = a \/ Listed[fid[a]].status \in {"none", "recovered"}
    BY <1>8, TruncateKeeps DEF CInv
  <2>3. Parts'
    BY <1>1, <1>2, <2>1, <2>2, StaysPut
  <2>4. QED
    BY <1>3, <2>2, <2>3
<1>9. CASE Write(a)
  <2>1. /\ Calls' /\ Keeps /\ lost' = lost /\ Returns(a)
        /\ fid[a] \notin lost => Listed'[fid[a]] = [case |-> a, status |-> Told(pc[a])]
    BY <1>9, WriteKeeps DEF CInv, Write
  <2>2. /\ pc[a] = "record" /\ fid[a] \notin lost' =>
              Listed'[fid[a]] = [case |-> a, status |-> "running"]
        /\ pc[a] = "mark" /\ fid[a] \notin lost' => Listed'[fid[a]].status = "recovered"
    BY <2>1 DEF Told
  <2>3. Parts'
    BY <1>1, <2>1, <2>2, ReturnKeeps
  <2>4. QED
    BY <1>3, <2>1, <2>3
<1>10. CASE WriteFails(a)
  <2>1. Calls' /\ Keeps /\ fid[a] \in lost' /\ Returns(a)
    BY <1>10, WriteFailsKeeps DEF CInv, WriteFails
  <2>2. Parts'
    BY <1>1, <2>1, ReturnKeeps
  <2>3. QED
    BY <1>3, <2>1, <2>2
<1>11. QED
  BY <1>6, <1>7, <1>8, <1>9, <1>10 DEF CallActs

\* The death of a process: its cases end with what they left in place, and the record of
\* an injection that was not written yet is lost.
LEMMA DeathKeeps ==
    ASSUME CInv, NEW A \in SUBSET Actor, Killed(A), Types',
           UNCHANGED <<faults, store, blank, disturbed, blind>>,
           \A a \in Actor \ A : fid'[a] = fid[a],
           \A c \in Case : fid'[c] = fid[c] /\ (c \in A => ~Ended(c))
    PROVE  Places' /\ Calls' /\ Parts'
<1>1. Calls' /\ Keeps /\ lost \subseteq lost'
  BY KilledKeeps DEF CInv
<1>2. /\ \A a \in Actor \ A : pc'[a] = pc[a] /\ saving'[a] = saving[a] /\ buffer'[a] = buffer[a]
      /\ \A a \in A : saving'[a] = "none"
      /\ \A c \in Case : c \in A => pc'[c] = "false"
      /\ ClearCommand \in A => pc'[ClearCommand] = "idle"
      /\ \A c \in Case : c \notin A => todo'[c] = todo[c]
      /\ \A a \in A : pc[a] = "record" => fid[a] \in lost'
  <2>1. \A a \in Actor : /\ a \in A => saving'[a] = "none"
                         /\ a \notin A => saving'[a] = saving[a] /\ buffer'[a] = buffer[a]
    BY DEF Killed
  <2>2. \A a \in Actor : pc'[a] = IF a \notin A THEN pc[a]
                                  ELSE IF a = ClearCommand THEN "idle" ELSE "false"
    BY DEF Killed
  <2>3. \A c \in Case : c \in Actor /\ c # ClearCommand
    BY CaseAssumption DEF Actor
  <2>4. \A c \in Case : c \notin A => todo'[c] = todo[c]
    BY DEF Killed
  <2>5. \A a \in A : pc[a] = "record" => fid[a] \in lost'
    BY DEF Killed
  <2>6. ClearCommand \in Actor
    BY DEF Actor
  <2>7. QED
    BY <2>1, <2>2, <2>3, <2>4, <2>5, <2>6
<1>3. Case \subseteq Actor /\ ClearCommand \in Actor /\ ClearCommand \notin Case
  BY CaseAssumption DEF Actor
<1>4. Places'
  BY <1>2, <1>3 DEF CInv, Places
<1> USE DEF CInv, Parts, OnTarget, HasFault
<1>5. TargetKnown'
  BY <1>2, <1>3 DEF TargetKnown
<1>6. AtItsSite'
  BY <1>2, <1>3 DEF AtItsSite, Known, DeviceOf
<1>7. OnRecord'
  <2>1. ASSUME NEW c \in Case, NEW s \in Slot, c \in faults[s], c \notin blind, Known(c),
               pc'[c] # "record", fid[c] \notin lost'
        PROVE  Listed'[fid[c]].case = c /\ Listed'[fid[c]].status \in {"running", "failed"}
    <3>1. fid[c] \in Id
      BY <2>1 DEF AtItsSite
    <3>2. pc[c] # "record"
      BY <1>2, <1>3, <2>1
    <3>3. Listed[fid[c]].case = c /\ Listed[fid[c]].status \in {"running", "failed"}
      BY <1>1, <2>1, <3>2 DEF OnRecord
    <3>4. QED
      BY <1>1, <2>1, <3>1, <3>3 DEF Keeps
  <2>2. QED
    BY <2>1 DEF OnRecord, Known, DeviceOf
<1>8. OthersSettled'
  <2>1. ASSUME NEW c \in Case, NEW i \in Id \ lost', Listed'[i].case = c,
               Listed'[i].status # "recovered"
        PROVE  pc'[c] \in {"record", "recover", "mark", "fail", "false"} /\ i = fid[c]
    <3>1. pc[c] \in {"record", "recover", "mark", "fail", "false"} /\ i = fid[c]
      BY <1>1, <2>1 DEF OthersSettled, Keeps
    <3>2. QED
      BY <1>2, <1>3, <3>1
  <2>2. QED
    BY <2>1 DEF OthersSettled
<1>9. AloneOnDevice'
  BY <1>2, <1>3 DEF AloneOnDevice, AllKnown, Known, DeviceOf, Stops
<1>10. QED
  BY <1>1, <1>4, <1>5, <1>6, <1>7, <1>8, <1>9 DEF Parts

\* One step: the actions of the cases, of the clears, of the calls, and the world's.
LEMMA CaseStep == ASSUME CInv, [Next]_vars PROVE CInv'
<1>1. Types'
  <2>1. CASE UNCHANGED vars
    BY <2>1 DEF vars, CInv, Types
  <2>2. QED
    BY <2>1, TypesKept
<1>2. ASSUME NEW c \in Case, CaseActs(c) PROVE CInv'
  BY <1>1, <1>2, CaseKeeps DEF CInv
<1>3. ASSUME NEW a \in Actor, ClearActs(a) PROVE CInv'
  BY <1>1, <1>3, ClearKeeps DEF CInv
<1>4. ASSUME NEW a \in Actor, CallActs(a) PROVE CInv'
  BY <1>1, <1>4, CallKeeps DEF CInv
<1>5. CASE Crash
  <2>1. {c \in Case : ~Ended(c)} \in SUBSET Actor
    BY DEF Actor
  <2>2. /\ Killed({c \in Case : ~Ended(c)})
        /\ UNCHANGED <<fid, faults, store, blank, disturbed, blind>>
    BY <1>5 DEF Crash
  <2>3. Places' /\ Calls' /\ Parts'
    BY <1>1, <2>1, <2>2, DeathKeeps
  <2>4. QED
    BY <1>1, <2>3 DEF CInv
<1>6. CASE ClearDies
  <2>1. {ClearCommand} \in SUBSET Actor /\ ClearCommand \notin Case
    BY CaseAssumption DEF Actor
  <2>2. /\ Killed({ClearCommand})
        /\ UNCHANGED <<faults, store, blank, disturbed, blind>>
        /\ \A a \in Actor \ {ClearCommand} : fid'[a] = fid[a]
    BY <1>6 DEF ClearDies, CInv, Types
  <2>3. \A c \in Case : fid'[c] = fid[c] /\ (c \in {ClearCommand} => ~Ended(c))
    BY <2>1, <2>2 DEF Actor
  <2>4. Places' /\ Calls' /\ Parts'
    BY <1>1, <2>1, <2>2, <2>3, DeathKeeps
  <2>5. QED
    BY <1>1, <2>4 DEF CInv
<1>7. ASSUME (\E p \in Pod : PodRestarts(p)) \/ UNCHANGED vars PROVE CInv'
  <2>1. /\ UNCHANGED <<pc, todo, fid, store, blank, saving, buffer, lost, blind>>
        /\ disturbed \subseteq disturbed'
        /\ \A s \in Slot : faults'[s] = faults[s] \/ (faults'[s] = {} /\ s[1] \in disturbed')
    <3>1. ASSUME NEW p \in Pod, PodRestarts(p) PROVE <2>1!2 /\ <2>1!3
      BY <3>1 DEF PodRestarts
    <3>2. UNCHANGED vars => <2>1!2 /\ <2>1!3
      BY DEF vars
    <3>3. <2>1!1
      BY <1>7 DEF PodRestarts, vars, case, file
    <3>4. QED
      BY <1>7, <3>1, <3>2, <3>3
  <2>2. Calls' /\ Keeps
    BY <2>1, FileUntouched DEF CInv
  <2>3. Parts'
    BY <2>1, <2>2, TakesAway
  <2>4. Places'
    BY <2>1 DEF CInv, Places
  <2>5. QED
    BY <1>1, <2>2, <2>3, <2>4 DEF CInv
<1>8. QED
  BY <1>2, <1>3, <1>4, <1>5, <1>6, <1>7 DEF Next, CaseActs, ClearActs, CallActs, Actor

\* Nothing is in place and nothing on record at the start.
LEMMA CaseInit == Init => CInv
<1> SUFFICES ASSUME Init PROVE CInv
  OBVIOUS
<1>1. /\ clock = 0 /\ pc = [a \in Actor |-> IF a = ClearCommand THEN "idle" ELSE "select"]
      /\ todo = [c \in Case |-> <<>>] /\ fid = [a \in Actor |-> NoId]
      /\ faults = [s \in Slot |-> {}]
      /\ store = NoRecords /\ saving = [a \in Actor |-> "none"]
      /\ buffer = [a \in Actor |-> NoRecords] /\ sweep = {} /\ blind = {}
  BY DEF Init
<1>2. /\ \A c \in Case : pc[c] = "select" /\ c \in Actor
      /\ ClearCommand \in Actor /\ pc[ClearCommand] = "idle"
      /\ \A a \in Actor : saving[a] = "none"
  BY <1>1, CaseAssumption DEF Actor
<1>3. Types
  <2>1. pc \in [Actor -> Place]
    BY <1>1 DEF Place
  <2>2. todo \in [Case -> Seq(Pod)]
    BY <1>1
  <2>3. store \in [Id -> StoreRecord] /\ buffer \in [Actor -> [Id -> StoreRecord]]
    <3>1. NoRecords \in [Id -> StoreRecord]
      BY DEF NoRecords, StoreRecord
    <3>2. QED
      BY <1>1, <3>1
  <2>4. clock \in 0 .. MaxSecond
    BY <1>1, CaseAssumption
  <2>5. /\ fid \in [Actor -> Id \cup {NoId}] /\ faults \in [Slot -> SUBSET Case]
        /\ blind \subseteq Case
    BY <1>1
  <2>6. saving \in [Actor -> {"none", "got", "loaded", "cut"}] /\ sweep \subseteq Id
    BY <1>1
  <2>7. QED
    BY <2>1, <2>2, <2>3, <2>4, <2>5, <2>6 DEF Types
<1>4. Places /\ Calls
  BY <1>2 DEF Places, Calls, NothingShared, Fresh, Torn, Own, OwnGot, NotOthers, MidSave
<1>5. TargetKnown
  BY <1>2 DEF TargetKnown, OnTarget, HasFault
<1>6. AtItsSite /\ OnRecord
  BY <1>1 DEF AtItsSite, OnRecord
<1>7. OthersSettled
  <2>1. Listed = NoRecords
    BY <1>1, <1>2 DEF Listed
  <2>2. QED
    BY <2>1, CaseAssumption DEF OthersSettled, NoRecords, NoRecord
<1>8. AloneOnDevice
  BY <1>2 DEF AloneOnDevice
<1>9. QED
  BY <1>3, <1>4, <1>5, <1>6, <1>7, <1>8 DEF CInv, Parts

\* The invariant holds in every reachable state.
LEMMA CaseInvariant == Spec => []CInv
  BY CaseInit, CaseStep, PTL DEF Spec

-----------------------------------------------------------------------------
(* Theorems *)

\* What is in place is on record (execute_case), with the exceptions the property names,
\* for any number of cases that meet on pods, on ids and in the state manager.
THEOREM FaultsAreListed == Spec => []ActiveFaultsAreListed
<1>1. CInv => ActiveFaultsAreListed
  <2> SUFFICES ASSUME CInv, NEW c \in Case, NEW s \in Slot, c \in faults[s], Known(c),
                      pc[c] # "record", c \notin blind, fid[c] \notin lost
               PROVE  \E i \in Id : /\ Listed[i].case = c /\ i[2] = s[1]
                                    /\ Listed[i].status \in {"running", "failed"}
    BY DEF ActiveFaultsAreListed, Known
  <2>1. fid[c] \in Id /\ s = <<fid[c][2], DeviceOf(c)>>
    BY DEF CInv, Parts, AtItsSite
  <2>2. s[1] = fid[c][2]
    BY <2>1
  <2>3. Listed[fid[c]].case = c /\ Listed[fid[c]].status \in {"running", "failed"}
    BY DEF CInv, Parts, OnRecord
  <2>4. QED
    BY <2>1, <2>2, <2>3
<1>2. QED
  BY <1>1, CaseInvariant, PTL

\* A case that succeeded left nothing of its own behind (execute_case), for any number of
\* targets and iterations, and any overlap of the cases' calls of the state manager.
THEOREM SuccessIsClean == Spec => []SuccessLeavesNothing
<1>1. CInv => SuccessLeavesNothing
  <2> SUFFICES ASSUME CInv, NEW c \in Case, pc[c] = "true", Known(c)
               PROVE  /\ c \notin blind => \A s \in Slot : c \notin faults[s]
                      /\ \A i \in Id \ lost : Listed[i].case = c => Listed[i].status = "recovered"
    BY DEF SuccessLeavesNothing, Known
  <2>1. c \notin blind => \A s \in Slot : c \notin faults[s]
    BY DEF CInv, Parts, AtItsSite
  <2>2. \A i \in Id \ lost : Listed[i].case = c => Listed[i].status = "recovered"
    BY DEF CInv, Parts, OthersSettled
  <2>3. QED
    BY <2>1, <2>2
<1>2. QED
  BY <1>1, CaseInvariant, PTL

\* A network fault on a pod that nobody cleared or restarted outlasts everything but the
\* recover of its own case (inject and recover of NetworkFaultInjector), when every case
\* uses the device that recover acts on, however many of them meet on a pod.
THEOREM FaultsAreSafe == ASSUME AllKnown PROVE Spec => UndisturbedFaultsAreSafe
<1>1. ASSUME CInv, [Next]_vars, NEW c \in Case, NEW s \in Slot,
             c \in faults[s], c \notin faults'[s],
             s[1] \notin disturbed', s[2] # Container
      PROVE  pc[c] = "recover" /\ pc'[c] = "mark"
  <2>0. faults \in [Slot -> SUBSET Case] /\ pc \in [Actor -> Place]
    BY <1>1 DEF CInv, Types
  <2>1. ASSUME NEW d \in Case, RecoverNetwork(d) PROVE pc[c] = "recover" /\ pc'[c] = "mark"
    <3>1. /\ pc[d] = "recover" /\ ~Stops(d) /\ pc' = [pc EXCEPT ![d] = "mark"]
          /\ disturbed' = disturbed
          /\ faults' = [faults EXCEPT ![RecoverSite(d)] = {}] \/ faults' = faults
      BY <2>1 DEF RecoverNetwork, Goes
    <3>2. s = RecoverSite(d) /\ RecoverSite(d) = <<Head(todo[d]), Eth0>>
      BY <1>1, <2>0, <3>1 DEF RecoverSite
    <3>3. Head(todo[d]) \notin disturbed
      BY <1>1, <3>1, <3>2
    <3>4. faults[s] = {d}
      BY <1>1, <3>1, <3>2, <3>3 DEF CInv, Parts, AloneOnDevice
    <3>5. QED
      BY <1>1, <2>0, <3>1, <3>4 DEF Actor
  <2>2. ASSUME NEW d \in Case, RecoverStop(d) PROVE FALSE
    <3>1. /\ Stops(d)
          /\ faults' = [faults EXCEPT ![RecoverSite(d)] = {}] \/ faults' = faults
      BY <2>2 DEF RecoverStop
    <3>2. s = <<Head(todo[d]), Container>>
      BY <1>1, <2>0, <3>1 DEF RecoverSite
    <3>3. QED
      BY <1>1, <3>2
  <2>3. ASSUME NEW d \in Case, InjectFails(d) \/ Inject(d) PROVE FALSE
    <3>1. faults' = faults \/ faults' = [faults EXCEPT ![Site(d)] = @ \cup {d}]
      BY <2>3 DEF InjectFails, Inject
    <3>2. QED
      BY <1>1, <2>0, <3>1
  <2>4. ASSUME NEW a \in Actor, ClearPod(a) PROVE FALSE
    <3>1. PICK p \in clearing[a] :
             \/ /\ faults' = [faults EXCEPT ![<<p, ClearDevice(a)>>] = {}]
                /\ disturbed' = disturbed \cup {p}
             \/ UNCHANGED <<faults, disturbed>>
      BY <2>4 DEF ClearPod
    <3>2. s = <<p, ClearDevice(a)>> /\ p \in disturbed'
      BY <1>1, <2>0, <3>1
    <3>3. s[1] = p
      BY <3>2
    <3>4. QED
      BY <1>1, <3>2, <3>3
  <2>5. ASSUME NEW p \in Pod, PodRestarts(p) PROVE FALSE
    BY <1>1, <2>5 DEF PodRestarts
  <2>6. ASSUME NEW d \in Case, Refuse(d) \/ Select(d) \/ RecoverRaises(d) \/ AutoClear(d) \/ Get(d)
        PROVE  FALSE
    <3>1. faults' = faults
      BY <2>6 DEF Refuse, Select, RecoverRaises, AutoClear, Get, world
    <3>2. QED
      BY <1>1, <3>1
  <2>7. ASSUME NEW a \in Actor,
               ClearEnds(a) \/ Load(a) \/ Truncate(a) \/ Write(a) \/ WriteFails(a)
        PROVE  FALSE
    <3>1. faults' = faults
      BY <2>7 DEF ClearEnds, Load, Truncate, Write, WriteFails
    <3>2. QED
      BY <1>1, <3>1
  <2>8. ASSUME Clear \/ Snapshot \/ ClearNext \/ Crash \/ ClearDies \/ UNCHANGED vars PROVE FALSE
    <3>1. faults' = faults
      BY <2>8 DEF Clear, Snapshot, ClearNext, Crash, ClearDies, vars
    <3>2. QED
      BY <1>1, <3>1
  <2>9. QED
    BY <1>1, <2>1, <2>2, <2>3, <2>4, <2>5, <2>6, <2>7, <2>8 DEF Next
<1>2. ASSUME CInv, [Next]_vars
      PROVE  [\A c \in Case, s \in Slot :
                 /\ c \in faults[s] /\ c \notin faults'[s]
                 /\ s[1] \notin disturbed' /\ s[2] # Container
                 => pc[c] = "recover" /\ pc'[c] = "mark"]_vars
  BY <1>1, <1>2
<1>3. QED
  BY <1>2, CaseInvariant, PTL DEF Spec, UndisturbedFaultsAreSafe

=============================================================================
