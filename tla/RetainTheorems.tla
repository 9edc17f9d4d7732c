----------------------------- MODULE RetainTheorems -----------------------------
(***************************************************************************)
(* What Retain returns, preserves and bounds, for every sequence and set.  *)
(*                                                                         *)
(* The induction theorems of the library take an operator, which the       *)
(* provers here cannot instantiate.  A set does instead of it: the natural *)
(* numbers are well-founded, so a nonempty set of them has a least         *)
(* element (LeastNatural), and a set that has the empty sequence and with  *)
(* each sequence the longer ones has all (SequencesByAppending).           *)
(***************************************************************************)
EXTENDS Retain, FiniteSets, SequencesExt, TLAPS, WellFoundedInduction,
        NaturalsInduction, SequenceTheorems, FiniteSetTheorems

-----------------------------------------------------------------------------
(* Induction                                                                *)

\* A nonempty set of natural numbers has a least element.
LEMMA LeastNatural ==
    ASSUME NEW S \in SUBSET Nat, S # {}
    PROVE  \E n \in S : \A m \in S : n <= m
<1> DEFINE R == {ss \in Nat \X Nat : ss[1] < ss[2]}
<1>1. IsWellFoundedOn(R, Nat)
  BY NatLessThanWellFounded DEF OpToRel
<1> HIDE DEF R
<1>2. PICK x \in S : \A y \in S : <<y, x>> \notin R
  BY <1>1, WFMin
<1>3. ASSUME NEW y \in S PROVE x <= y
  <2>1. x \in Nat /\ y \in Nat
    OBVIOUS
  <2>2. ~(y < x)
    BY <1>2, <2>1 DEF R
  <2>3. QED
    BY <2>1, <2>2
<1>4. QED
  BY <1>3

-----------------------------------------------------------------------------
(* The recursive function of Retain exists                                  *)

\* What it says of one place, and of those up to k.
Step(s, kept, f, n) ==
    IF n = 0 THEN <<>>
    ELSE IF s[n] \in kept THEN Append(f[n - 1], s[n]) ELSE f[n - 1]

IsRetainUpTo(s, kept, k, f) == f = [n \in 0..k |-> Step(s, kept, f, n)]

\* A function that satisfies the recursion exists, however long it is.
LEMMA RetainUpToExists ==
    ASSUME NEW s, NEW kept, NEW k \in Nat
    PROVE  \E f : IsRetainUpTo(s, kept, k, f)
<1> DEFINE Bad == {n \in Nat : ~ \E f : IsRetainUpTo(s, kept, n, f)}
<1>1. SUFFICES ASSUME Bad # {} PROVE FALSE
  OBVIOUS
<1>2. PICK n \in Bad : \A m \in Bad : n <= m
  BY <1>1, LeastNatural
<1>3. CASE n = 0
  <2> DEFINE f == [m \in 0..0 |-> <<>>]
  <2>1. IsRetainUpTo(s, kept, 0, f)
    BY DEF IsRetainUpTo, Step
  <2>2. QED
    BY <1>2, <1>3, <2>1
<1>4. CASE n # 0
  <2>1. n - 1 \in Nat /\ n \in Nat
    BY <1>2, <1>4
  <2>2. n - 1 \notin Bad
    BY <1>2, <2>1
  <2>3. PICK f : IsRetainUpTo(s, kept, n - 1, f)
    BY <2>1, <2>2
  <2> DEFINE g == [m \in 0..n |-> IF m = n THEN Step(s, kept, f, n) ELSE f[m]]
  <2>4. ASSUME NEW m \in 0..n PROVE g[m] = Step(s, kept, g, m)
    <3>1. CASE m = n
      <4>1. g[n - 1] = f[n - 1]
        BY <2>1
      <4>2. QED
        BY <2>1, <3>1, <4>1 DEF Step
    <3>2. CASE m # n
      <4>1. m \in 0..(n - 1)
        BY <2>1, <3>2
      <4>2. g[m] = f[m] /\ (m # 0 => g[m - 1] = f[m - 1])
        BY <2>1, <3>2, <4>1
      <4>3. f[m] = Step(s, kept, f, m)
        BY <2>3, <4>1 DEF IsRetainUpTo
      <4>4. QED
        BY <4>2, <4>3 DEF Step
    <3>3. QED
      BY <3>1, <3>2
  <2> HIDE DEF g
  <2>5. g = [m \in 0..n |-> Step(s, kept, g, m)]
    <3>1. g = [m \in 0..n |-> g[m]]
      BY DEF g
    <3>2. QED
      BY <2>4, <3>1
  <2>6. QED
    BY <1>2, <2>5 DEF IsRetainUpTo
<1>5. QED
  BY <1>3, <1>4

\* So Retain is the last value of one.
LEMMA RetainIs ==
    ASSUME NEW s, NEW kept, Len(s) \in Nat
    PROVE  \E f : IsRetainUpTo(s, kept, Len(s), f) /\ Retain(s, kept) = f[Len(s)]
<1> DEFINE F == CHOOSE f : f = [n \in 0..Len(s) |-> Step(s, kept, f, n)]
<1>1. F = [n \in 0..Len(s) |-> Step(s, kept, F, n)]
  BY RetainUpToExists DEF IsRetainUpTo
<1>2. Retain(s, kept) = F[Len(s)]
  BY DEF Retain, Step
<1>3. QED
  BY <1>1, <1>2 DEF IsRetainUpTo

\* Two of them, of sequences that begin alike, begin alike.
LEMMA RetainFunctionsAgree ==
    ASSUME NEW s, NEW t, NEW kept, NEW k \in Nat, NEW m \in Nat, k <= m,
           \A n \in 1..k : s[n] = t[n],
           NEW f, IsRetainUpTo(s, kept, k, f), NEW g, IsRetainUpTo(t, kept, m, g)
    PROVE  \A n \in 0..k : f[n] = g[n]
<1> DEFINE Bad == {n \in 0..k : f[n] # g[n]}
<1>1. SUFFICES ASSUME Bad # {} PROVE FALSE
  OBVIOUS
<1>2. PICK n \in Bad : \A b \in Bad : n <= b
  <2>1. Bad \in SUBSET Nat
    OBVIOUS
  <2> HIDE DEF Bad
  <2>2. QED
    BY <1>1, <2>1, LeastNatural
<1>3. f[n] = Step(s, kept, f, n) /\ g[n] = Step(t, kept, g, n)
  <2>1. n \in 0..k /\ n \in 0..m
    BY <1>2
  <2>2. QED
    BY <2>1 DEF IsRetainUpTo
<1>4. n # 0 => f[n - 1] = g[n - 1]
  <2>1. n # 0 => n - 1 \in 0..k /\ ~(n <= n - 1)
    BY <1>2
  <2>2. QED
    BY <1>2, <2>1
<1>5. n # 0 => s[n] = t[n]
  BY <1>2
<1>6. f[n] = g[n]
  BY <1>3, <1>4, <1>5 DEF Step
<1>7. QED
  BY <1>2, <1>6

-----------------------------------------------------------------------------
(* The equations of Retain                                                  *)

\* Of the empty sequence nothing is retained.
LEMMA RetainEmpty ==
    ASSUME NEW kept
    PROVE  Retain(<<>>, kept) = <<>>
<1>1. Len(<<>>) = 0
  OBVIOUS
<1>2. PICK f : IsRetainUpTo(<<>>, kept, 0, f) /\ Retain(<<>>, kept) = f[0]
  BY <1>1, RetainIs
<1>3. QED
  BY <1>2 DEF IsRetainUpTo, Step

\* One more element is retained after the others, or not.
LEMMA RetainAppend ==
    ASSUME NEW S, NEW s \in Seq(S), NEW e \in S, NEW kept
    PROVE  Retain(Append(s, e), kept) =
               IF e \in kept THEN Append(Retain(s, kept), e) ELSE Retain(s, kept)
<1> DEFINE t == Append(s, e)
<1>1. /\ Len(s) \in Nat /\ Len(t) = Len(s) + 1
      /\ t[Len(t)] = e
      /\ \A n \in 1..Len(s) : s[n] = t[n]
  BY AppendProperties
<1> HIDE DEF t
<1>2. PICK f : IsRetainUpTo(s, kept, Len(s), f) /\ Retain(s, kept) = f[Len(s)]
  BY <1>1, RetainIs
<1>3. PICK g : IsRetainUpTo(t, kept, Len(t), g) /\ Retain(t, kept) = g[Len(t)]
  BY <1>1, RetainIs
<1>4. \A n \in 0..Len(s) : f[n] = g[n]
  <2> DEFINE k == Len(s)
             m == Len(t)
  <2>1. k \in Nat /\ m \in Nat /\ k <= m /\ (\A n \in 1..k : s[n] = t[n])
    BY <1>1
  <2>2. IsRetainUpTo(s, kept, k, f) /\ IsRetainUpTo(t, kept, m, g)
    BY <1>2, <1>3
  <2> HIDE DEF k, m
  <2>3. \A n \in 0..k : f[n] = g[n]
    BY <2>1, <2>2, RetainFunctionsAgree
  <2>4. QED
    BY <2>3 DEF k
<1>5. f[Len(s)] = g[Len(t) - 1]
  BY <1>1, <1>4
<1>6. g[Len(t)] = Step(t, kept, g, Len(t))
  BY <1>1, <1>3 DEF IsRetainUpTo
<1>7. Len(t) # 0
  BY <1>1
<1>8. QED
  BY <1>1, <1>2, <1>3, <1>5, <1>6, <1>7 DEF Step, t

\* Induction over sequences, for what holds of the sequences in a set T.
LEMMA SequencesByAppending ==
    ASSUME NEW S, NEW T, <<>> \in T, \A s \in T \cap Seq(S), e \in S : Append(s, e) \in T
    PROVE  Seq(S) \subseteq T
<1> DEFINE Bad == {n \in Nat : \E s \in Seq(S) : Len(s) = n /\ s \notin T}
<1>1. SUFFICES ASSUME NEW r \in Seq(S), r \notin T PROVE FALSE
  OBVIOUS
<1>2. Len(r) \in Bad
  BY <1>1, LenProperties
<1>3. PICK n \in Bad : \A m \in Bad : n <= m
  BY <1>2, LeastNatural
<1>4. PICK s \in Seq(S) : Len(s) = n /\ s \notin T
  BY <1>3
<1>5. s # <<>>
  BY <1>4
<1>6. PICK q \in Seq(S), e \in S : s = Append(q, e)
  BY <1>5, SequenceEmptyOrAppend
<1>7. Len(q) \in Nat /\ Len(s) = Len(q) + 1
  BY <1>6, AppendProperties
<1>8. Len(q) \notin Bad
  BY <1>3, <1>4, <1>7
<1>9. q \in T
  BY <1>7, <1>8
<1>10. QED
  BY <1>4, <1>6, <1>9

\* The elements of a sequence over S are in S.
LEMMA SeqElements ==
    ASSUME NEW S, NEW s \in Seq(S)
    PROVE  ToSet(s) \subseteq S
BY ElementOfSeq, LenProperties DEF ToSet

\* A sequence without repetitions is as long as its set is large.
LEMMA InjectiveLength ==
    ASSUME NEW S, NEW q \in Seq(S), IsInjective(q)
    PROVE  IsFiniteSet(ToSet(q)) /\ Cardinality(ToSet(q)) = Len(q)
<1>1. DOMAIN q = 1..Len(q) /\ Len(q) \in Nat
  BY LenProperties
<1>2. q \in [1..Len(q) -> ToSet(q)]
  BY <1>1 DEF ToSet
<1>3. q \in Bijection(1..Len(q), ToSet(q))
  <2>1. q \in Injection(1..Len(q), ToSet(q))
    BY <1>1, <1>2 DEF Injection, IsInjective
  <2>2. q \in Surjection(1..Len(q), ToSet(q))
    BY <1>1, <1>2 DEF Surjection, ToSet
  <2>3. QED
    BY <2>1, <2>2 DEF Bijection
<1>4. ExistsBijection(1..Len(q), ToSet(q))
  BY <1>3 DEF ExistsBijection
<1>5. IsFiniteSet(1..Len(q)) /\ Cardinality(1..Len(q)) = Len(q)
  BY <1>1, FS_Interval
<1>6. QED
  BY <1>4, <1>5, FS_Bijection

\* Append adds one element.
LEMMA AppendElements ==
    ASSUME NEW S, NEW s \in Seq(S), NEW e \in S
    PROVE  Append(s, e) \in Seq(S) /\ ToSet(Append(s, e)) = ToSet(s) \cup {e}
<1>1. /\ Append(s, e) \in Seq(S)
      /\ Len(Append(s, e)) = Len(s) + 1 /\ Len(s) \in Nat
      /\ DOMAIN Append(s, e) = 1..(Len(s) + 1) /\ DOMAIN s = 1..Len(s)
      /\ Append(s, e)[Len(s) + 1] = e
      /\ \A n \in 1..Len(s) : Append(s, e)[n] = s[n]
  BY AppendProperties, LenProperties
<1>2. 1..(Len(s) + 1) = 1..Len(s) \cup {Len(s) + 1}
  BY <1>1
<1> DEFINE a == Append(s, e)
<1> HIDE DEF a
<1>3. {a[n] : n \in 1..Len(s) \cup {Len(s) + 1}} = {a[n] : n \in 1..Len(s)} \cup {a[Len(s) + 1]}
  BY Zenon
<1>4. {a[n] : n \in 1..Len(s)} = {s[n] : n \in 1..Len(s)}
  BY <1>1, Zenon DEF a
<1>5. QED
  BY <1>1, <1>2, <1>3, <1>4, Zenon DEF ToSet, a

\* A set with 0 that has with each number below k the next has all up to k.
LEMMA NumbersUpTo ==
    ASSUME NEW k \in Nat, NEW T, 0 \in T, \A n \in 0..(k - 1) : n \in T => n + 1 \in T
    PROVE  \A n \in 0..k : n \in T
<1> DEFINE Bad == {n \in 0..k : n \notin T}
<1>1. SUFFICES ASSUME Bad # {} PROVE FALSE
  OBVIOUS
<1>2. PICK n \in Bad : \A b \in Bad : n <= b
  <2>1. Bad \in SUBSET Nat
    OBVIOUS
  <2> HIDE DEF Bad
  <2> QED
    BY <1>1, <2>1, LeastNatural
<1>3. n # 0 /\ n \in 0..k
  BY <1>2
<1>4. n - 1 \in 0..(k - 1) /\ (n - 1) + 1 = n /\ n - 1 \in 0..k /\ ~(n <= n - 1)
  BY <1>3
<1>5. n - 1 \in T
  BY <1>2, <1>4
<1> QED
  BY <1>2, <1>4, <1>5

\* f says of each of the first k numbers what F makes of the one before.
Iterates(f, v, k, F) ==
    /\ DOMAIN f = 0..k
    /\ f[0] = v
    /\ \A n \in 1..k : f[n] = F[n][f[n - 1]]

LEMMA FunctionsByRecursion ==
    ASSUME NEW V, NEW v \in V, NEW k \in Nat, NEW F \in [1..k -> [V -> V]]
    PROVE  \E f \in [0..k -> V] : Iterates(f, v, k, F)
<1> DEFINE T == {n \in 0..k : \E f \in [0..n -> V] : Iterates(f, v, n, F)}
<1>1. 0 \in T
  <2> DEFINE f == [n \in 0..0 |-> v]
  <2>1. f \in [0..0 -> V] /\ Iterates(f, v, 0, F)
    BY DEF Iterates
  <2> QED
    BY <2>1
<1>2. ASSUME NEW n \in 0..(k - 1), n \in T PROVE n + 1 \in T
  <2>1. PICK f \in [0..n -> V] : Iterates(f, v, n, F)
    BY <1>2
  <2> DEFINE m == n + 1
             x == F[m][f[n]]
             g == [i \in 0..m |-> IF i = m THEN x ELSE f[i]]
  <2>2. n \in Nat /\ m \in 1..k /\ m \in 0..k /\ n \in 0..n
    OBVIOUS
  <2>3. x \in V
    <3>1. F[m] \in [V -> V] /\ f[n] \in V
      BY <2>1, <2>2
    <3> QED
      BY <3>1
  <2>4. g \in [0..m -> V]
    <3>1. \A i \in 0..m : i # m => i \in 0..n
      BY <2>2
    <3>2. \A i \in 0..m : g[i] \in V
      BY <2>1, <2>3, <3>1
    <3> QED
      BY <3>2
  <2>5. Iterates(g, v, m, F)
    <3>1. DOMAIN g = 0..m /\ g[0] = v
      BY <2>1, <2>2 DEF Iterates
    <3>2. ASSUME NEW i \in 1..m PROVE g[i] = F[i][g[i - 1]]
      <4>1. i - 1 \in 0..m /\ i - 1 # m /\ i \in 0..m
        BY <2>2
      <4>2. g[i - 1] = f[i - 1]
        BY <4>1
      <4>3. CASE i = m
        BY <4>2, <4>3, <2>2
      <4>4. CASE i # m
        <5>1. i \in 1..n /\ g[i] = f[i]
          BY <4>1, <4>4, <2>2
        <5> QED
          BY <4>2, <5>1, <2>1 DEF Iterates
      <4> QED
        BY <4>3, <4>4
    <3> QED
      BY <3>1, <3>2 DEF Iterates
  <2> HIDE DEF g
  <2> QED
    BY <2>2, <2>4, <2>5
<1> HIDE DEF T
<1>3. k \in T
  <2>1. \A n \in 0..(k - 1) : n \in T => n + 1 \in T
    BY <1>2
  <2>2. \A n \in 0..k : n \in T
    BY <1>1, <2>1, NumbersUpTo, Zenon
  <2> QED
    BY <2>2
<1> QED
  BY <1>3 DEF T

\* So does every function that follows it as long as it stays in V.
LEMMA RecursionStays ==
    ASSUME NEW V, NEW k \in Nat, NEW f, DOMAIN f = 0..k, f[0] \in V,
           \A n \in 0..(k - 1) : f[n] \in V => f[n + 1] \in V
    PROVE  \A n \in 0..k : f[n] \in V
<1> DEFINE T == {n \in 0..k : f[n] \in V}
<1>1. 0 \in T
  OBVIOUS
<1>2. \A n \in 0..(k - 1) : n \in T => n + 1 \in T
  OBVIOUS
<1> HIDE DEF T
<1>3. \A n \in 0..k : n \in T
  BY <1>1, <1>2, NumbersUpTo
<1> QED
  BY <1>3 DEF T

-----------------------------------------------------------------------------
(* What follows from them                                                   *)

\* What is retained is a sequence over what is kept, and no longer.
LEMMA RetainType ==
    ASSUME NEW S, NEW s \in Seq(S), NEW kept
    PROVE  /\ Retain(s, kept) \in Seq(S \cap kept)
           /\ Retain(s, kept) \in Seq(S)
           /\ Len(Retain(s, kept)) <= Len(s)
<1> DEFINE T == {q \in Seq(S) : /\ Retain(q, kept) \in Seq(S \cap kept)
                                /\ Len(Retain(q, kept)) <= Len(q)}
<1>1. <<>> \in T
  <2>1. <<>> \in Seq(S) /\ <<>> \in Seq(S \cap kept) /\ Len(<<>>) = 0
    OBVIOUS
  <2>2. Retain(<<>>, kept) = <<>>
    BY RetainEmpty
  <2>3. 0 <= 0
    OBVIOUS
  <2>4. QED
    BY <2>1, <2>2, <2>3, Zenon
<1>2. ASSUME NEW q \in T \cap Seq(S), NEW e \in S PROVE Append(q, e) \in T
  <2> DEFINE r == Retain(q, kept)
  <2>1. r \in Seq(S \cap kept) /\ Len(r) <= Len(q)
    BY <1>2
  <2>2. /\ Append(q, e) \in Seq(S)
        /\ Len(Append(q, e)) = Len(q) + 1
        /\ Len(q) \in Nat
    BY AppendProperties, LenProperties
  <2>3. Retain(Append(q, e), kept) = IF e \in kept THEN Append(r, e) ELSE r
    BY RetainAppend
  <2> HIDE DEF r
  <2>4. Len(r) \in Nat
    BY <2>1, LenProperties
  <2>5. CASE e \in kept
    <3>1. Append(r, e) \in Seq(S \cap kept) /\ Len(Append(r, e)) = Len(r) + 1
      BY <2>1, <2>5, AppendProperties
    <3>2. Retain(Append(q, e), kept) = Append(r, e)
      BY <2>3, <2>5
    <3>3. Len(r) + 1 <= Len(q) + 1
      BY <2>1, <2>2, <2>4
    <3>4. QED
      BY <2>2, <3>1, <3>2, <3>3
  <2>6. CASE e \notin kept
    BY <2>1, <2>2, <2>3, <2>4, <2>6
  <2>7. QED
    BY <2>5, <2>6
<1>3. Seq(S) \subseteq T
  <2> HIDE DEF T
  <2> QED BY <1>1, <1>2, SequencesByAppending
<1>4. QED
  <2>1. Retain(s, kept) \in Seq(S \cap kept) /\ Len(Retain(s, kept)) <= Len(s)
    BY <1>3
  <2>2. QED
    BY <2>1, SeqMonotonic

\* It has the elements that are kept, and all of them.
LEMMA RetainElements ==
    ASSUME NEW S, NEW s \in Seq(S), NEW kept
    PROVE  ToSet(Retain(s, kept)) = ToSet(s) \cap kept
<1> DEFINE T == {q \in Seq(S) : ToSet(Retain(q, kept)) = ToSet(q) \cap kept}
<1>1. <<>> \in T
  <2>1. ToSet(<<>>) = {} /\ <<>> \in Seq(S)
    BY DEF ToSet
  <2>2. Retain(<<>>, kept) = <<>>
    BY RetainEmpty
  <2>3. QED
    BY <2>1, <2>2, Zenon
<1>2. ASSUME NEW q \in T \cap Seq(S), NEW e \in S PROVE Append(q, e) \in T
  <2> DEFINE r == Retain(q, kept)
  <2>1. ToSet(r) = ToSet(q) \cap kept
    BY <1>2
  <2>2. Retain(Append(q, e), kept) = IF e \in kept THEN Append(r, e) ELSE r
    BY RetainAppend
  <2>3. r \in Seq(S)
    BY RetainType
  <2>4. Append(q, e) \in Seq(S) /\ ToSet(Append(q, e)) = ToSet(q) \cup {e}
    BY AppendElements
  <2> HIDE DEF r
  <2>5. ToSet(Append(r, e)) = ToSet(r) \cup {e}
    BY <2>3, AppendElements
  <2>6. QED
    BY <2>1, <2>2, <2>4, <2>5, Zenon
<1>3. Seq(S) \subseteq T
  <2> HIDE DEF T
  <2> QED BY <1>1, <1>2, SequencesByAppending
<1>4. QED
  BY <1>3


\* Nothing changes when all is kept.
LEMMA RetainAll ==
    ASSUME NEW S, NEW s \in Seq(S), NEW kept, ToSet(s) \subseteq kept
    PROVE  Retain(s, kept) = s
<1> DEFINE T == {q \in Seq(S) : ToSet(q) \subseteq kept => Retain(q, kept) = q}
<1>1. <<>> \in T
  BY RetainEmpty
<1>2. ASSUME NEW q \in T \cap Seq(S), NEW e \in S PROVE Append(q, e) \in T
  <2>1. Append(q, e) \in Seq(S) /\ ToSet(Append(q, e)) = ToSet(q) \cup {e}
    BY AppendElements
  <2>2. Retain(Append(q, e), kept) =
          IF e \in kept THEN Append(Retain(q, kept), e) ELSE Retain(q, kept)
    BY RetainAppend
  <2>3. QED
    BY <1>2, <2>1, <2>2, Zenon
<1>3. Seq(S) \subseteq T
  <2> HIDE DEF T
  <2> QED BY <1>1, <1>2, SequencesByAppending
<1>4. QED
  BY <1>3

\* Retaining twice is retaining what is kept both times.
LEMMA RetainTwice ==
    ASSUME NEW S, NEW s \in Seq(S), NEW A, NEW B
    PROVE  Retain(Retain(s, A), B) = Retain(s, A \cap B)
<1> DEFINE T == {q \in Seq(S) : Retain(Retain(q, A), B) = Retain(q, A \cap B)}
<1>1. <<>> \in T
  BY RetainEmpty
<1>2. ASSUME NEW q \in T \cap Seq(S), NEW e \in S PROVE Append(q, e) \in T
  <2> DEFINE r == Retain(q, A)
  <2>1. r \in Seq(S)
    BY RetainType
  <2>2. Append(q, e) \in Seq(S)
    BY AppendElements
  <2>3. Retain(Append(q, e), A) = IF e \in A THEN Append(r, e) ELSE r
    BY RetainAppend
  <2>4. Retain(Append(q, e), A \cap B) =
          IF e \in A \cap B THEN Append(Retain(q, A \cap B), e) ELSE Retain(q, A \cap B)
    BY RetainAppend
  <2>5. Retain(r, B) = Retain(q, A \cap B)
    BY <1>2
  <2> HIDE DEF r
  <2>6. Retain(Append(r, e), B) = IF e \in B THEN Append(Retain(r, B), e) ELSE Retain(r, B)
    BY <2>1, RetainAppend
  <2>7. QED
    <3>1. CASE e \in A
      <4>1. Retain(Append(q, e), A) = Append(r, e)
        BY <2>3, <3>1, Zenon
      <4>2. e \in A \cap B <=> e \in B
        BY <3>1
      <4>3. Retain(Append(r, e), B) = Retain(Append(q, e), A \cap B)
        BY <2>4, <2>5, <2>6, <4>2, Zenon
      <4>4. QED
        BY <2>2, <4>1, <4>3, Zenon
    <3>2. CASE e \notin A
      BY <2>2, <2>3, <2>4, <2>5, <3>2
    <3>3. QED
      BY <3>1, <3>2
<1>3. Seq(S) \subseteq T
  <2> HIDE DEF T
  <2> QED BY <1>1, <1>2, SequencesByAppending
<1>4. QED
  BY <1>3

\* Of two sequences in a row each is retained by itself.
LEMMA RetainConcat ==
    ASSUME NEW S, NEW s \in Seq(S), NEW t \in Seq(S), NEW kept
    PROVE  Retain(s \o t, kept) = Retain(s, kept) \o Retain(t, kept)
<1> DEFINE T == {q \in Seq(S) : Retain(s \o q, kept) = Retain(s, kept) \o Retain(q, kept)}
           r == Retain(s, kept)
<1>0. r \in Seq(S)
  BY RetainType
<1>1. <<>> \in T
  <2>1. Retain(<<>>, kept) = <<>>
    BY RetainEmpty
  <2>2. s \o <<>> = s
    OBVIOUS
  <2> HIDE DEF r
  <2>3. r \o <<>> = r /\ <<>> \in Seq(S)
    BY <1>0
  <2>4. QED
    BY <2>1, <2>2, <2>3, Zenon DEF r
<1>2. ASSUME NEW q \in T \cap Seq(S), NEW e \in S PROVE Append(q, e) \in T
  <2> DEFINE p == Retain(q, kept)
             w == s \o q
  <2>1. Append(q, e) \in Seq(S) /\ w \in Seq(S) /\ p \in Seq(S)
    BY AppendElements, RetainType, ConcatProperties
  <2>2. Retain(Append(q, e), kept) = IF e \in kept THEN Append(p, e) ELSE p
    BY RetainAppend
  <2>3. Retain(w, kept) = r \o p
    BY <1>2
  <2>4. s \o Append(q, e) = Append(w, e)
    <3>1. q \in Seq(S)
      OBVIOUS
    <3>2. QED
      BY <3>1
  <2> HIDE DEF p, w, r
  <2>5. Retain(Append(w, e), kept) = IF e \in kept THEN Append(r \o p, e) ELSE r \o p
    <3>1. Retain(Append(w, e), kept) =
            IF e \in kept THEN Append(Retain(w, kept), e) ELSE Retain(w, kept)
      BY <2>1, RetainAppend
    <3>2. QED
      BY <2>3, <3>1
  <2>6. r \o Append(p, e) = Append(r \o p, e)
    BY <1>0, <2>1
  <2>7. Retain(s \o Append(q, e), kept) = r \o Retain(Append(q, e), kept)
    BY <2>2, <2>4, <2>5, <2>6, Zenon
  <2>8. QED
    BY <2>1, <2>7, Zenon DEF r
<1>3. Seq(S) \subseteq T
  <2> HIDE DEF T
  <2> QED BY <1>1, <1>2, SequencesByAppending
<1>4. QED
  BY <1>3

\* The places of s that are kept, in the order of the result.
Keeps(s, r, h) ==
    /\ h \in [1..Len(r) -> 1..Len(s)]
    /\ \A i, j \in 1..Len(r) : i < j => h[i] < h[j]
    /\ \A i \in 1..Len(r) : r[i] = s[h[i]]

\* What is retained comes in the order it had.
LEMMA RetainKeepsOrder ==
    ASSUME NEW S, NEW s \in Seq(S), NEW kept
    PROVE  \E h : Keeps(s, Retain(s, kept), h)
<1> DEFINE T == {q \in Seq(S) : \E h : Keeps(q, Retain(q, kept), h)}
<1>1. <<>> \in T
  <2>1. Keeps(<<>>, <<>>, [i \in 1..0 |-> 0])
    BY DEF Keeps
  <2>2. <<>> \in Seq(S)
    OBVIOUS
  <2>3. QED
    BY <2>1, <2>2, RetainEmpty, Zenon
<1>2. ASSUME NEW q \in T \cap Seq(S), NEW e \in S PROVE Append(q, e) \in T
  <2> DEFINE r == Retain(q, kept)
             a == Append(q, e)
  <2>1. PICK h : Keeps(q, r, h)
    BY <1>2
  <2>2. r \in Seq(S) /\ Len(r) \in Nat
    BY RetainType, LenProperties
  <2>3. /\ a \in Seq(S) /\ Len(a) = Len(q) + 1 /\ Len(q) \in Nat
        /\ a[Len(a)] = e
        /\ \A n \in 1..Len(q) : a[n] = q[n]
    BY AppendProperties, LenProperties
  <2>4. Retain(a, kept) = IF e \in kept THEN Append(r, e) ELSE r
    BY RetainAppend
  <2> HIDE DEF r, a
  <2>5. CASE e \in kept
    <3> DEFINE b == Append(r, e)
               g == [i \in 1..(Len(r) + 1) |-> IF i = Len(r) + 1 THEN Len(a) ELSE h[i]]
    <3>1. /\ Len(b) = Len(r) + 1
          /\ b[Len(r) + 1] = e
          /\ \A n \in 1..Len(r) : b[n] = r[n]
      BY <2>2, AppendProperties
    <3> HIDE DEF b
    <3>2. \A i \in 1..Len(r) : h[i] \in 1..Len(q) /\ r[i] = q[h[i]]
      BY <2>1 DEF Keeps
    <3>3. \A i, j \in 1..Len(r) : i < j => h[i] < h[j]
      BY <2>1 DEF Keeps
    <3>4. \A i \in 1..Len(b) : i = Len(r) + 1 \/ i \in 1..Len(r)
      BY <2>2, <3>1
    <3>5. g \in [1..Len(b) -> 1..Len(a)]
      BY <2>2, <2>3, <3>1, <3>2, <3>4
    <3>6. \A i, j \in 1..Len(b) : i < j => g[i] < g[j]
      <4> SUFFICES ASSUME NEW i \in 1..Len(b), NEW j \in 1..Len(b), i < j PROVE g[i] < g[j]
        OBVIOUS
      <4>1. i \in 1..Len(r) /\ g[i] = h[i] /\ h[i] \in 1..Len(q)
        BY <2>2, <3>1, <3>2
      <4>2. CASE j = Len(r) + 1
        BY <2>2, <2>3, <3>1, <4>1, <4>2
      <4>3. CASE j \in 1..Len(r)
        BY <2>2, <3>1, <3>3, <4>1, <4>3
      <4>4. QED
        BY <3>4, <4>2, <4>3
    <3>7. \A i \in 1..Len(b) : b[i] = a[g[i]]
      BY <2>2, <2>3, <3>1, <3>2, <3>4
    <3>8. Keeps(a, b, g)
      BY <3>5, <3>6, <3>7 DEF Keeps
    <3>9. QED
      BY <2>3, <2>4, <2>5, <3>8 DEF a, b
  <2>6. CASE e \notin kept
    <3>1. Keeps(a, r, h)
      <4>1. h \in [1..Len(r) -> 1..Len(a)]
        BY <2>1, <2>2, <2>3 DEF Keeps
      <4>2. \A i \in 1..Len(r) : r[i] = a[h[i]]
        BY <2>1, <2>2, <2>3 DEF Keeps
      <4>3. QED
        BY <2>1, <4>1, <4>2 DEF Keeps
    <3>2. QED
      BY <2>3, <2>4, <2>6, <3>1 DEF a
  <2>7. QED
    BY <2>5, <2>6
<1>3. Seq(S) \subseteq T
  <2> HIDE DEF T
  <2> QED BY <1>1, <1>2, SequencesByAppending
<1>4. QED
  BY <1>3

\* Without repetitions before, without after.
LEMMA RetainInjective ==
    ASSUME NEW S, NEW s \in Seq(S), NEW kept, IsInjective(s)
    PROVE  IsInjective(Retain(s, kept))
<1> DEFINE r == Retain(s, kept)
<1>1. PICK h : Keeps(s, r, h)
  BY RetainKeepsOrder
<1>2. r \in Seq(S)
  BY RetainType
<1> HIDE DEF r
<1>3. DOMAIN r = 1..Len(r) /\ DOMAIN s = 1..Len(s) /\ Len(r) \in Nat /\ Len(s) \in Nat
  BY <1>2, LenProperties
<1>4. ASSUME NEW i \in 1..Len(r), NEW j \in 1..Len(r), r[i] = r[j] PROVE i = j
  <2>1. h[i] \in DOMAIN s /\ h[j] \in DOMAIN s /\ s[h[i]] = s[h[j]]
    BY <1>1, <1>3, <1>4 DEF Keeps
  <2>2. h[i] = h[j]
    BY <2>1 DEF IsInjective
  <2>3. QED
    BY <1>1, <1>3, <2>1, <2>2 DEF Keeps
<1>5. QED
  BY <1>3, <1>4 DEF IsInjective, r

\* The places of a sequence that hold e.
Places(s, e) == {n \in DOMAIN s : s[n] = e}

\* One more element has one more place.
LEMMA PlacesAppend ==
    ASSUME NEW S, NEW s \in Seq(S), NEW x \in S, NEW e
    PROVE  Places(Append(s, x), e) =
               IF x = e THEN Places(s, e) \cup {Len(s) + 1} ELSE Places(s, e)
<1>1. /\ Len(s) \in Nat
      /\ DOMAIN Append(s, x) = 1..(Len(s) + 1) /\ DOMAIN s = 1..Len(s)
      /\ Append(s, x)[Len(s) + 1] = x
      /\ \A n \in 1..Len(s) : Append(s, x)[n] = s[n]
  BY AppendProperties, LenProperties
<1>2. QED
  BY <1>1 DEF Places

\* The places of an element can be counted.
LEMMA PlacesFinite ==
    ASSUME NEW S, NEW s \in Seq(S), NEW e
    PROVE  IsFiniteSet(Places(s, e)) /\ Cardinality(Places(s, e)) \in Nat
<1>1. IsFiniteSet(1..Len(s)) /\ DOMAIN s = 1..Len(s)
  BY FS_Interval, LenProperties
<1>2. IsFiniteSet(Places(s, e))
  BY <1>1, FS_Subset DEF Places
<1>3. QED
  BY <1>2, FS_CardinalityType

\* One more element counts once more.
LEMMA CountAppend ==
    ASSUME NEW S, NEW s \in Seq(S), NEW x \in S, NEW e
    PROVE  Cardinality(Places(Append(s, x), e)) =
               Cardinality(Places(s, e)) + (IF x = e THEN 1 ELSE 0)
<1>1. IsFiniteSet(Places(s, e)) /\ Cardinality(Places(s, e)) \in Nat
  BY PlacesFinite
<1>2. Len(s) + 1 \notin Places(s, e)
  BY LenProperties DEF Places
<1>3. Cardinality(Places(s, e) \cup {Len(s) + 1}) = Cardinality(Places(s, e)) + 1
  BY <1>1, <1>2, FS_AddElement
<1>4. QED
  <2>1. CASE x = e
    <3>1. Places(Append(s, x), e) = Places(s, e) \cup {Len(s) + 1}
      <4>1. Places(Append(s, x), e) =
              IF x = e THEN Places(s, e) \cup {Len(s) + 1} ELSE Places(s, e)
        BY PlacesAppend
      <4>2. QED
        BY <2>1, <4>1, Zenon
    <3>2. QED
      BY <1>3, <2>1, <3>1
  <2>2. CASE x # e
    <3>1. Places(Append(s, x), e) = Places(s, e)
      BY <2>2, PlacesAppend
    <3>2. QED
      BY <1>1, <2>2, <3>1
  <2>3. QED
    BY <2>1, <2>2

\* What is kept is there as often as before, the rest not at all.
LEMMA RetainCount ==
    ASSUME NEW S, NEW s \in Seq(S), NEW kept, NEW e
    PROVE  Cardinality(Places(Retain(s, kept), e)) =
               IF e \in kept THEN Cardinality(Places(s, e)) ELSE 0
<1> DEFINE Wanted(q) == IF e \in kept THEN Cardinality(Places(q, e)) ELSE 0
           T == {q \in Seq(S) : Cardinality(Places(Retain(q, kept), e)) = Wanted(q)}
<1>1. <<>> \in T
  <2>1. Places(<<>>, e) = {}
    BY DEF Places
  <2>2. Cardinality(Places(<<>>, e)) = 0
    BY <2>1, FS_EmptySet
  <2>3. Retain(<<>>, kept) = <<>> /\ <<>> \in Seq(S)
    BY RetainEmpty
  <2>4. QED
    BY <2>2, <2>3, Zenon
<1>2. ASSUME NEW q \in T \cap Seq(S), NEW x \in S PROVE Append(q, x) \in T
  <2> DEFINE r == Retain(q, kept)
  <2>1. r \in Seq(S) /\ Append(q, x) \in Seq(S)
    BY RetainType, AppendElements
  <2>2. Retain(Append(q, x), kept) = IF x \in kept THEN Append(r, x) ELSE r
    BY RetainAppend
  <2>3. Cardinality(Places(r, e)) = Wanted(q)
    BY <1>2
  <2> HIDE DEF r
  <2>4. Cardinality(Places(Append(q, x), e)) = Cardinality(Places(q, e)) + (IF x = e THEN 1 ELSE 0)
    BY CountAppend
  <2>5. Cardinality(Places(Append(r, x), e)) = Cardinality(Places(r, e)) + (IF x = e THEN 1 ELSE 0)
    BY <2>1, CountAppend
  <2>6. Cardinality(Places(q, e)) \in Nat
    BY PlacesFinite
  <2>7. Cardinality(Places(Retain(Append(q, x), kept), e)) = Wanted(Append(q, x))
    BY <2>2, <2>3, <2>4, <2>5, <2>6
  <2>8. QED
    BY <2>1, <2>7
<1>3. Seq(S) \subseteq T
  <2> HIDE DEF T
  <2> QED BY <1>1, <1>2, SequencesByAppending
<1>4. QED
  BY <1>3

-----------------------------------------------------------------------------
(* Sequences of whatever is in them                                         *)

\* A sequence, of whatever is in it.
Listing(s) == s \in Seq(ToSet(s))

\* A sequence over any set is one.
LEMMA ListingOf ==
    ASSUME NEW S, NEW s \in Seq(S)
    PROVE  Listing(s) /\ DOMAIN s = 1..Len(s) /\ Len(s) \in Nat
<1>1. DOMAIN s = 1..Len(s) /\ Len(s) \in Nat /\ s \in [1..Len(s) -> S]
  BY LenProperties
<1>2. s \in [1..Len(s) -> ToSet(s)]
  BY <1>1 DEF ToSet
<1> QED
  BY <1>1, <1>2 DEF Listing

\* It is given by its places.
LEMMA ListingIs ==
    ASSUME NEW s, Listing(s)
    PROVE  /\ DOMAIN s = 1..Len(s) /\ Len(s) \in Nat
           /\ s = [n \in 1..Len(s) |-> s[n]] /\ \A n \in 1..Len(s) : s[n] \in ToSet(s)
BY LenProperties DEF Listing, ToSet

\* A function of the first k numbers is one of length k.
LEMMA FunctionLists ==
    ASSUME NEW k \in Nat, NEW f, f = [n \in 1..k |-> f[n]]
    PROVE  Listing(f) /\ Len(f) = k /\ DOMAIN f = 1..k
<1>1. f \in [1..k -> ToSet(f)]
  BY DEF ToSet
<1>2. f \in Seq(ToSet(f))
  BY <1>1
<1> QED
  BY <1>1, <1>2, LenProperties DEF Listing

\* Two of them behind each other are as long as both.
LEMMA ConcatLists ==
    ASSUME NEW a, NEW b, Listing(a), Listing(b)
    PROVE  Listing(a \o b) /\ Len(a \o b) = Len(a) + Len(b) /\ Len(a) \in Nat /\ Len(b) \in Nat
<1> DEFINE S == ToSet(a) \cup ToSet(b)
<1>1. a \in Seq(S) /\ b \in Seq(S)
  BY DEF Listing
<1> HIDE DEF S
<1>2. a \o b \in Seq(S) /\ Len(a \o b) = Len(a) + Len(b)
  BY <1>1, ConcatProperties
<1> QED
  BY <1>1, <1>2, ListingOf, LenProperties

\* What is retained of one has the elements that are kept.
LEMMA RetainLists ==
    ASSUME NEW s, Listing(s), NEW kept
    PROVE  /\ Listing(Retain(s, kept)) /\ ToSet(Retain(s, kept)) = ToSet(s) \cap kept
           /\ Len(Retain(s, kept)) \in Nat /\ Len(Retain(s, kept)) <= Len(s)
<1>1. s \in Seq(ToSet(s))
  BY DEF Listing
<1> DEFINE S == ToSet(s)
<1> HIDE DEF S
<1>2. s \in Seq(S)
  BY <1>1 DEF S
<1>3. Retain(s, kept) \in Seq(S) /\ Len(Retain(s, kept)) <= Len(s)
  BY <1>2, RetainType
<1>4. ToSet(Retain(s, kept)) = ToSet(s) \cap kept
  BY <1>2, RetainElements
<1> QED
  BY <1>3, <1>4, ListingOf

\* What is retained is told by the elements there are.
LEMMA RetainSame ==
    ASSUME NEW S, NEW s \in Seq(S), NEW A, NEW B, ToSet(s) \cap A = ToSet(s) \cap B
    PROVE  Retain(s, A) = Retain(s, B)
<1> DEFINE T == {q \in Seq(S) : ToSet(q) \cap A = ToSet(q) \cap B => Retain(q, A) = Retain(q, B)}
<1>1. <<>> \in T
  BY RetainEmpty
<1>2. ASSUME NEW q \in T \cap Seq(S), NEW e \in S PROVE Append(q, e) \in T
  <2>1. Append(q, e) \in Seq(S) /\ ToSet(Append(q, e)) = ToSet(q) \cup {e}
    BY AppendElements
  <2>2. ASSUME ToSet(Append(q, e)) \cap A = ToSet(Append(q, e)) \cap B
        PROVE  Retain(Append(q, e), A) = Retain(Append(q, e), B)
    <3>1. ToSet(q) \cap A = ToSet(q) \cap B /\ (e \in A <=> e \in B)
      <4>1. (ToSet(q) \cup {e}) \cap A = (ToSet(q) \cup {e}) \cap B
        BY <2>1, <2>2
      <4> HIDE DEF T
      <4>2. \A x : (x \in ToSet(q) \/ x = e) => (x \in A <=> x \in B)
        BY <4>1
      <4> QED
        BY <4>2
    <3>2. Retain(q, A) = Retain(q, B)
      BY <3>1
    <3>3. /\ Retain(Append(q, e), A) = IF e \in A THEN Append(Retain(q, A), e) ELSE Retain(q, A)
          /\ Retain(Append(q, e), B) = IF e \in B THEN Append(Retain(q, B), e) ELSE Retain(q, B)
      BY RetainAppend
    <3> HIDE DEF T
    <3> QED
      BY <3>1, <3>2, <3>3, Zenon
  <2> QED
    BY <2>1, <2>2
<1>3. Seq(S) \subseteq T
  <2> HIDE DEF T
  <2> QED
    BY <1>1, <1>2, SequencesByAppending
<1> QED
  BY <1>3

\* One element more retains one more, if it is kept.
LEMMA RetainGrows ==
    ASSUME NEW S, NEW q \in Seq(S), NEW e \in S, NEW K
    PROVE  Len(Retain(Append(q, e), K)) = Len(Retain(q, K)) + (IF e \in K THEN 1 ELSE 0)
<1>1. Retain(q, K) \in Seq(S) /\ Len(Retain(q, K)) \in Nat
  BY RetainType, LenProperties
<1>2. CASE e \in K
  <2>1. Retain(Append(q, e), K) = Append(Retain(q, K), e)
    BY <1>2, RetainAppend
  <2>2. Len(Append(Retain(q, K), e)) = Len(Retain(q, K)) + 1
    BY <1>1, AppendProperties
  <2> QED
    BY <1>2, <2>1, <2>2
<1>3. CASE e \notin K
  <2>1. Retain(Append(q, e), K) = Retain(q, K)
    BY <1>3, RetainAppend
  <2> QED
    BY <1>1, <1>3, <2>1
<1> QED
  BY <1>2, <1>3

\* The beginnings of a sequence.
LEMMA PrefixGrows ==
    ASSUME NEW S, NEW q \in Seq(S), NEW n \in Nat, n + 1 \in 1..Len(q)
    PROVE  SubSeq(q, 1, n) \in Seq(S) /\ SubSeq(q, 1, n + 1) = Append(SubSeq(q, 1, n), q[n + 1])
<1> DEFINE m == n + 1
           a == SubSeq(q, 1, n)
           b == SubSeq(q, 1, m)
           x == q[m]
<1>1. m \in Nat /\ \A i \in 1..m : i \in 1..Len(q)
  BY LenProperties
<1>2. \A i \in 1..m : q[i] \in S
  BY <1>1, ElementOfSeq
<1>3. n \in Int /\ m \in Int /\ 1 \in Int /\ (\A i \in 1..n : i \in 1..m) /\ m \in 1..m
  BY <1>1
<1>4. a \in Seq(S) /\ Len(a) = n /\ \A i \in 1..n : a[i] = q[i]
  <2>1. \A i \in 1..n : q[i] \in S
    BY <1>2, <1>3
  <2>2. /\ a \in Seq(S) /\ Len(a) = IF 1 <= n THEN n - 1 + 1 ELSE 0
        /\ \A i \in 1..(n - 1 + 1) : a[i] = q[1 + i - 1]
    BY <1>3, <2>1, SubSeqProperties
  <2> QED
    BY <2>2
<1>5. b \in Seq(S) /\ Len(b) = m /\ \A i \in 1..m : b[i] = q[i]
  <2>1. /\ b \in Seq(S) /\ Len(b) = IF 1 <= m THEN m - 1 + 1 ELSE 0
        /\ \A i \in 1..(m - 1 + 1) : b[i] = q[1 + i - 1]
    BY <1>2, <1>3, SubSeqProperties
  <2> QED
    BY <1>1, <2>1
<1>6. x \in S
  BY <1>2, <1>3
<1> HIDE DEF a, b, x
<1>7. /\ Append(a, x) \in Seq(S) /\ Len(Append(a, x)) = m
      /\ \A i \in 1..n : Append(a, x)[i] = a[i] /\ Append(a, x)[m] = x
  BY <1>4, <1>6, AppendProperties
<1>8. Append(a, x)[m] = x
  BY <1>4, <1>6, AppendProperties
<1>9. \A i \in 1..m : b[i] = Append(a, x)[i]
  <2> TAKE i \in 1..m
  <2>1. i = m \/ i \in 1..n
    BY <1>3
  <2> HIDE DEF m
  <2> QED
    BY <1>3, <1>4, <1>5, <1>7, <1>8, <2>1 DEF x
<1>10. b = Append(a, x)
  BY <1>5, <1>7, <1>9, SeqEqual
<1> QED
  BY <1>4, <1>10 DEF a, b, x

\* What one set keeps and what the other keeps are all there is.
LEMMA RetainParts ==
    ASSUME NEW S, NEW s \in Seq(S), NEW A, NEW B, \A x \in ToSet(s) : (x \in A) <=> (x \notin B)
    PROVE  Len(Retain(s, A)) + Len(Retain(s, B)) = Len(s)
<1> DEFINE T == {q \in Seq(S) : (\A x \in ToSet(q) : (x \in A) <=> (x \notin B)) =>
                                   Len(Retain(q, A)) + Len(Retain(q, B)) = Len(q)}
<1>1. <<>> \in T
  <2>1. Len(<<>>) = 0 /\ <<>> \in Seq(S)
    OBVIOUS
  <2> QED
    BY <2>1, RetainEmpty
<1>2. ASSUME NEW q \in T \cap Seq(S), NEW e \in S PROVE Append(q, e) \in T
  <2>1. Append(q, e) \in Seq(S) /\ ToSet(Append(q, e)) = ToSet(q) \cup {e}
    BY AppendElements
  <2>2. Len(Append(q, e)) = Len(q) + 1 /\ Len(q) \in Nat
    BY AppendProperties, LenProperties
  <2>3. ASSUME \A x \in ToSet(Append(q, e)) : (x \in A) <=> (x \notin B)
        PROVE  Len(Retain(Append(q, e), A)) + Len(Retain(Append(q, e), B)) = Len(Append(q, e))
    <3>1. (\A x \in ToSet(q) : (x \in A) <=> (x \notin B)) /\ ((e \in A) <=> (e \notin B))
      BY <2>1, <2>3
    <3>2. Len(Retain(q, A)) + Len(Retain(q, B)) = Len(q)
      BY <3>1
    <3>3. \A K : Retain(q, K) \in Seq(S) /\ Len(Retain(q, K)) \in Nat
      BY RetainType, LenProperties
    <3>4. \A K : Len(Retain(Append(q, e), K)) = Len(Retain(q, K)) + (IF e \in K THEN 1 ELSE 0)
      BY RetainGrows
    <3> QED
      BY <2>2, <3>1, <3>2, <3>3, <3>4
  <2> QED
    BY <2>1, <2>3
<1>3. Seq(S) \subseteq T
  <2> HIDE DEF T
  <2> QED
    BY <1>1, <1>2, SequencesByAppending
<1> QED
  BY <1>3

\* The elements of two sequences put together.
LEMMA ConcatElements ==
    ASSUME NEW S, NEW a \in Seq(S), NEW b \in Seq(S)
    PROVE  ToSet(a \o b) = ToSet(a) \cup ToSet(b)
<1>1. /\ Len(a) \in Nat /\ Len(b) \in Nat /\ DOMAIN a = 1..Len(a) /\ DOMAIN b = 1..Len(b)
      /\ DOMAIN (a \o b) = 1..(Len(a) + Len(b))
  <2>1. a \o b \in Seq(S) /\ Len(a \o b) = Len(a) + Len(b)
    BY ConcatProperties
  <2> QED
    BY <2>1, LenProperties
<1>2. \A n \in 1..(Len(a) + Len(b)) : (a \o b)[n] = IF n <= Len(a) THEN a[n] ELSE b[n - Len(a)]
  BY ConcatProperties
<1>3. ASSUME NEW x \in ToSet(a \o b) PROVE x \in ToSet(a) \cup ToSet(b)
  <2>1. PICK n \in 1..(Len(a) + Len(b)) : (a \o b)[n] = x
    BY <1>1 DEF ToSet
  <2>2. CASE n <= Len(a)
    <3>1. n \in 1..Len(a) /\ x = a[n]
      BY <1>1, <1>2, <2>1, <2>2
    <3> QED
      BY <1>1, <3>1 DEF ToSet
  <2>3. CASE ~(n <= Len(a))
    <3>1. n - Len(a) \in 1..Len(b) /\ x = b[n - Len(a)]
      BY <1>1, <1>2, <2>1, <2>3
    <3> QED
      BY <1>1, <3>1 DEF ToSet
  <2> QED
    BY <2>2, <2>3
<1>4. ASSUME NEW x \in ToSet(a) PROVE x \in ToSet(a \o b)
  <2>1. PICK n \in 1..Len(a) : a[n] = x
    BY <1>1 DEF ToSet
  <2>2. n \in 1..(Len(a) + Len(b)) /\ (a \o b)[n] = x
    BY <1>1, <1>2, <2>1
  <2> QED
    BY <1>1, <2>2 DEF ToSet
<1>5. ASSUME NEW x \in ToSet(b) PROVE x \in ToSet(a \o b)
  <2>1. PICK n \in 1..Len(b) : b[n] = x
    BY <1>1 DEF ToSet
  <2>2. n + Len(a) \in 1..(Len(a) + Len(b)) /\ ~(n + Len(a) <= Len(a)) /\ (n + Len(a)) - Len(a) = n
    BY <1>1
  <2>3. (a \o b)[n + Len(a)] = x
    BY <1>2, <2>1, <2>2
  <2> QED
    BY <1>1, <2>2, <2>3 DEF ToSet
<1> QED
  BY <1>3, <1>4, <1>5

\* The two parts of a sequence.
LEMMA PartsOf ==
    ASSUME NEW S, NEW q \in Seq(S), NEW n \in 0..Len(q)
    PROVE  LET a == SubSeq(q, 1, n)
               b == SubSeq(q, n + 1, Len(q)) IN
           /\ a \in Seq(S) /\ Len(a) = n /\ \A i \in 1..n : a[i] = q[i]
           /\ b \in Seq(S) /\ Len(b) = Len(q) - n /\ \A i \in 1..(Len(q) - n) : b[i] = q[n + i]
           /\ ToSet(a) \subseteq ToSet(q)
<1> DEFINE a == SubSeq(q, 1, n)
           b == SubSeq(q, n + 1, Len(q))
<1>1. Len(q) \in Nat /\ n \in Nat /\ n <= Len(q) /\ DOMAIN q = 1..Len(q)
  BY LenProperties
<1>2. a \in Seq(S) /\ Len(a) = n /\ \A i \in 1..n : a[i] = q[i]
  <2>1. \A i \in 1..n : q[i] \in S
    BY <1>1, ElementOfSeq
  <2> QED
    BY <1>1, <2>1, SubSeqProperties
<1>3. b \in Seq(S) /\ Len(b) = Len(q) - n /\ \A i \in 1..(Len(q) - n) : b[i] = q[n + i]
  <2>1. \A i \in (n + 1)..Len(q) : q[i] \in S
    BY <1>1, ElementOfSeq
  <2>2. n + 1 \in Int /\ Len(q) \in Int
    BY <1>1
  <2>3. /\ b \in Seq(S) /\ Len(b) = IF n + 1 <= Len(q) THEN Len(q) - (n + 1) + 1 ELSE 0
        /\ \A i \in 1..(Len(q) - (n + 1) + 1) : b[i] = q[(n + 1) + i - 1]
    BY <2>1, <2>2, SubSeqProperties
  <2>4. /\ Len(q) - (n + 1) + 1 = Len(q) - n
        /\ \A i \in 1..(Len(q) - n) : (n + 1) + i - 1 = n + i
    BY <1>1
  <2> HIDE DEF b
  <2>5. \A i \in 1..(Len(q) - n) : b[i] = q[n + i]
    BY <2>3, <2>4
  <2>6. Len(b) = Len(q) - n
    <3>1. CASE n + 1 <= Len(q)
      BY <2>3, <2>4, <3>1
    <3>2. CASE ~(n + 1 <= Len(q))
      <4>1. Len(b) = 0
        BY <2>3, <3>2
      <4>2. n = Len(q)
        <5>1. \A x, y \in Nat : x <= y /\ ~(x + 1 <= y) => x = y
          OBVIOUS
        <5> QED
          BY <1>1, <3>2, <5>1, Zenon
      <4> QED
        BY <1>1, <4>1, <4>2
    <3> QED
      BY <3>1, <3>2
  <2> QED
    BY <2>3, <2>5, <2>6
<1> HIDE DEF a, b
<1>4. ToSet(a) \subseteq ToSet(q)
  <2>1. DOMAIN a = 1..n /\ \A i \in 1..n : i \in 1..Len(q)
    BY <1>1, <1>2, LenProperties
  <2> QED
    BY <1>1, <1>2, <2>1 DEF ToSet
<1> QED
  BY <1>2, <1>3, <1>4 DEF a, b

\* r has one element more than q, anywhere.
GrowsBy(r, q, e) ==
    /\ Len(r) = Len(q) + 1 /\ ToSet(r) = ToSet(q) \cup {e}
    /\ \A K : Len(Retain(r, K)) = Len(Retain(q, K)) + (IF e \in K THEN 1 ELSE 0)

\* That is what inserting does; the first stays the first unless the new one is.
LEMMA InsertedIs ==
    ASSUME NEW S, NEW q \in Seq(S), NEW e \in S, NEW at \in 0..Len(q)
    PROVE  LET r == InsertAt(q, at + 1, e) IN
           /\ r \in Seq(S) /\ GrowsBy(r, q, e)
           /\ at = 0 => r[1] = e
           /\ at > 0 => r[1] = q[1]
<1> DEFINE a == SubSeq(q, 1, at)
           b == SubSeq(q, at + 1, Len(q))
           u == <<e>>
           v == a \o u
           r == InsertAt(q, at + 1, e)
<1>1. Len(q) \in Nat /\ at \in Nat /\ at <= Len(q) /\ DOMAIN q = 1..Len(q)
  BY LenProperties
<1>2. a \in Seq(S) /\ Len(a) = at /\ \A n \in 1..at : a[n] = q[n]
  BY PartsOf
<1>3. b \in Seq(S) /\ Len(b) = Len(q) - at /\ \A n \in 1..(Len(q) - at) : b[n] = q[at + n]
  BY PartsOf
<1>4. u \in Seq(S) /\ Len(u) = 1 /\ u[1] = e /\ ToSet(u) = {e}
  BY DEF ToSet
<1>5. r = v \o b
  <2>1. (at + 1) - 1 = at
    BY <1>1
  <2> QED
    BY <2>1 DEF InsertAt
<1> HIDE DEF a, b, u, v, r
<1>6. q = a \o b
  <2>1. a \o b \in Seq(S) /\ Len(a \o b) = Len(a) + Len(b)
    BY <1>2, <1>3, ConcatProperties
  <2>2. Len(a \o b) = Len(q)
    BY <1>1, <1>2, <1>3, <2>1
  <2>3. \A n \in 1..(Len(a) + Len(b)) : (a \o b)[n] = IF n <= Len(a) THEN a[n] ELSE b[n - Len(a)]
    BY <1>2, <1>3, ConcatProperties
  <2>4. \A n \in 1..Len(a \o b) : (a \o b)[n] = q[n]
    <3> TAKE n \in 1..Len(a \o b)
    <3>0. n \in 1..(Len(a) + Len(b)) /\ n \in Nat /\ n \in 1..Len(q)
      BY <1>1, <1>2, <1>3, <2>1, <2>2
    <3>1. CASE n <= at
      <4>1. (a \o b)[n] = a[n] /\ n \in 1..at
        BY <1>2, <2>3, <3>0, <3>1
      <4> QED
        BY <1>2, <4>1
    <3>2. CASE ~(n <= at)
      <4>1. (a \o b)[n] = b[n - at]
        BY <1>2, <2>3, <3>0, <3>2
      <4>2. n - at \in 1..(Len(q) - at) /\ at + (n - at) = n
        BY <1>1, <3>0, <3>2
      <4>3. b[n - at] = q[at + (n - at)]
        BY <1>3, <4>2
      <4> QED
        BY <4>1, <4>2, <4>3
    <3> QED
      BY <3>1, <3>2
  <2> QED
    BY <2>1, <2>2, <2>4, SeqEqual
<1>15. v = a \o u
  BY DEF v
<1>7. v \in Seq(S) /\ Len(v) = at + 1
  <2>1. v \in Seq(S) /\ Len(v) = Len(a) + Len(u)
    BY <1>2, <1>4, <1>15, ConcatProperties
  <2> QED
    BY <1>2, <1>4, <2>1
<1>8. r \in Seq(S) /\ Len(r) = Len(q) + 1
  <2>1. r \in Seq(S) /\ Len(r) = Len(v) + Len(b)
    BY <1>3, <1>5, <1>7, ConcatProperties
  <2>2. (at + 1) + (Len(q) - at) = Len(q) + 1
    BY <1>1
  <2> QED
    BY <1>3, <1>7, <2>1, <2>2
<1>9. r[1] = v[1]
  <2>1. v \in Seq(S) /\ Len(v) = at + 1 /\ r = v \o b
    BY <1>5, <1>7
  <2>2. \A n \in 1..(Len(v) + Len(b)) : (v \o b)[n] = IF n <= Len(v) THEN v[n] ELSE b[n - Len(v)]
    BY <1>3, <2>1, ConcatProperties
  <2>3. 1 \in 1..(Len(v) + Len(b)) /\ 1 <= Len(v)
    BY <1>1, <1>3, <2>1
  <2>4. r[1] = v[1]
    BY <2>1, <2>2, <2>3
  <2> QED
    BY <2>4
<1>10. at = 0 => r[1] = e
  BY <1>1, <1>2, <1>4, <1>9, <1>15, ConcatProperties
<1>11. at > 0 => r[1] = q[1]
  BY <1>1, <1>2, <1>4, <1>9, <1>15, ConcatProperties
<1>12. \A K : /\ Retain(r, K) = (Retain(a, K) \o Retain(u, K)) \o Retain(b, K)
              /\ Retain(q, K) = Retain(a, K) \o Retain(b, K)
  <2> TAKE K
  <2>1. Retain(v \o b, K) = Retain(v, K) \o Retain(b, K)
    BY <1>3, <1>7, RetainConcat
  <2>2. Retain(v, K) = Retain(a, K) \o Retain(u, K)
    BY <1>2, <1>4, <1>15, RetainConcat
  <2>3. Retain(a \o b, K) = Retain(a, K) \o Retain(b, K)
    BY <1>2, <1>3, RetainConcat
  <2> QED
    BY <1>5, <1>6, <2>1, <2>2, <2>3
<1>13. \A K : Retain(u, K) = IF e \in K THEN u ELSE <<>>
  <2>1. u = Append(<<>>, e) /\ <<>> \in Seq(S)
    BY DEF u
  <2> TAKE K
  <2>2. Retain(u, K) = IF e \in K THEN Append(Retain(<<>>, K), e) ELSE Retain(<<>>, K)
    BY <2>1, RetainAppend
  <2> QED
    BY <2>1, <2>2, RetainEmpty
<1>14. \A K : Len(Retain(r, K)) = Len(Retain(q, K)) + (IF e \in K THEN 1 ELSE 0)
  <2> TAKE K
  <2> DEFINE x == Retain(a, K)
             y == Retain(u, K)
             z == Retain(b, K)
  <2>1. x \in Seq(S) /\ y \in Seq(S) /\ z \in Seq(S)
    BY <1>2, <1>3, <1>4, RetainType
  <2>2. Len(y) = IF e \in K THEN 1 ELSE 0
    <3>1. Len(<<>>) = 0
      OBVIOUS
    <3> QED
      BY <1>4, <1>13, <3>1
  <2>3. Retain(r, K) = (x \o y) \o z /\ Retain(q, K) = x \o z
    BY <1>12
  <2> HIDE DEF x, y, z
  <2>4. x \o y \in Seq(S) /\ Len(x \o y) = Len(x) + Len(y)
    BY <2>1, ConcatProperties
  <2>5. Len((x \o y) \o z) = Len(x) + Len(y) + Len(z) /\ Len(x \o z) = Len(x) + Len(z)
    BY <2>1, <2>4, ConcatProperties
  <2>6. Len(x) \in Nat /\ Len(y) \in Nat /\ Len(z) \in Nat
    BY <2>1, LenProperties
  <2>7. Len(r) \in Nat
    BY <1>8, LenProperties
  <2>8. (Len(x) + Len(y)) + Len(z) = (Len(x) + Len(z)) + Len(y)
    BY <2>6
  <2>9. Len(Retain(r, K)) = (Len(x) + Len(y)) + Len(z) /\ Len(Retain(q, K)) = Len(x) + Len(z)
    BY <2>3, <2>5
  <2> QED
    BY <2>2, <2>8, <2>9
<1>16. ToSet(r) = ToSet(q) \cup {e}
  <2>1. ToSet(v) = ToSet(a) \cup {e} /\ ToSet(q) = ToSet(a) \cup ToSet(b)
    <3>1. ToSet(v) = ToSet(a) \cup ToSet(u) /\ ToSet(a \o b) = ToSet(a) \cup ToSet(b)
      BY <1>2, <1>3, <1>4, <1>15, ConcatElements
    <3> QED
      BY <1>4, <1>6, <3>1
  <2>2. ToSet(r) = ToSet(v) \cup ToSet(b)
    BY <1>3, <1>5, <1>7, ConcatElements
  <2> QED
    BY <2>1, <2>2
<1> QED
  BY <1>8, <1>10, <1>11, <1>14, <1>16 DEF r, GrowsBy

=================================================================================
