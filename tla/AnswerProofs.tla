---------------------------- MODULE AnswerProofs ----------------------------
(***************************************************************************)
(* Proofs about what is answered, for any candidates, queries, contexts,   *)
(* callers and clock: Routing (every stage of an evaluation parts the      *)
(* candidates into those it lets through and those it tells a rejection    *)
(* of, and the plans that are left keep what made their candidate pass),   *)
(* GraphQueries (what is planned is bounded and serves its query, and no   *)
(* other beyond it; appended events stay) and DecisionMemory               *)
(* (likeness is a score, so the matches of a context start with those that *)
(* equal it).  The last theorem joins them with that of version chains.    *)
(***************************************************************************)
EXTENDS Answers, DecisionProofs

-----------------------------------------------------------------------------
(* Routing: the ranks                                                       *)

\* No plan outranks the first.
TopFirst(q) == \A n \in DOMAIN q : q[n].priority <= q[1].priority

\* A plan that is placed by its priority keeps a highest one first.
LEMMA ByPriorityIs ==
    ASSUME NEW S, \A x \in S : x.priority \in Int, NEW q \in Seq(S), TopFirst(q), NEW p \in S
    PROVE  LET r == ByPriority(q, p) IN
           r \in Seq(S) /\ TopFirst(r) /\ GrowsBy(r, q, p)
<1> DEFINE A == {n \in DOMAIN q : q[n].priority >= p.priority}
           at == Cardinality(A)
           r == InsertAt(q, at + 1, p)
<1>1. Len(q) \in Nat /\ DOMAIN q = 1..Len(q) /\ \A n \in 1..Len(q) : q[n] \in S
  BY LenProperties, ElementOfSeq
<1>2. IsFiniteSet(1..Len(q)) /\ Cardinality(1..Len(q)) = Len(q)
  <2>1. IsFiniteSet(1..Len(q)) /\ Cardinality(1..Len(q)) = IF 1 > Len(q) THEN 0 ELSE Len(q) - 1 + 1
    BY <1>1, FS_Interval
  <2> QED
    BY <1>1, <2>1
<1>3. IsFiniteSet(A) /\ at \in 0..Len(q)
  <2>1. A \subseteq 1..Len(q)
    BY <1>1
  <2> HIDE DEF A
  <2>2. IsFiniteSet(A) /\ Cardinality(A) <= Len(q)
    BY <1>2, <2>1, FS_Subset
  <2>3. Cardinality(A) \in Nat
    BY <2>2, FS_CardinalityType
  <2> QED
    BY <1>1, <2>2, <2>3
<1>4. ByPriority(q, p) = r
  <2> DEFINE j == 1 + at
  <2>1. ByPriority(q, p) = InsertAt(q, j, p)
    BY DEF ByPriority
  <2>2. j = at + 1
    BY <1>3
  <2> HIDE DEF j, at
  <2> QED
    BY <2>1, <2>2
<1> HIDE DEF at
<1>5. /\ r \in Seq(S) /\ GrowsBy(r, q, p)
      /\ at = 0 => r[1] = p
      /\ at > 0 => r[1] = q[1]
  BY <1>3, InsertedIs
<1> HIDE DEF r
<1>6. \A n \in DOMAIN r : r[n] = p \/ \E m \in 1..Len(q) : r[n] = q[m]
  <2>1. \A n \in DOMAIN r : r[n] \in ToSet(r)
    BY DEF ToSet
  <2>2. \A x \in ToSet(q) : \E m \in 1..Len(q) : x = q[m]
    BY <1>1 DEF ToSet
  <2> QED
    BY <1>5, <2>1, <2>2 DEF GrowsBy
<1>7. p.priority \in Int /\ \A m \in 1..Len(q) : q[m].priority \in Int /\ q[m].priority <= q[1].priority
  BY <1>1 DEF TopFirst
<1>8. TopFirst(r)
  <2>1. CASE at = 0
    <3>1. A = {}
      BY <1>3, <2>1, FS_EmptySet DEF at
    <3>2. \A m \in 1..Len(q) : ~(q[m].priority >= p.priority)
      BY <1>1, <3>1
    <3>3. \A m \in 1..Len(q) : q[m].priority <= p.priority
      BY <1>7, <3>2
    <3>4. r[1] = p
      BY <1>5, <2>1
    <3> QED
      BY <1>6, <1>7, <3>3, <3>4 DEF TopFirst
  <2>2. CASE at # 0
    <3>1. A # {}
      BY <1>3, <2>2, FS_EmptySet DEF at
    <3>2. PICK m \in 1..Len(q) : q[m].priority >= p.priority
      BY <1>1, <3>1
    <3>3. 1 \in 1..Len(q)
      BY <1>1, <3>2
    <3>4. p.priority <= q[1].priority
      BY <1>7, <3>2, <3>3
    <3>5. r[1] = q[1]
      BY <1>3, <1>5, <2>2
    <3> QED
      BY <1>6, <1>7, <3>4, <3>5 DEF TopFirst
  <2> QED
    BY <2>1, <2>2
<1> QED
  BY <1>4, <1>5, <1>8

\* Ranking keeps every plan, as often as it was there, and puts a highest one first.
LEMMA RankedIs ==
    ASSUME NEW S, \A x \in S : x.priority \in Int, NEW plans \in Seq(S)
    PROVE  LET r == Ranked(plans) IN
           /\ r \in Seq(S) /\ Len(r) = Len(plans) /\ TopFirst(r) /\ ToSet(r) = ToSet(plans)
           /\ \A K : Len(Retain(r, K)) = Len(Retain(plans, K))
<1> DEFINE k == Len(plans)
           V == {q \in Seq(S) : TopFirst(q)}
           F == [n \in 1..k |-> [w \in V |-> ByPriority(w, plans[n])]]
           g == CHOOSE h : h = [n \in 0..k |-> IF n = 0 THEN <<>> ELSE ByPriority(h[n - 1], plans[n])]
<1>1. Ranked(plans) = g[k]
  BY DEF Ranked
<1>2. k \in Nat /\ DOMAIN plans = 1..k /\ \A n \in 1..k : plans[n] \in S
  BY LenProperties, ElementOfSeq
<1> HIDE DEF k
<1>3. <<>> \in V
  <2>1. <<>> \in Seq(S) /\ DOMAIN <<>> = {}
    OBVIOUS
  <2> QED
    BY <2>1 DEF TopFirst
<1>4. \A w \in V : \A n \in 1..k : ByPriority(w, plans[n]) \in V
  BY <1>2, ByPriorityIs
<1>5. F \in [1..k -> [V -> V]]
  <2> HIDE DEF V
  <2> QED
    BY <1>4
<1> HIDE DEF V
<1>6. PICK f \in [0..k -> V] : Iterates(f, <<>>, k, F)
  BY <1>2, <1>3, <1>5, FunctionsByRecursion
<1>7. f[0] = <<>> /\ \A n \in 1..k : f[n] = ByPriority(f[n - 1], plans[n])
  <2>1. \A n \in 1..k : f[n - 1] \in V
    BY <1>2, <1>6
  <2>2. \A n \in 1..k : F[n][f[n - 1]] = ByPriority(f[n - 1], plans[n])
    BY <2>1
  <2> HIDE DEF F
  <2> QED
    BY <1>6, <2>2 DEF Iterates
<1>8. f = [n \in 0..k |-> IF n = 0 THEN <<>> ELSE ByPriority(f[n - 1], plans[n])]
  <2>1. f = [n \in 0..k |-> f[n]]
    BY <1>6
  <2>2. \A n \in 0..k : n = 0 \/ n \in 1..k
    BY <1>2
  <2>3. \A n \in 0..k : f[n] = IF n = 0 THEN <<>> ELSE ByPriority(f[n - 1], plans[n])
    BY <1>7, <2>2
  <2> QED
    BY <2>1, <2>3
<1>9. g = [n \in 0..k |-> IF n = 0 THEN <<>> ELSE ByPriority(g[n - 1], plans[n])]
  BY <1>8
<1> HIDE DEF g
<1>10. g[0] = <<>> /\ \A n \in 1..k : g[n] = ByPriority(g[n - 1], plans[n])
  BY <1>2, <1>9
<1> DEFINE s(n) == SubSeq(plans, 1, n)
           T == {n \in 0..k : /\ g[n] \in V /\ Len(g[n]) = n /\ ToSet(g[n]) = ToSet(s(n))
                              /\ \A K : Len(Retain(g[n], K)) = Len(Retain(s(n), K))}
<1>11. 0 \in T
  <2>1. s(0) = <<>> /\ Len(<<>>) = 0
    BY SubSeqEmpty
  <2>2. g[0] = s(0) /\ 0 \in 0..k /\ g[0] \in V /\ Len(g[0]) = 0
    BY <1>2, <1>3, <1>10, <2>1
  <2> HIDE DEF s
  <2> QED
    BY <2>2
<1>12. ASSUME NEW n \in 0..(k - 1), n \in T PROVE n + 1 \in T
  <2> DEFINE m == n + 1
             p == plans[m]
  <2>1. m \in 1..k /\ m - 1 = n /\ n \in Nat /\ m \in 0..k /\ n \in 0..k
    BY <1>2
  <2>2. g[m] = ByPriority(g[n], p) /\ p \in S
    BY <1>2, <1>10, <2>1
  <2>3. g[n] \in Seq(S) /\ TopFirst(g[n]) /\ Len(g[n]) = n
    BY <1>12 DEF V
  <2>4. /\ g[m] \in Seq(S) /\ Len(g[m]) = Len(g[n]) + 1 /\ TopFirst(g[m])
        /\ ToSet(g[m]) = ToSet(g[n]) \cup {p}
        /\ \A K : Len(Retain(g[m], K)) = Len(Retain(g[n], K)) + (IF p \in K THEN 1 ELSE 0)
    <3>1. g[m] \in Seq(S) /\ TopFirst(g[m]) /\ GrowsBy(g[m], g[n], p)
      BY <2>2, <2>3, ByPriorityIs
    <3> QED
      BY <3>1 DEF GrowsBy
  <2>5. s(n) \in Seq(S) /\ s(m) = Append(s(n), p)
    BY <1>2, <2>1, PrefixGrows DEF k
  <2>6. /\ ToSet(s(m)) = ToSet(s(n)) \cup {p}
        /\ \A K : Len(Retain(s(m), K)) = Len(Retain(s(n), K)) + (IF p \in K THEN 1 ELSE 0)
    <3>1. p \in S
      BY <2>2
    <3> HIDE DEF s, p, m
    <3> QED
      BY <2>5, <3>1, AppendElements, RetainGrows
  <2>7. /\ ToSet(g[n]) = ToSet(s(n))
        /\ \A K : Len(Retain(g[n], K)) = Len(Retain(s(n), K))
    BY <1>12
  <2> HIDE DEF s, p, m
  <2> QED
    BY <2>1, <2>3, <2>4, <2>6, <2>7 DEF V, m
<1>13. k \in T
  <2> HIDE DEF T
  <2>1. \A n \in 0..(k - 1) : n \in T => n + 1 \in T
    BY <1>12
  <2>2. \A n \in 0..k : n \in T
    BY <1>2, <1>11, <2>1, NumbersUpTo, Zenon
  <2> QED
    BY <1>2, <2>2
<1>14. s(k) = plans
  BY SubSeqFull DEF k
<1> QED
  BY <1>1, <1>13, <1>14 DEF k, V

-----------------------------------------------------------------------------
(* Routing: the filter and the scores                                       *)

\* What the filter says when it turns a candidate of S away.
Refusals(S) ==
    [code : {"policy_denied", "duplicate_candidate"}, label : {c.label : c \in S}]
Filters(S) == [accepted : Seq(S), rejected : Seq(Refusals(S))]

\* A candidate that is offered is accepted, or its rejection is told.
LEMMA OfferedIs ==
    ASSUME NEW in, NEW S, NEW f \in Filters(S), NEW c \in S
    PROVE  LET r == Offered(in, f, c) IN
           /\ r \in Filters(S)
           /\ \/ c.allow /\ r.accepted = Append(f.accepted, c) /\ r.rejected = f.rejected
              \/ r.accepted = f.accepted /\ Len(r.rejected) = Len(f.rejected) + 1
<1>1. f.accepted \in Seq(S) /\ f.rejected \in Seq(Refusals(S))
  BY DEF Filters
<1>2. ASSUME c.allow
      PROVE  LET r == Accepts(f, c) IN
             r \in Filters(S) /\ r.accepted = Append(f.accepted, c) /\ r.rejected = f.rejected
  <2>1. Append(f.accepted, c) \in Seq(S)
    BY <1>1, AppendProperties
  <2> QED
    BY <1>1, <2>1 DEF Accepts, Filters
<1>3. ASSUME NEW code \in {"policy_denied", "duplicate_candidate"}
      PROVE  LET r == Rejects(f, c, code) IN
             /\ r \in Filters(S) /\ r.accepted = f.accepted
             /\ Len(r.rejected) = Len(f.rejected) + 1
  <2> DEFINE x == [code |-> code, label |-> c.label]
             q == Append(f.rejected, x)
  <2>1. x \in Refusals(S)
    BY DEF Refusals
  <2> HIDE DEF x
  <2>2. q \in Seq(Refusals(S)) /\ Len(q) = Len(f.rejected) + 1
    BY <1>1, <2>1, AppendProperties
  <2>3. Rejects(f, c, code) = [accepted |-> f.accepted, rejected |-> q]
    BY DEF Rejects, x
  <2> HIDE DEF q
  <2> QED
    BY <1>1, <2>2, <2>3 DEF Filters
<1>4. \/ Offered(in, f, c) = Rejects(f, c, "policy_denied")
      \/ Offered(in, f, c) = Rejects(f, c, "duplicate_candidate")
      \/ c.allow /\ Offered(in, f, c) = Accepts(f, c)
  BY Zenon DEF Offered
<1> QED
  BY <1>2, <1>3, <1>4

\* The filter accepts candidates whose policies allow them and tells of every other.
LEMMA FilteredIs ==
    ASSUME NEW in, NEW S, NEW C \in Seq(S)
    PROVE  LET r == Filtered(in, C) IN
           /\ r \in Filters(S) /\ Len(r.accepted) + Len(r.rejected) = Len(C)
           /\ \A c \in ToSet(r.accepted) : c \in ToSet(C) /\ c.allow
<1> DEFINE k == Len(C)
           V == Filters(S)
           v == [accepted |-> <<>>, rejected |-> <<>>]
           F == [n \in 1..k |-> [w \in V |-> Offered(in, w, C[n])]]
           g == CHOOSE h : h = [n \in 0..k |-> IF n = 0 THEN v ELSE Offered(in, h[n - 1], C[n])]
<1>1. Filtered(in, C) = g[k]
  BY DEF Filtered
<1>2. k \in Nat /\ DOMAIN C = 1..k /\ \A n \in 1..k : C[n] \in S /\ C[n] \in ToSet(C)
  BY LenProperties, ElementOfSeq DEF ToSet
<1> HIDE DEF k
<1>3. v \in V /\ v.accepted = <<>> /\ v.rejected = <<>>
  BY DEF Filters
<1>4. \A w \in V : \A n \in 1..k : Offered(in, w, C[n]) \in V
  BY <1>2, OfferedIs
<1>5. F \in [1..k -> [V -> V]]
  <2> HIDE DEF V
  <2> QED
    BY <1>4
<1> HIDE DEF V, v
<1>6. PICK f \in [0..k -> V] : Iterates(f, v, k, F)
  BY <1>2, <1>3, <1>5, FunctionsByRecursion
<1>7. f[0] = v /\ \A n \in 1..k : f[n] = Offered(in, f[n - 1], C[n])
  <2>1. \A n \in 1..k : f[n - 1] \in V
    BY <1>2, <1>6
  <2>2. \A n \in 1..k : F[n][f[n - 1]] = Offered(in, f[n - 1], C[n])
    BY <2>1
  <2> HIDE DEF F
  <2> QED
    BY <1>6, <2>2 DEF Iterates
<1>8. f = [n \in 0..k |-> IF n = 0 THEN v ELSE Offered(in, f[n - 1], C[n])]
  <2>1. f = [n \in 0..k |-> f[n]]
    BY <1>6
  <2>2. \A n \in 0..k : n = 0 \/ n \in 1..k
    BY <1>2
  <2>3. \A n \in 0..k : f[n] = IF n = 0 THEN v ELSE Offered(in, f[n - 1], C[n])
    BY <1>7, <2>2
  <2> QED
    BY <2>1, <2>3
<1>9. g = [n \in 0..k |-> IF n = 0 THEN v ELSE Offered(in, g[n - 1], C[n])]
  BY <1>8
<1> HIDE DEF g
<1>10. g[0] = v /\ \A n \in 1..k : g[n] = Offered(in, g[n - 1], C[n])
  BY <1>2, <1>9
<1> DEFINE Ok(x, n) == /\ x \in V /\ Len(x.accepted) + Len(x.rejected) = n
                       /\ \A c \in ToSet(x.accepted) : c \in ToSet(C) /\ c.allow
           T == {n \in 0..k : Ok(g[n], n)}
<1>11. 0 \in T
  <2>1. Len(<<>>) = 0 /\ ToSet(<<>>) = {}
    BY DEF ToSet
  <2>2. ToSet(v.accepted) = {}
    BY <1>3, <2>1
  <2>3. Len(v.accepted) = 0 /\ Len(v.rejected) = 0
    BY <1>3, <2>1
  <2>4. Len(v.accepted) + Len(v.rejected) = 0
    BY <2>3
  <2>5. Ok(v, 0)
    BY <1>3, <2>2, <2>4
  <2> HIDE DEF Ok
  <2> QED
    BY <1>2, <1>10, <2>5
<1>12. ASSUME NEW n \in 0..(k - 1), n \in T PROVE n + 1 \in T
  <2> DEFINE m == n + 1
             x == g[n]
             y == g[m]
             c == C[m]
  <2>1. m \in 1..k /\ m - 1 = n /\ n \in Nat /\ m \in 0..k
    BY <1>2
  <2>2. y = Offered(in, x, c) /\ c \in S /\ c \in ToSet(C)
    BY <1>2, <1>10, <2>1
  <2>3. Ok(x, n)
    BY <1>12
  <2> HIDE DEF x, y, c
  <2>4. /\ y \in V
        /\ \/ c.allow /\ y.accepted = Append(x.accepted, c) /\ y.rejected = x.rejected
           \/ y.accepted = x.accepted /\ Len(y.rejected) = Len(x.rejected) + 1
    BY <2>2, <2>3, OfferedIs DEF V
  <2>5. x.accepted \in Seq(S) /\ Len(x.accepted) \in Nat /\ Len(x.rejected) \in Nat
    BY <2>3, LenProperties DEF V, Filters
  <2>6. /\ Len(Append(x.accepted, c)) = Len(x.accepted) + 1
        /\ ToSet(Append(x.accepted, c)) = ToSet(x.accepted) \cup {c}
    BY <2>2, <2>5, AppendProperties, AppendElements
  <2> HIDE DEF m
  <2>7. Len(y.accepted) + Len(y.rejected) = n + 1
    <3> DEFINE a == Len(x.accepted)
               b == Len(x.rejected)
    <3>1. a + b = n /\ a \in Nat /\ b \in Nat
      BY <2>3, <2>5
    <3>2. \/ Len(y.accepted) = a + 1 /\ Len(y.rejected) = b
          \/ Len(y.accepted) = a /\ Len(y.rejected) = b + 1
      BY <2>4, <2>6
    <3> HIDE DEF a, b, Ok
    <3>3. (a + 1) + b = n + 1 /\ a + (b + 1) = n + 1
      BY <3>1
    <3> QED
      BY <3>2, <3>3, Zenon
  <2>8. \A d \in ToSet(y.accepted) : d \in ToSet(C) /\ d.allow
    BY <2>2, <2>3, <2>4, <2>6
  <2> QED
    BY <2>1, <2>4, <2>7, <2>8 DEF y, m
<1>13. k \in T
  <2> HIDE DEF T
  <2>1. \A n \in 0..(k - 1) : n \in T => n + 1 \in T
    BY <1>12
  <2>2. \A n \in 0..k : n \in T
    BY <1>2, <1>11, <2>1, NumbersUpTo, Zenon
  <2> QED
    BY <1>2, <2>2
<1> QED
  BY <1>1, <1>13 DEF k, V

\* A clamped priority is a number.
LEMMA ClampIs ==
    ASSUME NEW n \in Int
    PROVE  Clamp(n) \in Int
BY DEF Clamp

\* The three shares of the pressure have a greatest.
LEMMA PressureIs ==
    ASSUME NEW in, IsInput(in), NEW c \in RouteCandidates
    PROVE  Pressure(in, c) \in Int
<1> DEFINE over(spent, most) == IF most > 0 /\ spent > most THEN ((spent - most) * 100) \div most ELSE 0
           all == {over(c.tokens, in.maxTokens), over(c.walltime, in.maxWalltime), over(c.cost, in.maxCost)}
<1>1. \A spent, most \in Int : over(spent, most) \in Int
  OBVIOUS
<1>2. /\ c.tokens \in Int /\ c.walltime \in Int /\ c.cost \in Int
      /\ in.maxTokens \in Int /\ in.maxWalltime \in Int /\ in.maxCost \in Int
  BY DEF RouteCandidates, IsInput
<1>3. PICK x, y, z \in Int : all = {x, y, z}
  <2> HIDE DEF over
  <2> QED
    BY <1>1, <1>2
<1>4. \E p \in {x, y, z} : \A q \in {x, y, z} : q <= p
  OBVIOUS
<1>5. Pressure(in, c) = CHOOSE p \in all : \A q \in all : q <= p
  BY DEF Pressure
<1> HIDE DEF all
<1>6. Pressure(in, c) \in {x, y, z}
  BY <1>3, <1>4, <1>5
<1> QED
  BY <1>6

\* The score changes a candidate's priority and nothing else.
LEMMA ScoredIs ==
    ASSUME NEW in, IsInput(in), NEW c \in RouteCandidates
    PROVE  LET r == Scored(in, c) IN
           /\ r \in RouteCandidates /\ r.label = c.label /\ r.fork = c.fork
           /\ Valid(r) <=> Valid(c)
<1>1. Pressure(in, c) \in Int
  BY PressureIs
<1> DEFINE a == c.priority
           b == Bias[c.fork]
           n == Clamp(a + b + (20 * in.clarity) \div 100 + (30 * in.alignment) \div 100
                      - (40 * c.risk) \div 100 - (30 * Pressure(in, c)) \div 100 + c.jitter)
           r == [c EXCEPT !.priority = n]
<1>2. a \in Int /\ c.risk \in Int /\ c.jitter \in Int /\ c.fork \in Forks
  BY DEF RouteCandidates
<1>3. in.clarity \in Int /\ in.alignment \in Int
  BY DEF IsInput
<1>4. b \in Int
  BY <1>2 DEF Bias, Forks
<1>5. Scored(in, c) = r
  BY DEF Scored
<1>6. n \in Int
  <2> HIDE DEF a, b
  <2>1. \A k \in Int : k \div 100 \in Int
    OBVIOUS
  <2>2. /\ (20 * in.clarity) \div 100 \in Int /\ (30 * in.alignment) \div 100 \in Int
        /\ (40 * c.risk) \div 100 \in Int /\ (30 * Pressure(in, c)) \div 100 \in Int
    BY <1>1, <1>2, <1>3, <2>1
  <2> QED
    BY <1>2, <1>4, <2>2, ClampIs
<1> HIDE DEF n
<1>7. r \in RouteCandidates
  BY <1>6 DEF RouteCandidates
<1>8. /\ r.label = c.label /\ r.fork = c.fork /\ r.markedInvalid = c.markedInvalid /\ r.plan = c.plan
  BY DEF RouteCandidates
<1> HIDE DEF r
<1>9. Valid(r) <=> Valid(c)
  BY <1>8, Zenon DEF Valid
<1> QED
  BY <1>5, <1>7, <1>8, <1>9

-----------------------------------------------------------------------------
(* Routing: the stages of an evaluation                                     *)

\* What passes the gates, what does not, and what the filter and the scorer, the
\* limit and the planner make of it.
Passing(in) ==
    LET C == Candidates(in) IN Retain(C, {c \in ToSet(C) : Blocks(in, c) = "no"})
Blocked(in) ==
    LET C == Candidates(in) IN
    Rejections(Retain(C, {c \in ToSet(C) : Blocks(in, c) # "no"}), [c \in ToSet(C) |-> Blocks(in, c)])
Early(in) == Blocked(in) \o Filtered(in, Passing(in)).rejected
ScoresOf(in, accepted) == [n \in DOMAIN accepted |-> Scored(in, accepted[n])]
Scores(in) == Ranked(ScoresOf(in, Filtered(in, Passing(in)).accepted))
Most(in) ==
    IF in.maxCandidates > 0 /\ Len(Scores(in)) > in.maxCandidates
    THEN in.maxCandidates ELSE Len(Scores(in))
KeptOf(in) == SubSeq(Scores(in), 1, Most(in))
PrunedOf(in) ==
    Rejections(SubSeq(Scores(in), Most(in) + 1, Len(Scores(in))),
               [c \in ToSet(Scores(in)) |-> "max_candidates_pruned"])
InvalidOf(in) ==
    Rejections(Retain(KeptOf(in), {c \in ToSet(KeptOf(in)) : ~Valid(c)}),
               [c \in ToSet(KeptOf(in)) |-> "plan_invalid"])
ValidOf(in) == Retain(KeptOf(in), {c \in ToSet(KeptOf(in)) : Valid(c)})
OwnPlans(in, entry, t) == [n \in DOMAIN ValidOf(in) |-> Adjusted(entry, t, Plan(ValidOf(in)[n]))]

\* An evaluation goes through them.
LEMMA EvaluationIs ==
    ASSUME NEW in, NEW entry, NEW t
    PROVE  Evaluated(in, entry, t) =
             IF Filtered(in, Passing(in)).accepted = <<>>
             THEN Alone(entry, t, Early(in), "empty_catalog")
             ELSE IF ValidOf(in) = <<>>
             THEN Alone(entry, t, Early(in) \o PrunedOf(in) \o InvalidOf(in), "invalid_plan")
             ELSE [plans |-> Ranked(Budgeted(in, OwnPlans(in, entry, t))),
                   rejected |-> Early(in) \o PrunedOf(in) \o InvalidOf(in)
                                  \o OverBudget(in, OwnPlans(in, entry, t))]
<1>1. Evaluated(in, entry, t) =
        AfterFilter(in, entry, t, Early(in), Filtered(in, Passing(in)).accepted)
  BY Zenon DEF Evaluated, Gated, Stopped, Passing, Blocked, Early
<1>2. \A rejected : AfterScoring(in, entry, t, rejected, Scores(in)) =
        AfterValidation(in, entry, t, rejected \o PrunedOf(in) \o InvalidOf(in), ValidOf(in))
  BY Zenon DEF AfterScoring, AfterPruning, Most, KeptOf, PrunedOf, InvalidOf, ValidOf
<1>3. AfterFilter(in, entry, t, Early(in), Filtered(in, Passing(in)).accepted) =
        IF Filtered(in, Passing(in)).accepted = <<>>
        THEN Alone(entry, t, Early(in), "empty_catalog")
        ELSE AfterScoring(in, entry, t, Early(in), Scores(in))
  BY Zenon DEF AfterFilter, ScoresOf, Scores
<1>4. \A rejected : AfterValidation(in, entry, t, rejected, ValidOf(in)) =
        IF ValidOf(in) = <<>> THEN Alone(entry, t, rejected, "invalid_plan")
        ELSE [plans |-> Ranked(Budgeted(in, OwnPlans(in, entry, t))),
              rejected |-> rejected \o OverBudget(in, OwnPlans(in, entry, t))]
  BY Zenon DEF AfterValidation, OwnPlans
<1> QED
  BY <1>1, <1>2, <1>3, <1>4, Zenon

\* A rejection for each that is turned away.
LEMMA RejectionsAre ==
    ASSUME NEW S, NEW s \in Seq(S), NEW why
    PROVE  Listing(Rejections(s, why)) /\ Len(Rejections(s, why)) = Len(s)
<1> DEFINE r == Rejections(s, why)
<1>1. DOMAIN s = 1..Len(s) /\ Len(s) \in Nat
  BY LenProperties
<1>2. r = [n \in 1..Len(s) |-> [code |-> why[s[n]], label |-> s[n].label]]
  BY <1>1 DEF Rejections
<1>3. r = [n \in 1..Len(s) |-> r[n]]
  BY <1>2
<1> HIDE DEF r
<1> QED
  BY <1>1, <1>3, FunctionLists DEF r

\* The candidates of a call.
LEMMA CandidatesAre ==
    ASSUME NEW in, IsInput(in)
    PROVE  Candidates(in) \in Seq(RouteCandidates)
<1>1. in.candidates \in Seq(RouteCandidates) /\ in.catalog \in Seq(RouteCandidates)
  BY DEF IsInput
<1> QED
  BY <1>1, RetainType DEF Candidates

\* What may come of a candidate: it is one, with another priority.
Admitted(in, v) ==
    \E m \in DOMAIN Candidates(in) :
        LET c == Candidates(in)[m] IN
        /\ c.label = v.label /\ c.fork = v.fork
        /\ Blocks(in, c) = "no" /\ c.allow /\ (Valid(v) <=> Valid(c))

\* Gate, filter and scores: what they let through and what they turn away is all there is.
LEMMA ScoresAre ==
    ASSUME NEW in, IsInput(in)
    PROVE  /\ Listing(Early(in)) /\ Scores(in) \in Seq(RouteCandidates)
           /\ Len(Candidates(in)) = Len(Early(in)) + Len(Scores(in))
           /\ Filtered(in, Passing(in)).accepted = <<>> => Len(Scores(in)) = 0
           /\ \A v \in ToSet(Scores(in)) : Admitted(in, v)
<1> DEFINE C == Candidates(in)
           S == RouteCandidates
           A == {c \in ToSet(C) : Blocks(in, c) = "no"}
           B == {c \in ToSet(C) : Blocks(in, c) # "no"}
           p == Passing(in)
           f == Filtered(in, p)
           a == f.accepted
           q == ScoresOf(in, a)
<1>1. C \in Seq(S)
  BY CandidatesAre
<1>2. p = Retain(C, A) /\ Listing(Blocked(in)) /\ Len(Blocked(in)) = Len(Retain(C, B))
  <2>1. p = Retain(C, A)
    BY DEF Passing
  <2>2. Blocked(in) = Rejections(Retain(C, B), [c \in ToSet(C) |-> Blocks(in, c)])
    BY DEF Blocked
  <2>3. Retain(C, B) \in Seq(S)
    BY <1>1, RetainType
  <2> HIDE DEF C, S, A, B
  <2> QED
    BY <2>1, <2>2, <2>3, RejectionsAre
<1>3. p \in Seq(S) /\ ToSet(p) = ToSet(C) \cap A
  <2> HIDE DEF A, C, S
  <2> QED
    <3>1. Retain(C, A) \in Seq(S) /\ ToSet(Retain(C, A)) = ToSet(C) \cap A
      BY <1>1, RetainType, RetainElements
    <3> HIDE DEF p
    <3> QED
      BY <1>2, <3>1
<1>4. Len(p) + Len(Blocked(in)) = Len(C)
  <2>1. \A x \in ToSet(C) : (x \in A) <=> (x \notin B)
    OBVIOUS
  <2> HIDE DEF A, B, C, S
  <2>2. Len(Retain(C, A)) + Len(Retain(C, B)) = Len(C)
    BY <1>1, <2>1, RetainParts
  <2> QED
    BY <1>2, <2>2
<1>5. /\ f \in Filters(S) /\ Len(a) + Len(f.rejected) = Len(p)
      /\ \A c \in ToSet(a) : c \in ToSet(p) /\ c.allow
  <2> HIDE DEF p, S
  <2> QED
    BY <1>3, FilteredIs
<1> HIDE DEF S
<1>6. a \in Seq(S) /\ Listing(f.rejected) /\ DOMAIN a = 1..Len(a) /\ Len(a) \in Nat
  <2>1. a \in Seq(S) /\ f.rejected \in Seq(Refusals(S))
    BY <1>5 DEF Filters
  <2> HIDE DEF a, f
  <2> QED
    BY <2>1, ListingOf
<1>7. Listing(Early(in)) /\ Len(Early(in)) = Len(Blocked(in)) + Len(f.rejected)
  <2>1. Early(in) = Blocked(in) \o f.rejected
    BY DEF Early
  <2> HIDE DEF f
  <2> QED
    BY <1>2, <1>6, <2>1, ConcatLists
<1> HIDE DEF a
<1>8. \A n \in 1..Len(a) : q[n] = Scored(in, a[n]) /\ a[n] \in S /\ a[n] \in ToSet(a)
  BY <1>6, ElementOfSeq DEF ScoresOf, ToSet
<1>9. q \in Seq(S) /\ Len(q) = Len(a) /\ DOMAIN q = 1..Len(a)
  <2>1. q = [n \in 1..Len(a) |-> q[n]]
    BY <1>6 DEF ScoresOf
  <2>2. \A n \in 1..Len(a) : q[n] \in S
    BY <1>8, ScoredIs DEF S
  <2> HIDE DEF q
  <2>3. q \in [1..Len(a) -> S]
    BY <2>1, <2>2
  <2>4. q \in Seq(S)
    BY <1>6, <2>3
  <2> QED
    BY <1>6, <2>3, <2>4, LenProperties
<1>10. Scores(in) \in Seq(S) /\ Len(Scores(in)) = Len(a) /\ ToSet(Scores(in)) = ToSet(q)
  <2>1. \A x \in S : x.priority \in Int
    BY DEF S, RouteCandidates
  <2>2. Scores(in) = Ranked(q)
    BY DEF Scores, a
  <2> HIDE DEF q
  <2> QED
    BY <1>9, <2>1, <2>2, RankedIs
<1>11. ASSUME NEW v \in ToSet(Scores(in)) PROVE Admitted(in, v)
  <2>1. v \in ToSet(q)
    BY <1>10
  <2>2. PICK n \in 1..Len(a) : v = q[n]
    <3> HIDE DEF q
    <3> QED
      BY <1>9, <2>1 DEF ToSet
  <2> DEFINE c == a[n]
  <2>3. v = Scored(in, c) /\ c \in S /\ c \in ToSet(p) /\ c.allow
    BY <1>5, <1>8, <2>2 DEF a
  <2> HIDE DEF c
  <2>4. v.label = c.label /\ v.fork = c.fork /\ (Valid(v) <=> Valid(c))
    BY <2>3, ScoredIs DEF S
  <2>5. c \in ToSet(C) /\ Blocks(in, c) = "no"
    BY <1>3, <2>3
  <2>6. PICK m \in DOMAIN C : C[m] = c
    BY <2>5 DEF ToSet
  <2> QED
    BY <2>3, <2>4, <2>5, <2>6 DEF Admitted
<1>12. Len(Candidates(in)) = Len(Early(in)) + Len(Scores(in))
  <2>1. /\ Len(Blocked(in)) \in Nat /\ Len(f.rejected) \in Nat
    BY <1>2, <1>6, ListingIs
  <2> DEFINE b == Len(Blocked(in))
             r == Len(f.rejected)
             n == Len(a)
  <2>2. /\ b \in Nat /\ r \in Nat /\ n \in Nat /\ n + r = Len(p) /\ Len(p) + b = Len(C)
        /\ Len(Early(in)) = b + r /\ Len(Scores(in)) = n
    BY <1>4, <1>5, <1>6, <1>7, <1>10, <2>1 DEF a
  <2> HIDE DEF b, r, n, p, C
  <2>3. (n + r) + b = (b + r) + n
    BY <2>2
  <2>4. Len(C) = (b + r) + n
    BY <2>2, <2>3
  <2> QED
    BY <2>2, <2>4 DEF C
<1>13. a = <<>> => Len(Scores(in)) = 0
  <2>1. Len(<<>>) = 0
    OBVIOUS
  <2> QED
    BY <1>10, <2>1
<1> QED
  BY <1>7, <1>10, <1>11, <1>12, <1>13 DEF S, a

\* The planner: what is kept, pruned, valid and not is all there is.
LEMMA StagesAre ==
    ASSUME NEW in, IsInput(in)
    PROVE  /\ Listing(Early(in)) /\ Listing(PrunedOf(in)) /\ Listing(InvalidOf(in))
           /\ ValidOf(in) \in Seq(RouteCandidates)
           /\ Len(Candidates(in)) =
                 Len(Early(in)) + Len(PrunedOf(in)) + Len(InvalidOf(in)) + Len(ValidOf(in))
           /\ Filtered(in, Passing(in)).accepted = <<>> => Len(Candidates(in)) = Len(Early(in))
           /\ \A v \in ToSet(ValidOf(in)) : Admitted(in, v) /\ Valid(v)
<1> DEFINE S == RouteCandidates
           q == Scores(in)
           n == Most(in)
           k == KeptOf(in)
           x == SubSeq(q, n + 1, Len(q))
           A == {c \in ToSet(k) : Valid(c)}
           B == {c \in ToSet(k) : ~Valid(c)}
<1>1. /\ Listing(Early(in)) /\ q \in Seq(S) /\ Len(Candidates(in)) = Len(Early(in)) + Len(q)
      /\ Filtered(in, Passing(in)).accepted = <<>> => Len(q) = 0
      /\ \A v \in ToSet(q) : Admitted(in, v)
  BY ScoresAre
<1>2. Len(q) \in Nat /\ in.maxCandidates \in Nat
  BY <1>1, LenProperties DEF IsInput
<1>3. n \in Nat /\ n <= Len(q)
  BY <1>2 DEF Most
<1> HIDE DEF S, q, n
<1>4. k = SubSeq(q, 1, n) /\ PrunedOf(in) = Rejections(x, [c \in ToSet(q) |-> "max_candidates_pruned"])
  BY DEF KeptOf, PrunedOf, q, n
<1>5. /\ k \in Seq(S) /\ x \in Seq(S) /\ Len(k) = n /\ Len(x) = Len(q) - n
      /\ ToSet(k) \subseteq ToSet(q)
  BY <1>1, <1>3, <1>4, PartsOf
<1>6. /\ InvalidOf(in) = Rejections(Retain(k, B), [c \in ToSet(k) |-> "plan_invalid"])
      /\ ValidOf(in) = Retain(k, A)
  BY DEF InvalidOf, ValidOf
<1> HIDE DEF k, x
<1>7. \A e \in ToSet(k) : (e \in A) <=> (e \notin B)
  OBVIOUS
<1>8. ToSet(k) \cap A \subseteq ToSet(q) /\ \A v \in ToSet(k) \cap A : Valid(v)
  BY <1>5
<1> HIDE DEF A, B
<1>9. Len(Retain(k, A)) + Len(Retain(k, B)) = Len(k)
  BY <1>5, <1>7, RetainParts
<1>10. Retain(k, A) \in Seq(S) /\ Retain(k, B) \in Seq(S) /\ ToSet(Retain(k, A)) = ToSet(k) \cap A
  BY <1>5, RetainType, RetainElements
<1>11. Listing(PrunedOf(in)) /\ Len(PrunedOf(in)) = Len(q) - n
  BY <1>4, <1>5, RejectionsAre
<1>12. Listing(InvalidOf(in)) /\ Len(InvalidOf(in)) = Len(Retain(k, B))
  BY <1>6, <1>10, RejectionsAre
<1>13. Len(Retain(k, A)) \in Nat /\ Len(Retain(k, B)) \in Nat /\ Len(Early(in)) \in Nat
  BY <1>1, <1>10, LenProperties, ListingIs
<1>14. Len(Candidates(in)) =
          Len(Early(in)) + Len(PrunedOf(in)) + Len(InvalidOf(in)) + Len(ValidOf(in))
  <2> DEFINE a == Len(Retain(k, A))
             b == Len(Retain(k, B))
             e == Len(Early(in))
             l == Len(q)
  <2>1. /\ a + b = n /\ a \in Nat /\ b \in Nat /\ e \in Nat /\ l \in Nat
        /\ Len(Candidates(in)) = e + l /\ Len(PrunedOf(in)) = l - n
        /\ Len(InvalidOf(in)) = b /\ Len(ValidOf(in)) = a /\ Len(Early(in)) = e
    BY <1>1, <1>2, <1>5, <1>6, <1>9, <1>11, <1>12, <1>13
  <2> HIDE DEF a, b, e, l
  <2>2. e + l = e + (l - n) + b + a
    BY <1>3, <2>1
  <2> QED
    BY <2>1, <2>2
<1>15. Filtered(in, Passing(in)).accepted = <<>> => Len(Candidates(in)) = Len(Early(in))
  BY <1>1, <1>13
<1> QED
  BY <1>1, <1>6, <1>8, <1>10, <1>11, <1>12, <1>14, <1>15 DEF S

-----------------------------------------------------------------------------
(* Routing: plans                                                           *)

\* The plans an evaluation may make, with these labels, reasons and oscillations.
PlansOf(L, W, O) ==
    [label : L, fork : Forks, priority : Int, tokens : Int, walltime : Int, cost : Int,
     reason : W, fallback : BOOLEAN, oscillation : O]

\* A candidate's own plan.
LEMMA PlanIs ==
    ASSUME NEW c \in RouteCandidates, NEW L, NEW W, NEW O, c.label \in L, "none" \in W, 0 \in O
    PROVE  LET p == Plan(c) IN
           p \in PlansOf(L, W, O) /\ p.label = c.label /\ p.fork = c.fork /\ ~p.fallback
<1> DEFINE no == FALSE
           p == [label |-> c.label, fork |-> c.fork, priority |-> c.priority, tokens |-> c.tokens,
                 walltime |-> c.walltime, cost |-> c.cost, reason |-> "none", fallback |-> no,
                 oscillation |-> 0]
<1>1. no \in BOOLEAN /\ ~no
  OBVIOUS
<1>2. Plan(c) = p
  BY DEF Plan
<1>3. /\ c.fork \in Forks /\ c.priority \in Int /\ c.tokens \in Int /\ c.walltime \in Int
      /\ c.cost \in Int
  BY DEF RouteCandidates
<1> HIDE DEF no
<1>4. p \in PlansOf(L, W, O)
  BY <1>1, <1>3 DEF PlansOf
<1>5. p.label = c.label /\ p.fork = c.fork /\ p.fallback = no
  OBVIOUS
<1> HIDE DEF p
<1>6. ~p.fallback
  BY <1>1, <1>5, Zenon
<1> QED
  BY <1>2, <1>4, <1>5, <1>6

\* A fallback.
LEMMA FallbackIs ==
    ASSUME NEW fork \in {"self", "clarify"}, NEW why, NEW L, NEW W, NEW O,
           "fallback_" \o fork \in L, why \in W, 0 \in O
    PROVE  LET p == Fallback(fork, why) IN p \in PlansOf(L, W, O) /\ p.fallback
<1> DEFINE yes == TRUE
           name == "fallback_" \o fork
           n == IF fork = "self" THEN 40 ELSE 50
           p == [label |-> name, fork |-> fork, priority |-> n,
                 tokens |-> 0, walltime |-> 0, cost |-> 0, reason |-> why, fallback |-> yes, oscillation |-> 0]
<1>1. yes \in BOOLEAN /\ yes /\ n \in Int /\ name \in L /\ fork \in Forks
  BY DEF Forks
<1>2. Fallback(fork, why) = p
  BY DEF Fallback
<1> HIDE DEF yes, name, n
<1>3. p \in PlansOf(L, W, O)
  BY <1>1 DEF PlansOf
<1>4. p.fallback = yes
  OBVIOUS
<1> HIDE DEF p
<1>5. p.fallback
  BY <1>1, <1>4, Zenon
<1> QED
  BY <1>2, <1>3, <1>5

\* The history changes how high a plan ranks, and tells the oscillation.
LEMMA AdjustedIs ==
    ASSUME NEW entry, NEW t, NEW L, NEW W, NEW O, NEW p \in PlansOf(L, W, O),
           entry.oscillation \in O, entry.oscillation + 1 \in O
    PROVE  LET r == Adjusted(entry, t, p) IN
           /\ r \in PlansOf(L, W, O)
           /\ r.label = p.label /\ r.fork = p.fork /\ r.fallback = p.fallback
<1> DEFINE To(n, o) == [p EXCEPT !.priority = n, !.oscillation = o]
           up == Clamp(p.priority + Bonus)
           down == Clamp(p.priority - Penalty)
           same == entry.oscillation
           more == entry.oscillation + 1
<1>1. up \in Int /\ down \in Int
  <2>1. p.priority \in Int /\ Bonus \in Int /\ Penalty \in Int
    BY RoutingAssumption DEF PlansOf, RoutingAssumption
  <2> QED
    BY <2>1, ClampIs
<1>2. \/ Adjusted(entry, t, p) = p
      \/ Adjusted(entry, t, p) = To(up, same)
      \/ Adjusted(entry, t, p) = To(down, more)
  BY Zenon DEF Adjusted
<1>3. ASSUME NEW n \in Int, NEW o \in O
      PROVE  /\ To(n, o) \in PlansOf(L, W, O)
             /\ To(n, o).label = p.label /\ To(n, o).fork = p.fork
             /\ To(n, o).fallback = p.fallback
  BY DEF PlansOf
<1>4. same \in O /\ more \in O
  OBVIOUS
<1> HIDE DEF To, up, down, same, more
<1> QED
  BY <1>1, <1>2, <1>3, <1>4

\* What the budget makes of a plan: one that is no fallback keeps its candidate, and
\* is over the budget only when it reasons.
LEMMA InBudgetIs ==
    ASSUME NEW in, NEW L, NEW W, NEW O, NEW p \in PlansOf(L, W, O), ~p.fallback,
           {"fallback_" \o "clarify", "fallback_" \o "self"} \subseteq L,
           Exceeds(in, p) \in W, 0 \in O
    PROVE  LET b == InBudget(in, p) IN
           /\ b \in PlansOf(L, W, O)
           /\ b.fallback => Exceeds(in, p) # "no"
           /\ ~b.fallback => /\ b.label = p.label /\ b.fork = p.fork
                             /\ Exceeds(in, b) = Exceeds(in, p)
                             /\ Exceeds(in, b) # "no" => b.fork = "self"
<1> DEFINE why == Exceeds(in, p)
           q == [p EXCEPT !.reason = why]
<1>1. p.fork \in Forks
  BY DEF PlansOf
<1>2. /\ q \in PlansOf(L, W, O) /\ q.label = p.label /\ q.fork = p.fork /\ q.fallback = p.fallback
      /\ q.tokens = p.tokens /\ q.walltime = p.walltime /\ q.cost = p.cost
  <2>1. why \in W
    OBVIOUS
  <2> HIDE DEF why
  <2> QED
    BY <2>1 DEF PlansOf
<1>3. /\ Fallback("clarify", why) \in PlansOf(L, W, O) /\ Fallback("clarify", why).fallback
      /\ Fallback("self", why) \in PlansOf(L, W, O) /\ Fallback("self", why).fallback
  <2> HIDE DEF q
  <2> QED
    BY FallbackIs
<1>4. \/ why = "no" /\ InBudget(in, p) = p
      \/ why # "no" /\ InBudget(in, p) = Fallback("clarify", why)
      \/ why # "no" /\ InBudget(in, p) = Fallback("self", why)
      \/ why # "no" /\ p.fork \notin {"clarify", "tool", "collab"} /\ InBudget(in, p) = q
  BY Zenon DEF InBudget
<1> HIDE DEF q
<1>5. Exceeds(in, q) = Exceeds(in, p)
  BY <1>2, Zenon DEF Exceeds
<1>6. p.fork \notin {"clarify", "tool", "collab"} => p.fork = "self"
  BY <1>1 DEF Forks
<1>7. CASE why = "no" /\ InBudget(in, p) = p
  BY <1>7
<1>8. CASE why # "no" /\ InBudget(in, p) = Fallback("clarify", why)
  BY <1>3, <1>8
<1>9. CASE why # "no" /\ InBudget(in, p) = Fallback("self", why)
  BY <1>3, <1>9
<1>10. CASE why # "no" /\ p.fork \notin {"clarify", "tool", "collab"} /\ InBudget(in, p) = q
  BY <1>2, <1>5, <1>6, <1>10
<1> QED
  BY <1>4, <1>7, <1>8, <1>9, <1>10

-----------------------------------------------------------------------------
(* Routing: the budget                                                      *)

\* Of the plans, those that are no fallback, and those over the budget.
OwnOf(S) == {p \in S : ~p.fallback}
Over(in, S) == {p \in S : Exceeds(in, p) # "no"}

\* The budget makes plans of R of those of S.
CanBe(in, S, R) == \A p \in S : InBudget(in, p) \in R

\* b is what the budget makes of q.
IsBudgeted(in, b, q) == Len(b) = Len(q) /\ \A n \in 1..Len(q) : b[n] = InBudget(in, q[n])

\* The budget, and what is told of it, plan by plan.
LEMMA BudgetedIs ==
    ASSUME NEW in, NEW S, NEW R, NEW q \in Seq(S), CanBe(in, S, R)
    PROVE  /\ Budgeted(in, q) \in Seq(R) /\ IsBudgeted(in, Budgeted(in, q), q)
           /\ \A b \in ToSet(Budgeted(in, q)) : \E p \in ToSet(q) : b = InBudget(in, p)
<1> DEFINE b == Budgeted(in, q)
<1>1. DOMAIN q = 1..Len(q) /\ Len(q) \in Nat /\ \A n \in 1..Len(q) : q[n] \in S /\ q[n] \in ToSet(q)
  BY LenProperties, ElementOfSeq DEF ToSet
<1>2. b = [n \in 1..Len(q) |-> InBudget(in, q[n])]
  BY <1>1 DEF Budgeted
<1>3. b \in [1..Len(q) -> R]
  BY <1>1, <1>2 DEF CanBe
<1>4. b \in Seq(R) /\ Len(b) = Len(q) /\ DOMAIN b = 1..Len(q)
  <2>1. b \in Seq(R)
    BY <1>1, <1>3
  <2> HIDE DEF b
  <2> QED
    BY <1>1, <1>3, <2>1, LenProperties
<1>5. \A x \in ToSet(b) : \E p \in ToSet(q) : x = InBudget(in, p)
  <2> TAKE x \in ToSet(b)
  <2>1. PICK n \in 1..Len(q) : x = b[n]
    <3> HIDE DEF b
    <3> QED
      BY <1>4 DEF ToSet
  <2> QED
    BY <1>1, <1>2, <2>1
<1> QED
  BY <1>2, <1>4, <1>5 DEF IsBudgeted

\* The budget takes the plans one by one.
LEMMA BudgetedAppend ==
    ASSUME NEW in, NEW S, NEW R, NEW q \in Seq(S), NEW e \in S, CanBe(in, S, R)
    PROVE  Budgeted(in, Append(q, e)) = Append(Budgeted(in, q), InBudget(in, e))
<1> DEFINE r == Append(q, e)
           a == Budgeted(in, r)
           b == Budgeted(in, q)
           x == InBudget(in, e)
           c == Append(b, x)
<1>1. /\ r \in Seq(S) /\ Len(r) = Len(q) + 1 /\ Len(q) \in Nat
      /\ (\A n \in 1..Len(q) : r[n] = q[n]) /\ r[Len(q) + 1] = e
  BY AppendProperties, LenProperties
<1> HIDE DEF r
<1>2. a \in Seq(R) /\ Len(a) = Len(q) + 1 /\ \A n \in 1..(Len(q) + 1) : a[n] = InBudget(in, r[n])
  <2>1. a \in Seq(R) /\ IsBudgeted(in, a, r)
    BY <1>1, BudgetedIs
  <2> HIDE DEF a
  <2> QED
    BY <1>1, <2>1 DEF IsBudgeted
<1>3. b \in Seq(R) /\ Len(b) = Len(q) /\ \A n \in 1..Len(q) : b[n] = InBudget(in, q[n])
  <2>1. b \in Seq(R) /\ IsBudgeted(in, b, q)
    BY BudgetedIs
  <2> HIDE DEF b
  <2> QED
    BY <2>1 DEF IsBudgeted
<1>4. x \in R
  BY DEF CanBe
<1> HIDE DEF a, b, x
<1>5. /\ c \in Seq(R) /\ Len(c) = Len(q) + 1
      /\ (\A n \in 1..Len(q) : c[n] = b[n]) /\ c[Len(q) + 1] = x
  BY <1>3, <1>4, AppendProperties
<1> HIDE DEF c
<1>6. \A n \in 1..(Len(q) + 1) : a[n] = c[n]
  <2> TAKE n \in 1..(Len(q) + 1)
  <2>1. n \in 1..Len(q) \/ n = Len(q) + 1
    BY <1>1
  <2>2. CASE n \in 1..Len(q)
    BY <1>1, <1>2, <1>3, <1>5, <2>2
  <2>3. CASE n = Len(q) + 1
    <3>1. a[n] = InBudget(in, e)
      BY <1>1, <1>2, <2>3
    <3> QED
      BY <1>5, <2>3, <3>1 DEF x
  <2> QED
    BY <2>1, <2>2, <2>3
<1>7. a = c
  BY <1>2, <1>5, <1>6, SeqEqual
<1> QED
  BY <1>7 DEF a, b, c, r, x

\* Of the plans of S the budget makes plans of S: their own or, if they are over it, a
\* fallback, unless they reason.
KeepsBudget(in, S) ==
    \A p \in S : ~p.fallback =>
        /\ InBudget(in, p) \in S
        /\ InBudget(in, p).fallback => Exceeds(in, p) # "no"
        /\ ~InBudget(in, p).fallback =>
              /\ InBudget(in, p).label = p.label /\ InBudget(in, p).fork = p.fork
              /\ Exceeds(in, InBudget(in, p)) = Exceeds(in, p)
              /\ Exceeds(in, InBudget(in, p)) # "no" => InBudget(in, p).fork = "self"

\* Each plan that is over the budget is told of, and is replaced unless it reasons.
LEMMA BudgetAdds ==
    ASSUME NEW in, NEW S, NEW q \in Seq(OwnOf(S)), KeepsBudget(in, S)
    PROVE  LET b == Budgeted(in, q) IN
           /\ b \in Seq(S) /\ Len(b) = Len(q)
           /\ Len(Retain(b, OwnOf(S))) + Len(Retain(q, Over(in, S))) =
                 Len(q) + Len(Retain(b, OwnOf(S) \cap Over(in, S)))
<1> DEFINE N == OwnOf(S)
           X == Over(in, S)
           NX == N \cap X
           B(s) == Budgeted(in, s)
           Adds(s) == /\ B(s) \in Seq(S) /\ Len(B(s)) = Len(s)
                      /\ Len(Retain(B(s), N)) + Len(Retain(s, X)) = Len(s) + Len(Retain(B(s), NX))
           T == {s \in Seq(N) : Adds(s)}
<1>1. \A p \in N : p \in S /\ ~p.fallback /\ InBudget(in, p) \in S
  BY DEF OwnOf, KeepsBudget
<1>2. ASSUME NEW p \in N
      PROVE  LET b == InBudget(in, p) IN
             (IF b \in N THEN 1 ELSE 0) + (IF p \in X THEN 1 ELSE 0) = 1 + (IF b \in NX THEN 1 ELSE 0)
  <2> DEFINE b == InBudget(in, p)
  <2>1. /\ b \in S /\ p \in S
        /\ b.fallback => Exceeds(in, p) # "no"
        /\ ~b.fallback => Exceeds(in, b) = Exceeds(in, p)
    BY <1>1 DEF KeepsBudget
  <2> HIDE DEF b
  <2>2. /\ b \in N <=> ~b.fallback
        /\ p \in X <=> Exceeds(in, p) # "no"
        /\ b \in NX <=> ~b.fallback /\ Exceeds(in, b) # "no"
    BY <2>1 DEF OwnOf, Over
  <2> HIDE DEF N, X, NX
  <2>3. CASE b.fallback
    <3>1. b \notin N /\ p \in X /\ b \notin NX
      BY <2>1, <2>2, <2>3, Zenon
    <3> QED
      BY <3>1 DEF b
  <2>4. CASE ~b.fallback
    <3>1. b \in N /\ (p \in X <=> b \in NX)
      BY <2>1, <2>2, <2>4, Zenon
    <3> QED
      BY <3>1 DEF b
  <2> QED
    BY <2>3, <2>4
<1> HIDE DEF N, X, NX
<1> DEFINE fits == CanBe(in, N, S)
<1>9. fits
  BY <1>1 DEF CanBe
<1>3. \A s \in Seq(N) : B(s) \in Seq(S) /\ Len(B(s)) = Len(s)
  BY <1>9, BudgetedIs DEF IsBudgeted
<1>4. <<>> \in T
  <2>1. <<>> \in Seq(N) /\ Len(<<>>) = 0
    OBVIOUS
  <2>2. B(<<>>) = <<>>
    BY DEF Budgeted
  <2>3. B(<<>>) \in Seq(S)
    BY <1>3, <2>1
  <2>4. Retain(<<>>, N) = <<>> /\ Retain(<<>>, X) = <<>> /\ Retain(<<>>, NX) = <<>>
    BY RetainEmpty
  <2> HIDE DEF B
  <2> QED
    BY <2>1, <2>2, <2>3, <2>4
<1>5. ASSUME NEW s \in T \cap Seq(N), NEW e \in N PROVE Append(s, e) \in T
  <2> DEFINE r == Append(s, e)
             b == InBudget(in, e)
             u == B(s)
  <2>1. Adds(s) /\ u \in Seq(S) /\ b \in S
    BY <1>1
  <2>2. B(r) = Append(u, b)
    BY <1>9, BudgetedAppend
  <2>3. r \in Seq(N) /\ Len(r) = Len(s) + 1 /\ Len(s) \in Nat
    BY AppendProperties, LenProperties
  <2>4. B(r) \in Seq(S) /\ Len(B(r)) = Len(r)
    BY <1>3, <2>3
  <2>5. /\ Len(Retain(Append(u, b), N)) = Len(Retain(u, N)) + (IF b \in N THEN 1 ELSE 0)
        /\ Len(Retain(Append(u, b), NX)) = Len(Retain(u, NX)) + (IF b \in NX THEN 1 ELSE 0)
        /\ Len(Retain(r, X)) = Len(Retain(s, X)) + (IF e \in X THEN 1 ELSE 0)
    <3> HIDE DEF u, b
    <3> QED
      BY <2>1, RetainGrows
  <2>6. /\ Len(Retain(u, N)) \in Nat /\ Len(Retain(u, NX)) \in Nat /\ Len(Retain(s, X)) \in Nat
    <3>1. Retain(u, N) \in Seq(S) /\ Retain(u, NX) \in Seq(S) /\ Retain(s, X) \in Seq(N)
      <4> HIDE DEF u
      <4> QED
        BY <2>1, RetainType
    <3> QED
      BY <3>1, LenProperties
  <2>7. (IF b \in N THEN 1 ELSE 0) + (IF e \in X THEN 1 ELSE 0) = 1 + (IF b \in NX THEN 1 ELSE 0)
    BY <1>2
  <2>8. Len(Retain(u, N)) + Len(Retain(s, X)) = Len(s) + Len(Retain(u, NX))
    BY <2>1
  <2> DEFINE n == Len(Retain(u, N))
             x == Len(Retain(s, X))
             y == Len(Retain(u, NX))
             l == Len(s)
             i == IF b \in N THEN 1 ELSE 0
             j == IF e \in X THEN 1 ELSE 0
             m == IF b \in NX THEN 1 ELSE 0
  <2>9. n \in Nat /\ x \in Nat /\ y \in Nat /\ l \in Nat /\ i \in Nat /\ j \in Nat /\ m \in Nat
    BY <2>3, <2>6
  <2>10. n + x = l + y /\ i + j = 1 + m
    BY <2>7, <2>8
  <2>11. /\ Len(Retain(B(r), N)) = n + i /\ Len(Retain(B(r), NX)) = y + m
         /\ Len(Retain(r, X)) = x + j /\ Len(r) = l + 1
    BY <2>2, <2>3, <2>5, Zenon
  <2> HIDE DEF n, x, y, l, i, j, m
  <2>12. (n + i) + (x + j) = (l + 1) + (y + m)
    BY <2>9, <2>10
  <2> HIDE DEF r, u, b, B
  <2>13. Adds(r)
    BY <2>4, <2>11, <2>12
  <2> HIDE DEF Adds
  <2>14. r \in T
    BY <2>3, <2>13
  <2> QED
    BY <2>14 DEF r
<1>6. Seq(N) \subseteq T
  <2> HIDE DEF T
  <2> QED
    BY <1>4, <1>5, SequencesByAppending
<1>7. q \in Seq(N)
  BY DEF N
<1>8. Adds(q)
  <2> HIDE DEF Adds
  <2> QED
    BY <1>6, <1>7
<1> QED
  BY <1>8 DEF N, X, NX

-----------------------------------------------------------------------------
(* Routing: what is issued                                                  *)

\* What RoutesAreLawful says of an evaluation.
IsLawful(in, r) ==
    LET C    == Candidates(in)
        own  == Retain(r.plans, {p \in ToSet(r.plans) : ~p.fallback})
        over == Retain(own, {p \in ToSet(own) : Exceeds(in, p) # "no"}) IN
    /\ r.plans # <<>>
    /\ Len(C) + Len(over) = Len(own) + Len(r.rejected)
    /\ \A n \in DOMAIN r.plans : r.plans[n].priority <= Head(r.plans).priority
    /\ \A n \in DOMAIN own : \E m \in DOMAIN C :
          /\ C[m].label = own[n].label /\ C[m].fork = own[n].fork
          /\ Blocks(in, C[m]) = "no" /\ C[m].allow /\ Valid(C[m])
    /\ \A n \in DOMAIN over : over[n].fork = "self"

\* A fallback alone, when every candidate has been told of.
LEMMA AloneIsLawful ==
    ASSUME NEW in, IsInput(in), NEW entry, NEW t, NEW rejected, NEW otherwise,
           Len(Candidates(in)) = Len(rejected)
    PROVE  IsLawful(in, Alone(entry, t, rejected, otherwise))
<1> DEFINE why == FallbackReason(rejected, otherwise)
           f == Fallback("clarify", why)
           d == Adjusted(entry, t, f)
           s == <<d>>
           e == [plans |-> s, rejected |-> rejected]
           L == {"fallback_" \o "clarify"}
           W == {why}
           O == {0, entry.oscillation, entry.oscillation + 1}
           S == PlansOf(L, W, O)
           C == Candidates(in)
           A == {x \in ToSet(s) : ~x.fallback}
           own == Retain(s, A)
           B == {x \in ToSet(own) : Exceeds(in, x) # "no"}
           over == Retain(own, B)
<1>1. Alone(entry, t, rejected, otherwise) = e
  BY DEF Alone
<1>2. f \in S /\ f.fallback
  <2>1. "fallback_" \o "clarify" \in L /\ why \in W /\ 0 \in O
    OBVIOUS
  <2> HIDE DEF why, L, W, O
  <2> QED
    BY <2>1, FallbackIs
<1>3. d \in S /\ d.fallback
  <2>1. entry.oscillation \in O /\ entry.oscillation + 1 \in O
    OBVIOUS
  <2> HIDE DEF f, L, W, O
  <2>2. f \in PlansOf(L, W, O)
    BY <1>2
  <2>3. d \in PlansOf(L, W, O) /\ d.fallback = f.fallback
    BY <2>1, <2>2, AdjustedIs
  <2>4. d \in S
    BY <2>3
  <2> HIDE DEF d
  <2> QED
    BY <1>2, <2>3, <2>4, Zenon
<1>4. d.priority \in Int
  <2> HIDE DEF d
  <2> QED
    BY <1>3 DEF PlansOf
<1> HIDE DEF d, S
<1>5. s \in Seq({d}) /\ Len(s) = 1 /\ s[1] = d /\ ToSet(s) = {d} /\ s # <<>> /\ Head(s) = d /\ DOMAIN s = {1}
  BY DEF ToSet
<1>6. e.plans = s /\ e.rejected = rejected
  OBVIOUS
<1> HIDE DEF e, s
<1>7. A = {}
  BY <1>3, <1>5
<1>8. Len(own) = 0 /\ DOMAIN own = {} /\ ToSet(own) = {}
  <2> HIDE DEF A
  <2>1. own \in Seq({d}) /\ ToSet(own) = ToSet(s) \cap A
    BY <1>5, RetainType, RetainElements
  <2> HIDE DEF own
  <2>2. DOMAIN own = 1..Len(own) /\ Len(own) \in Nat
    BY <2>1, LenProperties
  <2>3. ToSet(own) = {}
    BY <1>7, <2>1
  <2>4. DOMAIN own = {}
    BY <2>3 DEF ToSet
  <2> QED
    BY <2>2, <2>3, <2>4
<1>9. Len(over) = 0 /\ DOMAIN over = {}
  <2>1. own \in Seq({d})
    <3> HIDE DEF A
    <3> QED
      BY <1>5, RetainType
  <2> HIDE DEF own, B
  <2>2. over \in Seq({d}) /\ ToSet(over) = ToSet(own) \cap B
    BY <2>1, RetainType, RetainElements
  <2> HIDE DEF over
  <2>3. DOMAIN over = 1..Len(over) /\ Len(over) \in Nat
    BY <2>2, LenProperties
  <2>4. DOMAIN over = {}
    BY <1>8, <2>2 DEF ToSet
  <2> QED
    BY <2>3, <2>4
<1>10. IsLawful(in, e) <=>
          /\ s # <<>> /\ Len(C) + Len(over) = Len(own) + Len(rejected)
          /\ \A n \in DOMAIN s : s[n].priority <= Head(s).priority
          /\ \A n \in DOMAIN own : \E m \in DOMAIN C :
                /\ C[m].label = own[n].label /\ C[m].fork = own[n].fork
                /\ Blocks(in, C[m]) = "no" /\ C[m].allow /\ Valid(C[m])
          /\ \A n \in DOMAIN over : over[n].fork = "self"
  BY <1>6 DEF IsLawful
<1>11. Len(C) \in Nat
  BY CandidatesAre, LenProperties
<1> HIDE DEF over, own, C, A, B
<1>12. Len(C) + Len(over) = Len(own) + Len(rejected)
  BY <1>8, <1>9, <1>11 DEF C
<1>13. \A n \in DOMAIN s : s[n].priority <= Head(s).priority
  BY <1>4, <1>5
<1> QED
  BY <1>1, <1>5, <1>8, <1>9, <1>10, <1>12, <1>13

\* The labels and the reasons a plan can have.
Labels == {c.label : c \in RouteCandidates}
Reasons == {"none", "budget_tokens", "budget_walltime", "budget_external_cost", "no"}

\* The plans of the valid candidates.
PlansOfValid(in, q) ==
    /\ Len(q) = Len(ValidOf(in))
    /\ \A p \in ToSet(q) : \E v \in ToSet(ValidOf(in)) : p.label = v.label /\ p.fork = v.fork

\* Those of a call are, and are no fallbacks.
LEMMA OwnPlansAre ==
    ASSUME NEW in, IsInput(in), NEW entry, NEW t, NEW L, NEW O,
           Labels \subseteq L, 0 \in O,
           entry.oscillation \in O, entry.oscillation + 1 \in O
    PROVE  LET q == OwnPlans(in, entry, t) IN
           q \in Seq(OwnOf(PlansOf(L, Reasons, O))) /\ PlansOfValid(in, q)
<1> DEFINE q == OwnPlans(in, entry, t)
           v == ValidOf(in)
           S == PlansOf(L, Reasons, O)
           N == OwnOf(S)
<1>1. v \in Seq(RouteCandidates)
  BY StagesAre
<1> HIDE DEF v
<1>2. DOMAIN v = 1..Len(v) /\ Len(v) \in Nat
      /\ \A n \in 1..Len(v) : v[n] \in RouteCandidates /\ v[n] \in ToSet(v)
  BY <1>1, LenProperties, ElementOfSeq DEF ToSet
<1>3. q = [n \in 1..Len(v) |-> Adjusted(entry, t, Plan(v[n]))]
  BY <1>2 DEF OwnPlans, v
<1>4. ASSUME NEW c \in RouteCandidates
      PROVE  LET p == Adjusted(entry, t, Plan(c)) IN p \in N /\ p.label = c.label /\ p.fork = c.fork
  <2> DEFINE a == Plan(c)
             p == Adjusted(entry, t, a)
  <2>1. c.label \in Labels /\ "none" \in Reasons
    <3>1. c.label \in Labels
      BY Zenon DEF Labels
    <3> QED
      BY <3>1 DEF Reasons
  <2>5. c.label \in L
    BY <2>1
  <2>2. a \in S /\ a.label = c.label /\ a.fork = c.fork /\ ~a.fallback
    BY <2>1, <2>5, PlanIs
  <2> HIDE DEF a
  <2>3. p \in S /\ p.label = a.label /\ p.fork = a.fork /\ p.fallback = a.fallback
    BY <2>2, AdjustedIs
  <2> HIDE DEF p, S
  <2>4. ~p.fallback
    BY <2>2, <2>3, Zenon
  <2>6. p \in N
    BY <2>3, <2>4 DEF OwnOf
  <2> QED
    BY <2>2, <2>3, <2>6 DEF p, a
<1> HIDE DEF N
<1>5. \A n \in 1..Len(v) : q[n] \in N /\ q[n].label = v[n].label /\ q[n].fork = v[n].fork
  BY <1>2, <1>3, <1>4
<1>6. q \in Seq(N) /\ Len(q) = Len(v) /\ DOMAIN q = 1..Len(v)
  <2>1. q \in [1..Len(v) -> N]
    BY <1>3, <1>5
  <2> HIDE DEF q
  <2>2. q \in Seq(N)
    BY <1>2, <2>1
  <2> QED
    BY <1>2, <2>1, <2>2, LenProperties
<1>7. ASSUME NEW p \in ToSet(q) PROVE \E x \in ToSet(v) : p.label = x.label /\ p.fork = x.fork
  <2>1. PICK n \in 1..Len(v) : p = q[n]
    <3> HIDE DEF q
    <3> QED
      BY <1>6 DEF ToSet
  <2> HIDE DEF q
  <2> QED
    BY <1>2, <1>5, <2>1
<1> QED
  BY <1>6, <1>7 DEF N, v, PlansOfValid

\* The limit that is passed is one of three, or none.
LEMMA ExceedsIs ==
    ASSUME NEW in, NEW p
    PROVE  Exceeds(in, p) \in Reasons
<1>1. \/ Exceeds(in, p) = "budget_tokens" \/ Exceeds(in, p) = "budget_walltime"
      \/ Exceeds(in, p) = "budget_external_cost" \/ Exceeds(in, p) = "no"
  BY Zenon DEF Exceeds
<1> QED
  BY <1>1 DEF Reasons

\* The plans of valid candidates, within the budget or told of, the highest first.
LEMMA RankedPlansAreLawful ==
    ASSUME NEW in, IsInput(in), NEW entry, NEW t, ValidOf(in) # <<>>, NEW rejected, Len(rejected) \in Nat,
           LET q == OwnPlans(in, entry, t) IN
           Len(rejected) + Len(ValidOf(in)) = Len(Candidates(in)) + Len(OverBudget(in, q))
    PROVE  LET q == OwnPlans(in, entry, t) IN
           IsLawful(in, [plans |-> Ranked(Budgeted(in, q)), rejected |-> rejected])
<1> DEFINE L == {"fallback_" \o "clarify", "fallback_" \o "self"} \cup Labels
           O == {0, entry.oscillation, entry.oscillation + 1}
           S == PlansOf(L, Reasons, O)
           q == OwnPlans(in, entry, t)
           v == ValidOf(in)
           w == Budgeted(in, q)
           s == Ranked(w)
           C == Candidates(in)
           e == [plans |-> s, rejected |-> rejected]
           A == {x \in ToSet(s) : ~x.fallback}
           own == Retain(s, A)
           B == {x \in ToSet(own) : Exceeds(in, x) # "no"}
           over == Retain(own, B)
           N == OwnOf(S)
           X == Over(in, S)
<1>1. {"fallback_" \o "clarify", "fallback_" \o "self"} \subseteq L /\ 0 \in O
      /\ Labels \subseteq L
      /\ entry.oscillation \in O /\ entry.oscillation + 1 \in O
  OBVIOUS
<1> HIDE DEF L, O
<1>2. /\ q \in Seq(N) /\ Len(q) = Len(v)
      /\ \A p \in ToSet(q) : \E x \in ToSet(v) : p.label = x.label /\ p.fork = x.fork
  <2>1. q \in Seq(N) /\ PlansOfValid(in, q)
    BY <1>1, OwnPlansAre
  <2> HIDE DEF q, v, N
  <2> QED
    BY <2>1 DEF PlansOfValid, v
<1>3. \A p \in S : p.priority \in Int
  BY DEF PlansOf
<1>4. KeepsBudget(in, S)
  BY <1>1, ExceedsIs, InBudgetIs DEF KeepsBudget
<1>5. v \in Seq(RouteCandidates) /\ \A x \in ToSet(v) : Admitted(in, x) /\ Valid(x)
  BY StagesAre
<1> HIDE DEF S, q, v
<1>6. /\ w \in Seq(S) /\ Len(w) = Len(q)
      /\ Len(Retain(w, N)) + Len(Retain(q, X)) = Len(q) + Len(Retain(w, N \cap X))
  BY <1>2, <1>4, BudgetAdds
<1>7. \A x \in ToSet(w) : \E p \in ToSet(q) : x = InBudget(in, p)
  <2> DEFINE fits == CanBe(in, N, S)
  <2>1. fits
    BY <1>4 DEF CanBe, OwnOf, KeepsBudget
  <2> QED
    BY <1>2, <2>1, BudgetedIs
<1> HIDE DEF w
<1>8. /\ s \in Seq(S) /\ Len(s) = Len(w) /\ TopFirst(s) /\ ToSet(s) = ToSet(w)
      /\ \A K : Len(Retain(s, K)) = Len(Retain(w, K))
  BY <1>3, <1>6, RankedIs
<1> HIDE DEF s
<1>9. ToSet(s) \subseteq S /\ ToSet(q) \subseteq N
  BY <1>2, <1>8, SeqElements
<1>10. own = Retain(s, N) /\ own \in Seq(S) /\ ToSet(own) = ToSet(s) \cap N
  <2>1. ToSet(s) \cap A = ToSet(s) \cap N
    BY <1>9 DEF OwnOf
  <2> HIDE DEF A, N
  <2>2. Retain(s, A) = Retain(s, N)
    BY <1>8, <2>1, RetainSame
  <2> QED
    BY <1>8, <2>2, RetainType, RetainElements
<1> HIDE DEF own
<1>11. over = Retain(own, X) /\ over \in Seq(S) /\ ToSet(over) = ToSet(own) \cap X
  <2>1. ToSet(own) \cap B = ToSet(own) \cap X
    BY <1>9, <1>10 DEF Over
  <2> HIDE DEF B, X
  <2>2. Retain(own, B) = Retain(own, X)
    BY <1>10, <2>1, RetainSame
  <2> QED
    BY <1>10, <2>2, RetainType, RetainElements
<1> HIDE DEF over, A, B
<1>12. over = Retain(s, N \cap X)
  <2> HIDE DEF N, X
  <2> QED
    BY <1>8, <1>10, <1>11, RetainTwice
<1>13. Len(own) + Len(Retain(q, X)) = Len(v) + Len(over)
  BY <1>2, <1>6, <1>8, <1>10, <1>12
<1>14. Len(OverBudget(in, q)) = Len(Retain(q, X))
  <2> DEFINE Y == {p \in ToSet(q) : Exceeds(in, p) # "no"}
             o == Retain(q, Y)
  <2>1. ToSet(q) \cap Y = ToSet(q) \cap X
    BY <1>9 DEF Over, OwnOf
  <2> HIDE DEF Y, X, N
  <2>2. o = Retain(q, X) /\ o \in Seq(N)
    BY <1>2, <2>1, RetainSame, RetainType
  <2>3. OverBudget(in, q) = [n \in DOMAIN o |-> [code |-> "budget_exceeded", label |-> o[n].fork]]
    BY DEF OverBudget, Y
  <2> HIDE DEF o
  <2>4. DOMAIN o = 1..Len(o) /\ Len(o) \in Nat
    BY <2>2, LenProperties
  <2> DEFINE f == OverBudget(in, q)
  <2>5. f = [n \in 1..Len(o) |-> f[n]]
    BY <2>3, <2>4
  <2> HIDE DEF f
  <2>6. Len(f) = Len(o)
    BY <2>4, <2>5, FunctionLists
  <2> QED
    BY <2>2, <2>6 DEF f
<1>15. /\ Len(own) \in Nat /\ Len(over) \in Nat /\ Len(v) \in Nat /\ Len(C) \in Nat
       /\ Len(Retain(q, X)) \in Nat /\ Len(s) \in Nat /\ DOMAIN s = 1..Len(s)
       /\ DOMAIN own = 1..Len(own) /\ DOMAIN over = 1..Len(over)
  <2>1. Retain(q, X) \in Seq(N)
    <3> HIDE DEF X, N
    <3> QED
      BY <1>2, RetainType
  <2> QED
    BY <1>5, <1>8, <1>10, <1>11, <2>1, CandidatesAre, LenProperties
<1>16. Len(C) + Len(over) = Len(own) + Len(rejected)
  <2>1. Len(rejected) + Len(v) = Len(C) + Len(Retain(q, X))
    BY <1>14 DEF q, v
  <2> DEFINE c == Len(C)
             o == Len(over)
             y == Len(own)
             d == Len(rejected)
             x == Len(Retain(q, X))
             l == Len(v)
  <2>2. d \in Nat /\ c \in Nat /\ o \in Nat /\ y \in Nat /\ x \in Nat /\ l \in Nat
    BY <1>15
  <2>3. y + x = l + o /\ d + l = c + x
    BY <1>13, <2>1
  <2> HIDE DEF c, o, y, d, x, l
  <2>4. c + o = y + d
    BY <2>2, <2>3
  <2> QED
    BY <2>4 DEF c, o, y, d
<1>17. s # <<>> /\ 1 \in DOMAIN s /\ Head(s) = s[1]
  <2>1. v # <<>> /\ Len(<<>>) = 0
    BY DEF v
  <2>2. Len(v) # 0
    BY <1>5, <2>1, EmptySeq
  <2>3. Len(s) # 0
    BY <1>2, <1>6, <1>8, <2>2
  <2> QED
    BY <1>8, <1>15, <2>1, <2>3, HeadTailProperties
<1>18. \A n \in DOMAIN s : s[n].priority <= Head(s).priority
  BY <1>8, <1>17 DEF TopFirst
<1>19. \A x \in ToSet(own) : x \in S /\ ~x.fallback /\ \E p \in ToSet(q) : p \in S /\ ~p.fallback /\ x = InBudget(in, p)
  BY <1>7, <1>8, <1>9, <1>10 DEF OwnOf
<1>20. ASSUME NEW n \in DOMAIN own
       PROVE  \E m \in DOMAIN C :
                 /\ C[m].label = own[n].label /\ C[m].fork = own[n].fork
                 /\ Blocks(in, C[m]) = "no" /\ C[m].allow /\ Valid(C[m])
  <2> DEFINE x == own[n]
  <2>1. x \in ToSet(own)
    BY DEF ToSet
  <2> HIDE DEF x
  <2>2. PICK p \in ToSet(q) : p \in S /\ ~p.fallback /\ x = InBudget(in, p) /\ ~x.fallback
    BY <1>19, <2>1
  <2>3. x.label = p.label /\ x.fork = p.fork
    BY <1>4, <2>2 DEF KeepsBudget
  <2>4. PICK z \in ToSet(v) : p.label = z.label /\ p.fork = z.fork
    BY <1>2
  <2>5. Admitted(in, z) /\ Valid(z)
    BY <1>5
  <2> QED
    BY <2>3, <2>4, <2>5 DEF Admitted, x
<1>21. ASSUME NEW n \in DOMAIN over PROVE over[n].fork = "self"
  <2> DEFINE x == over[n]
  <2>1. x \in ToSet(over)
    BY DEF ToSet
  <2> HIDE DEF x
  <2>2. x \in ToSet(own) /\ Exceeds(in, x) # "no"
    BY <1>11, <2>1 DEF Over
  <2>3. PICK p \in ToSet(q) : p \in S /\ ~p.fallback /\ x = InBudget(in, p) /\ ~x.fallback
    BY <1>19, <2>2
  <2> QED
    BY <1>4, <2>2, <2>3 DEF KeepsBudget, x
<1>22. e.plans = s /\ e.rejected = rejected
  BY DEF e
<1> HIDE DEF e
<1>23. IsLawful(in, e) <=>
          /\ s # <<>> /\ Len(C) + Len(over) = Len(own) + Len(rejected)
          /\ \A n \in DOMAIN s : s[n].priority <= Head(s).priority
          /\ \A n \in DOMAIN own : \E m \in DOMAIN C :
                /\ C[m].label = own[n].label /\ C[m].fork = own[n].fork
                /\ Blocks(in, C[m]) = "no" /\ C[m].allow /\ Valid(C[m])
          /\ \A n \in DOMAIN over : over[n].fork = "self"
  BY <1>22 DEF IsLawful, over, own, A, B
<1>24. IsLawful(in, e)
  BY <1>16, <1>17, <1>18, <1>20, <1>21, <1>23
<1> QED
  BY <1>24 DEF e, s, w, q

\* An evaluation tells of every candidate, once, and issues what the rules admit:
\* each stage parts what it is given, and the lengths add up.
LEMMA EvaluatedIsLawful ==
    ASSUME NEW in, IsInput(in), NEW entry, NEW t
    PROVE  IsLawful(in, Evaluated(in, entry, t))
<1> DEFINE early == Early(in)
           pruned == PrunedOf(in)
           invalid == InvalidOf(in)
           q == OwnPlans(in, entry, t)
           over == OverBudget(in, q)
           told == (early \o pruned) \o invalid
           all == told \o over
           v == ValidOf(in)
           C == Candidates(in)
<1>1. /\ Listing(early) /\ Listing(pruned) /\ Listing(invalid) /\ v \in Seq(RouteCandidates)
      /\ Len(C) = Len(early) + Len(pruned) + Len(invalid) + Len(v)
      /\ Filtered(in, Passing(in)).accepted = <<>> => Len(C) = Len(early)
  BY StagesAre
<1>2. Evaluated(in, entry, t) =
        IF Filtered(in, Passing(in)).accepted = <<>> THEN Alone(entry, t, early, "empty_catalog")
        ELSE IF v = <<>> THEN Alone(entry, t, told, "invalid_plan")
        ELSE [plans |-> Ranked(Budgeted(in, q)), rejected |-> all]
  BY EvaluationIs
<1>3. Listing(over) /\ Len(over) \in Nat
  <2> DEFINE L == {"fallback_" \o "clarify", "fallback_" \o "self"} \cup Labels
             O == {0, entry.oscillation, entry.oscillation + 1}
             N == OwnOf(PlansOf(L, Reasons, O))
             Y == {p \in ToSet(q) : Exceeds(in, p) # "no"}
             o == Retain(q, Y)
             f == OverBudget(in, q)
  <2>1. Labels \subseteq L /\ 0 \in O /\ entry.oscillation \in O /\ entry.oscillation + 1 \in O
    OBVIOUS
  <2> HIDE DEF L, O
  <2>2. q \in Seq(N)
    BY <2>1, OwnPlansAre
  <2> HIDE DEF N, Y
  <2>3. f = [n \in DOMAIN o |-> [code |-> "budget_exceeded", label |-> o[n].fork]]
    BY DEF OverBudget, Y
  <2> HIDE DEF q
  <2>4. o \in Seq(N)
    BY <2>2, RetainType
  <2> HIDE DEF o
  <2>5. DOMAIN o = 1..Len(o) /\ Len(o) \in Nat
    BY <2>4, LenProperties
  <2> HIDE DEF over
  <2>6. f = [n \in 1..Len(o) |-> f[n]]
    BY <2>3, <2>5
  <2> HIDE DEF f
  <2>7. Listing(f) /\ Len(f) \in Nat
    BY <2>5, <2>6, FunctionLists
  <2> QED
    BY <2>7 DEF f, over
<1> HIDE DEF early, pruned, invalid, over, v
<1>4. /\ Listing(told) /\ Len(told) = Len(early) + Len(pruned) + Len(invalid)
      /\ Len(early) \in Nat /\ Len(pruned) \in Nat /\ Len(invalid) \in Nat
  <2> DEFINE part == early \o pruned
  <2>1. Listing(part) /\ Len(part) = Len(early) + Len(pruned) /\ Len(early) \in Nat /\ Len(pruned) \in Nat
    BY <1>1, ConcatLists
  <2> HIDE DEF part
  <2>2. Listing(part \o invalid) /\ Len(part \o invalid) = Len(part) + Len(invalid) /\ Len(invalid) \in Nat
    BY <1>1, <2>1, ConcatLists
  <2> QED
    BY <2>1, <2>2 DEF part
<1> HIDE DEF told
<1>5. Len(all) = Len(told) + Len(over) /\ Len(all) \in Nat
  BY <1>3, <1>4, ConcatLists
<1> HIDE DEF all
<1>6. Len(v) \in Nat
  BY <1>1, LenProperties
<1>7. CASE Filtered(in, Passing(in)).accepted = <<>>
  <2>1. Len(C) = Len(early)
    BY <1>1, <1>7
  <2>2. IsLawful(in, Alone(entry, t, early, "empty_catalog"))
    BY <2>1, AloneIsLawful
  <2> QED
    BY <1>2, <1>7, <2>2
<1>8. CASE Filtered(in, Passing(in)).accepted # <<>> /\ v = <<>>
  <2>1. Len(<<>>) = 0
    OBVIOUS
  <2>2. Len(v) = 0
    BY <1>8, <2>1
  <2>3. Len(C) = Len(told)
    BY <1>1, <1>4, <2>2
  <2>4. IsLawful(in, Alone(entry, t, told, "invalid_plan"))
    BY <2>3, AloneIsLawful
  <2> QED
    BY <1>2, <1>8, <2>4
<1>9. CASE Filtered(in, Passing(in)).accepted # <<>> /\ v # <<>>
  <2>1. Len(all) + Len(v) = Len(C) + Len(over)
    <3> DEFINE a == Len(early)
               b == Len(pruned)
               c == Len(invalid)
               d == Len(over)
               e == Len(v)
    <3>1. a \in Nat /\ b \in Nat /\ c \in Nat /\ d \in Nat /\ e \in Nat
      BY <1>3, <1>4, <1>6
    <3>2. Len(all) = (a + b + c) + d /\ Len(C) = a + b + c + e
      BY <1>1, <1>4, <1>5
    <3> HIDE DEF a, b, c, C
    <3> QED
      BY <3>1, <3>2
  <2>2. v # <<>> /\ Len(all) \in Nat
    BY <1>5, <1>9
  <2>3. IsLawful(in, [plans |-> Ranked(Budgeted(in, q)), rejected |-> all])
    BY <2>1, <2>2, RankedPlansAreLawful DEF v, over
  <2> QED
    BY <1>2, <1>9, <2>3
<1> QED
  BY <1>7, <1>8, <1>9

\* What a caller routes is one of its inputs.
RouteInv ==
    /\ DOMAIN route = Callers
    /\ \A c \in Callers :
          /\ route[c].step \in {"idle", "record", "issued"}
          /\ route[c].step # "idle" =>
                /\ route[c] = [step |-> route[c].step, input |-> route[c].input,
                               entry |-> route[c].entry, at |-> route[c].at]
                /\ route[c].input \in Inputs[c]

\* No caller routes at first.
LEMMA RouteInitial == RoutingInit => RouteInv
BY DEF RoutingInit, RouteInv

\* A route that is evaluated or recorded has an input of its caller.
LEMMA RouteStep == RouteInv /\ [RoutingNext]_routingVars => RouteInv'
<1> SUFFICES ASSUME RouteInv, [RoutingNext]_routingVars PROVE RouteInv'
  OBVIOUS
<1>1. ASSUME NEW c \in Callers, NEW in \in Inputs[c], Evaluate(c, in) PROVE RouteInv'
  <2> DEFINE e == EntryOf(in.session)
             r == [step |-> "record", input |-> in, entry |-> e, at |-> clock]
  <2>1. DOMAIN route' = Callers /\ route'[c] = r /\ \A d \in Callers \ {c} : route'[d] = route[d]
    BY <1>1 DEF Evaluate, RouteInv
  <2>2. r.step = "record" /\ r.input = in /\ r.entry = e /\ r.at = clock
    OBVIOUS
  <2>3. r = [step |-> r.step, input |-> r.input, entry |-> r.entry, at |-> r.at]
    OBVIOUS
  <2> HIDE DEF r
  <2>4. \A d \in Callers : d = c \/ d \in Callers \ {c}
    OBVIOUS
  <2> QED
    BY <2>1, <2>2, <2>3, <2>4 DEF RouteInv
<1>2. ASSUME NEW c \in Callers, Record(c) PROVE RouteInv'
  <2> DEFINE r == [route[c] EXCEPT !.step = "issued"]
             o == route[c]
  <2>1. o.step = "record" /\ DOMAIN route = Callers
    BY <1>2 DEF Record, RouteInv
  <2>2. o = [step |-> o.step, input |-> o.input, entry |-> o.entry, at |-> o.at] /\ o.input \in Inputs[c]
    BY <2>1 DEF RouteInv
  <2>3. DOMAIN route' = Callers /\ route'[c] = r /\ \A d \in Callers \ {c} : route'[d] = route[d]
    BY <1>2, <2>1 DEF Record
  <2> HIDE DEF o
  <2>4. [o EXCEPT !.step = "issued"] = [step |-> "issued", input |-> o.input, entry |-> o.entry, at |-> o.at]
    BY <2>2
  <2>5. r = [step |-> "issued", input |-> o.input, entry |-> o.entry, at |-> o.at]
    BY <2>4 DEF o
  <2> HIDE DEF r
  <2>6. r.step = "issued" /\ r.input = o.input /\ r.entry = o.entry /\ r.at = o.at
    BY <2>5
  <2>7. \A d \in Callers : d = c \/ d \in Callers \ {c}
    OBVIOUS
  <2> QED
    BY <2>2, <2>3, <2>5, <2>6, <2>7 DEF RouteInv
<1>3. CASE Tick
  BY <1>3 DEF Tick, RouteInv
<1>4. CASE UNCHANGED routingVars
  BY <1>4 DEF routingVars, RouteInv
<1> QED
  BY <1>1, <1>2, <1>3, <1>4 DEF RoutingNext

\* Every candidate of a call ends in its plans or, once, among its rejections; what is
\* issued no other plan outranks, and every rule admits it.
THEOREM RoutesHold == RoutingSpec => []RoutesAreLawful
<1>1. RouteInv => RoutesAreLawful
  <2> SUFFICES ASSUME RouteInv, NEW c \in Callers, route[c].step # "idle"
               PROVE  IsLawful(route[c].input, ResultOf(c))
    BY DEF RoutesAreLawful, IsLawful, IssuedBy
  <2>1. route[c].input \in Inputs[c]
    BY DEF RouteInv
  <2>2. IsInput(route[c].input)
    BY <2>1, RoutingAssumption DEF RoutingAssumption
  <2> QED
    BY <2>2, EvaluatedIsLawful DEF ResultOf
<1> QED
  BY <1>1, RouteInitial, RouteStep, PTL DEF RoutingSpec

-----------------------------------------------------------------------------
(* GraphQueries: appended events                                            *)

\* An event that was acknowledged stays, and is the only one with its place.
THEOREM AcknowledgedEventsStay == GraphSpec => []AppendsStay
<1>1. GraphInit => AppendsStay
  BY DEF GraphInit, AppendsStay
<1>2. AppendsStay /\ [AskNext \/ StoreNext]_graphVars => AppendsStay'
  <2> SUFFICES ASSUME AppendsStay, [AskNext \/ StoreNext]_graphVars PROVE AppendsStay'
    OBVIOUS
  <2>1. CASE UNCHANGED <<timelineStore, appended>>
    BY <2>1 DEF AppendsStay, KeyOf
  <2>2. ASSUME NEW e \in GraphEvents, AppendEvent(e) PROVE AppendsStay'
    <3>1. /\ timelineStore' = timelineStore \cup {e} /\ appended' = appended \cup {e}
          /\ \A s \in timelineStore : KeyOf(s) # KeyOf(e)
      BY <2>2 DEF AppendEvent
    <3>2. \A a, b \in timelineStore' : KeyOf(a) = KeyOf(b) => a = b
      BY <3>1 DEF AppendsStay
    <3> QED
      BY <3>1, <3>2 DEF AppendsStay, KeyOf
  <2> QED
    BY <2>1, <2>2 DEF AskNext, StoreNext, PlanAsk, ExecuteAsk, graphVars
<1> QED
  BY <1>1, <1>2, PTL DEF GraphSpec

-----------------------------------------------------------------------------
(* GraphQueries: plans and answers                                          *)

\* The first objection is none where there is none.
LEMMA FirstIs ==
    ASSUME NEW k \in Nat, NEW s, DOMAIN s = 1..k
    PROVE  (First(s) = "none") <=> (\A n \in 1..k : s[n] = "none")
<1> DEFINE R == {n \in DOMAIN s : s[n] # "none"}
<1>1. CASE R = {}
  BY <1>1 DEF First
<1>2. CASE R # {}
  <2>1. PICK m \in R : \A n \in R : m <= n
    <3>1. R \in SUBSET Nat
      OBVIOUS
    <3> HIDE DEF R
    <3> QED
      BY <1>2, <3>1, LeastNatural
  <2>2. Min(R) \in R
    <3> HIDE DEF R
    <3> QED
      BY <2>1 DEF Min
  <2>3. First(s) = s[Min(R)] /\ s[Min(R)] # "none" /\ Min(R) \in 1..k
    BY <1>2, <2>2 DEF First
  <2> QED
    BY <2>3
<1> QED
  BY <1>1, <1>2

\* For three objections.
LEMMA FirstOfThree ==
    ASSUME NEW a, NEW b, NEW c
    PROVE  (First(<<a, b, c>>) = "none") <=> (a = "none" /\ b = "none" /\ c = "none")
<1> DEFINE s == <<a, b, c>>
<1>1. DOMAIN s = 1..3 /\ s[1] = a /\ s[2] = b /\ s[3] = c
  OBVIOUS
<1> HIDE DEF s
<1>2. (First(s) = "none") <=> (\A n \in 1..3 : s[n] = "none")
  BY <1>1, FirstIs
<1>3. (\A n \in 1..3 : s[n] = "none") <=> (s[1] = "none" /\ s[2] = "none" /\ s[3] = "none")
  OBVIOUS
<1> QED
  BY <1>1, <1>2, <1>3 DEF s

\* For seven.
LEMMA FirstOfSeven ==
    ASSUME NEW a, NEW b, NEW c, NEW d, NEW e, NEW f, NEW g
    PROVE  (First(<<a, b, c, d, e, f, g>>) = "none")
              <=> /\ a = "none" /\ b = "none" /\ c = "none" /\ d = "none"
                  /\ e = "none" /\ f = "none" /\ g = "none"
<1> DEFINE s == <<a, b, c, d, e, f, g>>
<1>1. /\ DOMAIN s = 1..7
      /\ s[1] = a /\ s[2] = b /\ s[3] = c /\ s[4] = d /\ s[5] = e /\ s[6] = f /\ s[7] = g
  OBVIOUS
<1> HIDE DEF s
<1>2. (First(s) = "none") <=> (\A n \in 1..7 : s[n] = "none")
  BY <1>1, FirstIs
<1>3. (\A n \in 1..7 : s[n] = "none")
        <=> /\ s[1] = "none" /\ s[2] = "none" /\ s[3] = "none" /\ s[4] = "none"
            /\ s[5] = "none" /\ s[6] = "none" /\ s[7] = "none"
  OBVIOUS
<1> QED
  BY <1>1, <1>2, <1>3 DEF s

\* For nine.
LEMMA FirstOfNine ==
    ASSUME NEW a, NEW b, NEW c, NEW d, NEW e, NEW f, NEW g, NEW h, NEW i
    PROVE  (First(<<a, b, c, d, e, f, g, h, i>>) = "none")
              <=> /\ a = "none" /\ b = "none" /\ c = "none" /\ d = "none" /\ e = "none"
                  /\ f = "none" /\ g = "none" /\ h = "none" /\ i = "none"
<1> DEFINE s == <<a, b, c, d, e, f, g, h, i>>
<1>1. /\ DOMAIN s = 1..9
      /\ s[1] = a /\ s[2] = b /\ s[3] = c /\ s[4] = d /\ s[5] = e
      /\ s[6] = f /\ s[7] = g /\ s[8] = h /\ s[9] = i
  OBVIOUS
<1> HIDE DEF s
<1>2. (First(s) = "none") <=> (\A n \in 1..9 : s[n] = "none")
  BY <1>1, FirstIs
<1>3. (\A n \in 1..9 : s[n] = "none")
        <=> /\ s[1] = "none" /\ s[2] = "none" /\ s[3] = "none" /\ s[4] = "none" /\ s[5] = "none"
            /\ s[6] = "none" /\ s[7] = "none" /\ s[8] = "none" /\ s[9] = "none"
  OBVIOUS
<1> QED
  BY <1>1, <1>2, <1>3 DEF s

\* What is prepared of a plan has it and its reasons, and no error.
LEMMA PreparedIs ==
    ASSUME NEW plan, NEW indices, NEW reasons
    PROVE  LET p == Prepared(plan, indices, reasons) IN
           p.error = "none" /\ p.plan = plan /\ p.reasons = reasons
BY DEF Prepared

\* With one reason or the other there is a reason.
LEMMA ReasonsAdd ==
    ASSUME NEW a, NEW b, NEW s \in {<<>>, <<a>>}, NEW t \in {<<>>, <<b>>}, s # <<>> \/ t # <<>>
    PROVE  s \o t # <<>>
<1>1. s \in Seq({a, b}) /\ t \in Seq({a, b})
  <2>1. <<>> \in Seq({a, b}) /\ <<a>> \in Seq({a, b}) /\ <<b>> \in Seq({a, b})
    OBVIOUS
  <2> QED
    BY <2>1
<1>2. Len(s \o t) = Len(s) + Len(t) /\ Len(s) \in Nat /\ Len(t) \in Nat
  BY <1>1, ConcatProperties, LenProperties
<1>3. Len(s) # 0 \/ Len(t) # 0
  BY <1>1, EmptySeq
<1>4. Len(<<>>) = 0
  OBVIOUS
<1> QED
  BY <1>2, <1>3, <1>4

\* The planner's defaults.
LEMMA ConfigIs ==
    LET c == DefaultPlannerConfig IN
    /\ c.causal = 2 /\ c.maxCausal = 4 /\ c.limit = 200 /\ c.path = 6 /\ c.neighborhood = 4
    /\ c.subgraph = 5 /\ c.nodes = 500 /\ c.similar = 128 /\ c.influence = 12 /\ c.pattern = 100
    /\ c.rate = 20 /\ c.maxRate = 60 /\ c.heartbeat = 3000 /\ c.minHeartbeat = 500 /\ c.idle = 10000
    /\ c.buffer = 500 /\ c.mode = "drop_tail"
BY DEF DefaultPlannerConfig

\* The fields of a query that the planner reckons with.
LEMMA AskIs ==
    ASSUME NEW q \in AskRecords
    PROVE  /\ q.op \in QueryKinds /\ q.tenant \in Nat /\ q.scenario \in STRING /\ q.reach \in Int
           /\ q.reach >= -1 /\ q.size \in Nat /\ q.seeds \in Nat
           /\ q.live.rate \in Int /\ q.live.rate >= -1
           /\ q.live.heartbeat \in Int /\ q.live.heartbeat >= -1
           /\ q.live.idle \in Int /\ q.live.idle >= -1
           /\ q.live.buffer \in Int /\ q.live.buffer >= -1
           /\ q.live.mode \in STRING
BY DEF AskRecords, Number

\* What is asked of a plan, and where the plan's own query is refused.
PlanIsBounded(q, p) ==
    /\ p.plan.reach <= 12 /\ (q.op \notin {"recall", "hybrid"} => p.plan.size <= 500)
    /\ p.plan.reach < q.reach /\ p.plan.kind # "SessionOrder"
          /\ q.op \in {"causal", "path", "neighborhood", "subgraph", "influence"}
        => p.reasons # <<>>
    /\ p.plan.size < q.size /\ q.op \in {"path", "neighborhood", "subgraph", "similarity", "pattern"}
        => p.reasons # <<>>
    /\ p.plan.kind = "Live" =>
          /\ p.plan.live.idle >= 2 * p.plan.live.heartbeat
          /\ q.live.rate > p.plan.live.rate \/ q.live.buffer > p.plan.live.buffer => p.reasons # <<>>

PlanAnswers(q, p) == q.tenant \in AllowedTenants => Executed(p.plan, q) = "none"

\* The plan of a query of the graph serves that query.
LEMMA GraphQueriesAnswer ==
    ASSUME NEW q \in AskRecords, NEW plan,
           q.op \in {"path", "neighborhood", "subgraph", "similarity", "influence", "pattern"},
           plan.kind = PlanKindOf(q), q.op \in {"subgraph", "influence"} => q.seeds # 0,
           q.tenant \in AllowedTenants
    PROVE  Executed(plan, q) = "none"
<1> DEFINE a == Objection(q.op = "subgraph" /\ q.seeds = 0, "seeds_required")
           b == Objection(plan.kind # PlanKindOf(q), "NoIndexPlan")
           c == Objection(q.op = "influence" /\ q.seeds = 0, "seeds_required")
<1>1. a = "none" /\ b = "none" /\ c = "none"
  BY DEF Objection
<1>2. Executed(plan, q) = First(<<a, b, c>>)
  BY DEF Executed, ExecuteGraph
<1> HIDE DEF a, b, c
<1> QED
  BY <1>1, <1>2, FirstOfThree

\* A path's plan is bounded and serves the path.
LEMMA PathPlan ==
    ASSUME NEW q \in AskRecords, q.op = "path", NEW p, p = PlanPath(q, DefaultPlannerConfig),
           p.error = "none"
    PROVE  PlanIsBounded(q, p) /\ PlanAnswers(q, p)
<1> DEFINE c == DefaultPlannerConfig
           asked == Or(q.reach, c.causal)
           reach == Capped(asked, c.path)
           size == Capped(q.size, c.limit)
           plan == [NoGraphPlan EXCEPT !.kind = "Path", !.index = "path", !.reach = reach, !.size = size,
                                       !.scenario = q.scenario, !.strategy = q.strategy]
           x == Told(asked > c.path, "depth_truncated")
           y == Told(q.size > c.limit, "path_count_truncated")
           told == x \o y
<1>1. p = Prepared(plan, {"path"}, told)
  <2>1. RefusedQuery("path_requires_distinct_nodes").error # "none"
    BY DEF RefusedQuery
  <2> QED
    BY <2>1 DEF PlanPath
<1>2. /\ q.reach \in Int /\ q.size \in Nat /\ asked \in Int /\ q.reach >= -1
      /\ asked = IF q.reach = -1 THEN 2 ELSE q.reach
  BY AskIs, ConfigIs DEF Or
<1>3. /\ reach = (IF asked > 6 THEN 6 ELSE asked) /\ size = (IF q.size > 200 THEN 200 ELSE q.size)
  BY ConfigIs DEF Capped
<1>4. /\ x \in {<<>>, <<"depth_truncated">>} /\ (asked > 6 => x # <<>>)
      /\ y \in {<<>>, <<"path_count_truncated">>} /\ (q.size > 200 => y # <<>>)
  <2>1. c.path = 6 /\ c.limit = 200
    BY ConfigIs
  <2> HIDE DEF c, asked
  <2> QED
    BY <2>1 DEF Told
<1> HIDE DEF told, x, y, reach, size, asked, c
<1>5. plan.kind = "Path" /\ plan.reach = reach /\ plan.size = size
  BY DEF NoGraphPlan
<1> HIDE DEF plan
<1>6. p.plan = plan /\ p.reasons = told
  BY <1>1, PreparedIs
<1>7. asked > 6 \/ q.size > 200 => p.reasons # <<>>
  BY <1>4, <1>6, ReasonsAdd DEF told
<1>8. PlanIsBounded(q, p)
  BY <1>2, <1>3, <1>5, <1>6, <1>7 DEF PlanIsBounded
<1>9. PlanKindOf(q) = "Path"
  BY DEF PlanKindOf
<1> QED
  BY <1>5, <1>6, <1>8, <1>9, GraphQueriesAnswer DEF PlanAnswers

\* So is and does a neighbourhood's.
LEMMA NeighborhoodPlan ==
    ASSUME NEW q \in AskRecords, q.op = "neighborhood",
           NEW p, p = PlanNeighborhood(q, DefaultPlannerConfig)
    PROVE  PlanIsBounded(q, p) /\ PlanAnswers(q, p)
<1> DEFINE c == DefaultPlannerConfig
           reach == Capped(q.reach, c.neighborhood)
           size == Capped(q.size, c.limit)
           plan == [NoGraphPlan EXCEPT !.kind = "Neighborhood", !.index = "neighborhood",
                                       !.reach = reach, !.size = size, !.scenario = q.scenario]
           x == Told(q.reach > c.neighborhood, "radius_truncated")
           y == Told(q.size > c.limit, "limit_truncated")
           told == x \o y
<1>1. p = Prepared(plan, {"neighborhood"}, told)
  BY DEF PlanNeighborhood
<1>2. q.reach \in Int /\ q.size \in Nat
  BY AskIs
<1>3. /\ reach = (IF q.reach > 4 THEN 4 ELSE q.reach) /\ size = (IF q.size > 200 THEN 200 ELSE q.size)
  BY ConfigIs DEF Capped
<1>4. /\ x \in {<<>>, <<"radius_truncated">>} /\ (q.reach > 4 => x # <<>>)
      /\ y \in {<<>>, <<"limit_truncated">>} /\ (q.size > 200 => y # <<>>)
  <2>1. c.neighborhood = 4 /\ c.limit = 200
    BY ConfigIs
  <2> HIDE DEF c
  <2> QED
    BY <2>1 DEF Told
<1> HIDE DEF told, x, y, reach, size, c
<1>5. plan.kind = "Neighborhood" /\ plan.reach = reach /\ plan.size = size
  BY DEF NoGraphPlan
<1> HIDE DEF plan
<1>6. p.plan = plan /\ p.reasons = told
  BY <1>1, PreparedIs
<1>7. q.reach > 4 \/ q.size > 200 => p.reasons # <<>>
  BY <1>4, <1>6, ReasonsAdd DEF told
<1>8. PlanIsBounded(q, p)
  BY <1>2, <1>3, <1>5, <1>6, <1>7 DEF PlanIsBounded
<1>9. PlanKindOf(q) = "Neighborhood"
  BY DEF PlanKindOf
<1> QED
  BY <1>5, <1>6, <1>8, <1>9, GraphQueriesAnswer DEF PlanAnswers

\* A subgraph's.
LEMMA SubgraphPlan ==
    ASSUME NEW q \in AskRecords, q.op = "subgraph",
           NEW p, p = PlanSubgraph(q, DefaultPlannerConfig), p.error = "none"
    PROVE  PlanIsBounded(q, p) /\ PlanAnswers(q, p)
<1> DEFINE c == DefaultPlannerConfig
           reach == Capped(q.reach, c.subgraph)
           size == Capped(q.size, c.nodes)
           plan == [NoGraphPlan EXCEPT !.kind = "Subgraph", !.index = "subgraph",
                                       !.reach = reach, !.size = size, !.scenario = q.scenario]
           x == Told(q.reach > c.subgraph, "radius_truncated")
           y == Told(q.size > c.nodes, "node_limit_truncated")
           told == x \o y
<1>1. q.seeds # 0 /\ p = Prepared(plan, {"subgraph"}, told)
  <2>1. RefusedQuery("seeds_required").error # "none"
    BY DEF RefusedQuery
  <2> QED
    BY <2>1 DEF PlanSubgraph
<1>2. q.reach \in Int /\ q.size \in Nat
  BY AskIs
<1>3. /\ reach = (IF q.reach > 5 THEN 5 ELSE q.reach) /\ size = (IF q.size > 500 THEN 500 ELSE q.size)
  BY ConfigIs DEF Capped
<1>4. /\ x \in {<<>>, <<"radius_truncated">>} /\ (q.reach > 5 => x # <<>>)
      /\ y \in {<<>>, <<"node_limit_truncated">>} /\ (q.size > 500 => y # <<>>)
  <2>1. c.subgraph = 5 /\ c.nodes = 500
    BY ConfigIs
  <2> HIDE DEF c
  <2> QED
    BY <2>1 DEF Told
<1> HIDE DEF told, x, y, reach, size, c
<1>5. plan.kind = "Subgraph" /\ plan.reach = reach /\ plan.size = size
  BY DEF NoGraphPlan
<1> HIDE DEF plan
<1>6. p.plan = plan /\ p.reasons = told
  BY <1>1, PreparedIs
<1>7. q.reach > 5 \/ q.size > 500 => p.reasons # <<>>
  BY <1>4, <1>6, ReasonsAdd DEF told
<1>8. PlanIsBounded(q, p)
  BY <1>2, <1>3, <1>5, <1>6, <1>7 DEF PlanIsBounded
<1>9. PlanKindOf(q) = "Subgraph"
  BY DEF PlanKindOf
<1> QED
  BY <1>1, <1>5, <1>6, <1>8, <1>9, GraphQueriesAnswer DEF PlanAnswers

\* An influence's.
LEMMA InfluencePlan ==
    ASSUME NEW q \in AskRecords, q.op = "influence",
           NEW p, p = PlanInfluence(q, DefaultPlannerConfig), p.error = "none"
    PROVE  PlanIsBounded(q, p) /\ PlanAnswers(q, p)
<1> DEFINE c == DefaultPlannerConfig
           reach == Capped(q.reach, c.influence)
           damping == Raised(Capped(q.damping, 100), 0)
           plan == [NoGraphPlan EXCEPT !.kind = "Influence", !.index = "influence",
                                       !.reach = reach, !.damping = damping, !.scenario = q.scenario]
           x == Told(q.reach > c.influence, "iterations_truncated")
           y == Told(q.damping # damping, "damping_clamped")
           told == x \o y
<1>1. q.seeds # 0 /\ p = Prepared(plan, {"influence"}, told)
  <2>1. RefusedQuery("seeds_required").error # "none"
    BY DEF RefusedQuery
  <2> QED
    BY <2>1 DEF PlanInfluence
<1>2. q.reach \in Int
  BY AskIs
<1>3. reach = (IF q.reach > 12 THEN 12 ELSE q.reach)
  BY ConfigIs DEF Capped
<1>4. /\ x \in {<<>>, <<"iterations_truncated">>} /\ (q.reach > 12 => x # <<>>)
      /\ y \in {<<>>, <<"damping_clamped">>}
  <2>1. c.influence = 12
    BY ConfigIs
  <2> HIDE DEF c, damping
  <2> QED
    BY <2>1 DEF Told
<1> HIDE DEF told, x, y, reach, damping, c
<1>5. plan.kind = "Influence" /\ plan.reach = reach /\ plan.size = 0
  BY DEF NoGraphPlan
<1> HIDE DEF plan
<1>6. p.plan = plan /\ p.reasons = told
  BY <1>1, PreparedIs
<1>7. q.reach > 12 => p.reasons # <<>>
  BY <1>4, <1>6, ReasonsAdd DEF told
<1>8. PlanIsBounded(q, p)
  BY <1>2, <1>3, <1>5, <1>6, <1>7 DEF PlanIsBounded
<1>9. PlanKindOf(q) = "Influence"
  BY DEF PlanKindOf
<1> QED
  BY <1>1, <1>5, <1>6, <1>8, <1>9, GraphQueriesAnswer DEF PlanAnswers

\* A similarity's.
LEMMA SimilarityPlan ==
    ASSUME NEW q \in AskRecords, q.op = "similarity",
           NEW p, p = PlanSimilarity(q, DefaultPlannerConfig)
    PROVE  PlanIsBounded(q, p) /\ PlanAnswers(q, p)
<1> DEFINE c == DefaultPlannerConfig
           index == IF q.vectors THEN "vector" ELSE "sparse"
           lost == ~q.vectors /\ q.strategy = "Vector"
           size == Capped(q.size, c.similar)
           strategy == IF lost THEN "Hybrid" ELSE q.strategy
           plan == [NoGraphPlan EXCEPT !.kind = "Similarity", !.index = index, !.size = size,
                                       !.types = q.types, !.strategy = strategy]
           x == Told(q.size > c.similar, "similarity_k_truncated")
           y == Told(lost, "vector_index_unavailable")
           told == x \o y
<1>1. p = Prepared(plan, {index}, told)
  BY DEF PlanSimilarity
<1>2. q.size \in Nat
  BY AskIs
<1>3. size = (IF q.size > 128 THEN 128 ELSE q.size)
  BY ConfigIs DEF Capped
<1>4. /\ x \in {<<>>, <<"similarity_k_truncated">>} /\ (q.size > 128 => x # <<>>)
      /\ y \in {<<>>, <<"vector_index_unavailable">>}
  <2>1. c.similar = 128
    BY ConfigIs
  <2> HIDE DEF c, lost
  <2> QED
    BY <2>1 DEF Told
<1> HIDE DEF told, x, y, size, strategy, index, lost, c
<1>5. plan.kind = "Similarity" /\ plan.reach = 0 /\ plan.size = size
  BY DEF NoGraphPlan
<1> HIDE DEF plan
<1>6. p.plan = plan /\ p.reasons = told
  BY <1>1, PreparedIs
<1>7. q.size > 128 => p.reasons # <<>>
  BY <1>4, <1>6, ReasonsAdd DEF told
<1>8. PlanIsBounded(q, p)
  BY <1>2, <1>3, <1>5, <1>6, <1>7 DEF PlanIsBounded
<1>9. PlanKindOf(q) = "Similarity"
  BY DEF PlanKindOf
<1> QED
  BY <1>5, <1>6, <1>8, <1>9, GraphQueriesAnswer DEF PlanAnswers

\* A pattern's.
LEMMA PatternPlan ==
    ASSUME NEW q \in AskRecords, q.op = "pattern", NEW p, p = PlanPattern(q, DefaultPlannerConfig)
    PROVE  PlanIsBounded(q, p) /\ PlanAnswers(q, p)
<1> DEFINE c == DefaultPlannerConfig
           size == Capped(q.size, c.pattern)
           plan == [NoGraphPlan EXCEPT !.kind = "Pattern", !.index = "pattern", !.size = size]
           told == Told(q.size > c.pattern, "limit_truncated")
<1>1. p = Prepared(plan, {"pattern"}, told)
  BY DEF PlanPattern
<1>2. q.size \in Nat
  BY AskIs
<1>3. size = (IF q.size > 100 THEN 100 ELSE q.size)
  BY ConfigIs DEF Capped
<1>4. q.size > 100 => told # <<>>
  <2>1. c.pattern = 100
    BY ConfigIs
  <2> HIDE DEF c
  <2> QED
    BY <2>1 DEF Told
<1> HIDE DEF told, size, c
<1>5. plan.kind = "Pattern" /\ plan.reach = 0 /\ plan.size = size
  BY DEF NoGraphPlan
<1> HIDE DEF plan
<1>6. p.plan = plan /\ p.reasons = told
  BY <1>1, PreparedIs
<1>8. PlanIsBounded(q, p)
  BY <1>2, <1>3, <1>4, <1>5, <1>6 DEF PlanIsBounded
<1>9. PlanKindOf(q) = "Pattern"
  BY DEF PlanKindOf
<1> QED
  BY <1>5, <1>6, <1>8, <1>9, GraphQueriesAnswer DEF PlanAnswers

\* A query of events, and what its plan cannot serve.
LEMMA EventsAnswer ==
    ASSUME NEW q \in AskRecords, q.op \in {"timeline", "causal"}, NEW plan,
           plan.scenario = q.scenario, q.tenant \in AllowedTenants,
           \/ /\ plan.kind = (IF q.op = "causal" THEN "Causal" ELSE "Timeline")
              /\ plan.types = PlannedTypes(q)
           \/ plan.kind = "SessionOrder" /\ q.op = "timeline"
    PROVE  (Executed(plan, q) = "none")
              <=> (plan.kind = "SessionOrder" \/ Fits(q.types, PlannedTypes(q)))
<1> DEFINE own == plan.kind = (IF q.op = "causal" THEN "Causal" ELSE "Timeline")
           a == Objection(ScenarioDiffers(plan, q)
                            /\ (own \/ (q.op = "timeline" /\ plan.kind = "SessionOrder")),
                          "scenario_mismatch")
           b == Objection(own /\ plan.scenario # "none" /\ plan.types # Unset
                            /\ ~(PrimaryTypes(plan.scenario) \subseteq plan.types),
                          "scenario_event_type_mismatch")
           d == Objection(own /\ ~Fits(q.types, plan.types), "event_type_mismatch")
<1>1. a = "none"
  BY DEF Objection, ScenarioDiffers
<1>2. b = "none"
  BY DEF Objection, PlannedTypes
<1>3. (d = "none") <=> (plan.kind = "SessionOrder" \/ Fits(q.types, PlannedTypes(q)))
  BY DEF Objection
<1>4. Executed(plan, q) = First(<<a, b, d>>)
  BY DEF Executed, ExecuteTimeline
<1> HIDE DEF a, b, d
<1> QED
  BY <1>1, <1>2, <1>3, <1>4, FirstOfThree

\* A timeline's is bounded, and serves it but for types its scenario leaves out.
LEMMA TimelinePlan ==
    ASSUME NEW q \in AskRecords, q.op = "timeline", NEW p, p = PlanTimeline(q)
    PROVE  /\ PlanIsBounded(q, p)
           /\ q.tenant \in AllowedTenants =>
                 ((Executed(p.plan, q) = "none") <=> (q.session \/ Fits(q.types, PlannedTypes(q))))
<1>1. CASE q.session
  <2> DEFINE plan == [NoGraphPlan EXCEPT !.kind = "SessionOrder", !.index = "session_order",
                                         !.scenario = q.scenario]
  <2>1. p = Prepared(plan, {"session_order"}, <<>>)
    BY <1>1 DEF PlanTimeline
  <2>2. plan.kind = "SessionOrder" /\ plan.reach = 0 /\ plan.size = 0 /\ plan.scenario = q.scenario
    BY DEF NoGraphPlan
  <2> HIDE DEF plan
  <2>3. p.plan = plan
    BY <2>1, PreparedIs
  <2>4. PlanIsBounded(q, p)
    BY <2>2, <2>3 DEF PlanIsBounded
  <2> QED
    BY <1>1, <2>2, <2>3, <2>4, EventsAnswer
<1>2. CASE ~q.session
  <2> DEFINE types == PlannedTypes(q)
             plan == [NoGraphPlan EXCEPT !.kind = "Timeline", !.index = "timeline",
                                         !.scenario = q.scenario, !.types = types]
  <2>1. p = Prepared(plan, {"timeline"}, <<>>)
    BY <1>2 DEF PlanTimeline
  <2> HIDE DEF types
  <2>2. /\ plan.kind = "Timeline" /\ plan.reach = 0 /\ plan.size = 0 /\ plan.scenario = q.scenario
        /\ plan.types = types
    BY DEF NoGraphPlan
  <2> HIDE DEF plan
  <2>3. p.plan = plan
    BY <2>1, PreparedIs
  <2>4. PlanIsBounded(q, p)
    BY <2>2, <2>3 DEF PlanIsBounded
  <2> QED
    BY <1>2, <2>2, <2>3, <2>4, EventsAnswer DEF types
<1> QED
  BY <1>1, <1>2

\* So does a causal query's.
LEMMA CausalPlan ==
    ASSUME NEW q \in AskRecords, q.op = "causal", NEW p, p = PlanCausal(q, DefaultPlannerConfig)
    PROVE  /\ PlanIsBounded(q, p)
           /\ q.tenant \in AllowedTenants =>
                 ((Executed(p.plan, q) = "none") <=> Fits(q.types, PlannedTypes(q)))
<1> DEFINE c == DefaultPlannerConfig
           asked == Or(q.reach, c.causal)
           reach == Capped(asked, c.maxCausal)
           types == PlannedTypes(q)
           plan == [NoGraphPlan EXCEPT !.kind = "Causal", !.index = "causal", !.reach = reach,
                                       !.scenario = q.scenario, !.types = types]
           told == Told(asked > c.causal, "depth_truncated")
<1>1. p = Prepared(plan, {"causal", "timeline"}, told)
  BY DEF PlanCausal
<1>2. q.reach \in Int /\ q.reach >= -1 /\ asked \in Int /\ asked = IF q.reach = -1 THEN 2 ELSE q.reach
  BY AskIs, ConfigIs DEF Or
<1>3. reach = (IF asked > 4 THEN 4 ELSE asked)
  BY ConfigIs DEF Capped
<1>4. asked > 2 => told # <<>>
  <2>1. c.causal = 2
    BY ConfigIs
  <2> HIDE DEF c, asked
  <2> QED
    BY <2>1 DEF Told
<1> HIDE DEF told, reach, types, asked, c
<1>5. /\ plan.kind = "Causal" /\ plan.reach = reach /\ plan.size = 0 /\ plan.scenario = q.scenario
      /\ plan.types = types
  BY DEF NoGraphPlan
<1> HIDE DEF plan
<1>6. p.plan = plan /\ p.reasons = told
  BY <1>1, PreparedIs
<1>7. PlanIsBounded(q, p)
  BY <1>2, <1>3, <1>4, <1>5, <1>6 DEF PlanIsBounded
<1> QED
  BY <1>5, <1>6, <1>7, EventsAnswer DEF types

\* A recall's is bounded and serves it.
LEMMA RecallPlan ==
    ASSUME NEW q \in AskRecords, q.op = "recall", NEW p, p = PlanRecall(q)
    PROVE  PlanIsBounded(q, p) /\ PlanAnswers(q, p)
<1> DEFINE base == [NoGraphPlan EXCEPT !.size = q.size, !.types = q.types, !.scenes = q.scenes]
           kind == IF q.vectors THEN "VectorAnn" ELSE "SparseBm25"
           index == IF q.vectors THEN "vector" ELSE "sparse"
           told == IF q.vectors THEN <<>> ELSE <<"sparse_only">>
           plan == [base EXCEPT !.kind = kind, !.index = index]
<1>1. p = Prepared(plan, {index}, told)
  BY DEF PlanRecall
<1>2. kind \in {"VectorAnn", "SparseBm25"}
  OBVIOUS
<1> HIDE DEF kind, index, told
<1>3. /\ base = [base EXCEPT !.kind = base.kind]
      /\ "kind" \in DOMAIN base /\ "index" \in DOMAIN base
      /\ base.reach = 0 /\ base.size = q.size /\ base.types = q.types /\ base.scenes = q.scenes
  BY DEF NoGraphPlan
<1> HIDE DEF base
<1>4. /\ plan.kind = kind /\ plan.reach = 0 /\ plan.types = q.types /\ plan.scenes = q.scenes
  BY <1>3
<1> HIDE DEF plan
<1>5. p.plan = plan
  BY <1>1, PreparedIs
<1>6. PlanIsBounded(q, p)
  BY <1>2, <1>4, <1>5 DEF PlanIsBounded
<1>7. ASSUME q.tenant \in AllowedTenants PROVE Executed(plan, q) = "none"
  <2> DEFINE recall == plan.kind \in {"VectorAnn", "SparseBm25"}
             causal == plan.kind = "Causal"
             a == Objection(recall /\ ~Fits(q.scenes, plan.scenes), "scene_mismatch")
             b == Objection(causal /\ plan.scenario # "none" /\ q.scenes # Unset
                              /\ plan.scenario \notin q.scenes, "scenario_mismatch")
             d == Objection((recall \/ causal) /\ ~Fits(q.types, plan.types), "event_type_mismatch")
  <2>1. a = "none" /\ b = "none" /\ d = "none"
    BY <1>2, <1>4 DEF Objection, Fits
  <2>2. Executed(plan, q) = First(<<a, b, d>>)
    BY <1>7 DEF Executed, ExecuteRecall
  <2> HIDE DEF a, b, d
  <2> QED
    BY <2>1, <2>2, FirstOfThree
<1> QED
  BY <1>5, <1>6, <1>7 DEF PlanAnswers

\* A hybrid query's is bounded; nothing executes it.
LEMMA HybridPlan ==
    ASSUME NEW q \in AskRecords, q.op = "hybrid", NEW p, p = PlanHybrid(q)
    PROVE  PlanIsBounded(q, p)
<1> DEFINE plan == [NoGraphPlan EXCEPT !.kind = "Hybrid", !.size = q.size]
<1>1. p = Prepared(plan, {"vector", "sparse", "causal"}, <<>>)
  BY DEF PlanHybrid
<1>2. plan.kind = "Hybrid" /\ plan.reach = 0
  BY DEF NoGraphPlan
<1> HIDE DEF plan
<1>3. p.plan = plan
  BY <1>1, PreparedIs
<1> QED
  BY <1>2, <1>3 DEF PlanIsBounded

\* The terms of a subscription.
LEMMA LiveTermsAre ==
    ASSUME NEW q \in AskRecords
    PROVE  LET t == LiveTerms(q.live, DefaultPlannerConfig)
               rate == IF q.live.rate = -1 THEN 20 ELSE IF q.live.rate = 0 THEN 1 ELSE q.live.rate
               buffer == IF q.live.buffer = -1 THEN 500 ELSE q.live.buffer IN
           /\ t.rate \in Int /\ t.heartbeat \in Int /\ t.idle \in Int /\ t.buffer \in Int
           /\ t.rate = (IF rate > 60 THEN 60 ELSE rate)
           /\ t.buffer = (IF buffer > 500 THEN 500 ELSE IF buffer = 0 THEN 1 ELSE buffer)
           /\ t.heartbeat >= q.live.heartbeat /\ t.idle >= q.live.idle
           /\ t.idle >= 2 * t.heartbeat
           /\ q.live.mode # "none" => t.mode = q.live.mode
           /\ Raised(Or(q.live.rate, DefaultPlannerConfig.rate), 1) = rate
           /\ Or(q.live.buffer, DefaultPlannerConfig.buffer) = buffer
<1> DEFINE c == DefaultPlannerConfig
           a == q.live
           heartbeat == Raised(Or(a.heartbeat, c.heartbeat), c.minHeartbeat)
           rate == Capped(Raised(Or(a.rate, c.rate), 1), c.maxRate)
           idle == Raised(Or(a.idle, c.idle), 2 * heartbeat)
           buffer == Raised(Capped(Or(a.buffer, c.buffer), c.buffer), 1)
           mode == IF a.mode = "none" THEN c.mode ELSE a.mode
           t == LiveTerms(a, c)
<1>1. /\ a.rate \in Int /\ a.rate >= -1 /\ a.heartbeat \in Int /\ a.heartbeat >= -1
      /\ a.idle \in Int /\ a.idle >= -1 /\ a.buffer \in Int /\ a.buffer >= -1
  BY AskIs
<1>2. /\ c.rate = 20 /\ c.maxRate = 60 /\ c.heartbeat = 3000 /\ c.minHeartbeat = 500 /\ c.idle = 10000
      /\ c.buffer = 500
  BY ConfigIs
<1> HIDE DEF c, a
<1>3. t = [rate |-> rate, heartbeat |-> heartbeat, idle |-> idle, buffer |-> buffer, mode |-> mode]
  BY DEF LiveTerms
<1>4. heartbeat \in Int /\ heartbeat >= a.heartbeat
  BY <1>1, <1>2 DEF Raised, Or
<1>5. /\ rate \in Int
      /\ Raised(Or(a.rate, c.rate), 1) = (IF a.rate = -1 THEN 20 ELSE IF a.rate = 0 THEN 1 ELSE a.rate)
      /\ rate = LET r == IF a.rate = -1 THEN 20 ELSE IF a.rate = 0 THEN 1 ELSE a.rate IN
                IF r > 60 THEN 60 ELSE r
  BY <1>1, <1>2 DEF Raised, Or, Capped
<1>6. /\ buffer \in Int
      /\ Or(a.buffer, c.buffer) = (IF a.buffer = -1 THEN 500 ELSE a.buffer)
      /\ buffer = LET b == IF a.buffer = -1 THEN 500 ELSE a.buffer IN
                  IF b > 500 THEN 500 ELSE IF b = 0 THEN 1 ELSE b
  BY <1>1, <1>2 DEF Raised, Or, Capped
<1>7. idle \in Int /\ idle >= a.idle /\ idle >= 2 * heartbeat
  <2> HIDE DEF heartbeat
  <2> QED
    BY <1>1, <1>2, <1>4 DEF Raised, Or
<1>8. a.mode # "none" => mode = a.mode
  OBVIOUS
<1> HIDE DEF heartbeat, rate, idle, buffer, mode
<1>9. t.rate = rate /\ t.heartbeat = heartbeat /\ t.idle = idle /\ t.buffer = buffer /\ t.mode = mode
  BY <1>3
<1> HIDE DEF t
<1> QED
  BY <1>4, <1>5, <1>6, <1>7, <1>8, <1>9 DEF t, a, c

\* A subscription's is bounded, and serves it unless it asks for nothing or its rate is
\* above what the executor allows.
LEMMA LivePlan ==
    ASSUME NEW q \in AskRecords, q.op = "live", NEW p, p = PlanLive(q, DefaultPlannerConfig)
    PROVE  /\ PlanIsBounded(q, p)
           /\ q.tenant \in AllowedTenants =>
                 ((Executed(p.plan, q) = "none")
                     <=> ~(q.live.rate = 0 \/ q.live.buffer = 0 \/ p.plan.live.rate > LiveCap))
<1> DEFINE c == DefaultPlannerConfig
           a == q.live
           t == LiveTerms(a, c)
           plan == [NoGraphPlan EXCEPT !.kind = "Live", !.live = t, !.scenario = q.scenario]
           rate == IF a.rate = -1 THEN 20 ELSE IF a.rate = 0 THEN 1 ELSE a.rate
           buffer == IF a.buffer = -1 THEN 500 ELSE a.buffer
           told == IF t.rate # Raised(Or(a.rate, c.rate), 1) THEN <<"rate_clamped">>
                   ELSE Told(t.buffer # Or(a.buffer, c.buffer), "buffer_clamped")
<1>1. p = Prepared(plan, {}, told)
  BY DEF PlanLive
<1>2. /\ a.rate \in Int /\ a.rate >= -1 /\ a.heartbeat \in Int /\ a.idle \in Int
      /\ a.buffer \in Int /\ a.buffer >= -1
  BY AskIs
<1>3. /\ t.rate \in Int /\ t.heartbeat \in Int /\ t.idle \in Int /\ t.buffer \in Int
      /\ t.rate = (IF rate > 60 THEN 60 ELSE rate)
      /\ t.buffer = (IF buffer > 500 THEN 500 ELSE IF buffer = 0 THEN 1 ELSE buffer)
      /\ t.heartbeat >= a.heartbeat /\ t.idle >= a.idle
      /\ t.idle >= 2 * t.heartbeat
      /\ a.mode # "none" => t.mode = a.mode
      /\ Raised(Or(a.rate, c.rate), 1) = rate
      /\ Or(a.buffer, c.buffer) = buffer
  BY LiveTermsAre
<1>4. rate > 60 \/ buffer > 500 => told # <<>>
  <2> HIDE DEF t, rate, buffer
  <2>1. <<"rate_clamped">> # <<>> /\ <<"buffer_clamped">> # <<>>
    OBVIOUS
  <2>2. rate \in Int /\ buffer \in Int
    BY <1>2 DEF rate, buffer
  <2>3. CASE t.rate # rate
    BY <1>3, <2>1, <2>3
  <2>4. CASE t.rate = rate
    <3>1. ~(rate > 60)
      BY <1>3, <2>2, <2>4
    <3>2. buffer > 500 => t.buffer # buffer
      BY <1>3, <2>2
    <3> QED
      BY <1>3, <2>1, <2>4, <3>1, <3>2 DEF Told
  <2> QED
    BY <2>3, <2>4
<1> HIDE DEF t, told
<1>5. plan.kind = "Live" /\ plan.live = t /\ plan.reach = 0 /\ plan.size = 0 /\ plan.scenario = q.scenario
  BY DEF NoGraphPlan
<1> HIDE DEF plan
<1>6. p.plan = plan /\ p.reasons = told
  BY <1>1, PreparedIs
<1>7. a.rate > t.rate \/ a.buffer > t.buffer => told # <<>>
  BY <1>2, <1>3, <1>4
<1>8. PlanIsBounded(q, p)
  BY <1>3, <1>5, <1>6, <1>7 DEF PlanIsBounded
<1>9. ASSUME q.tenant \in AllowedTenants
      PROVE  (Executed(plan, q) = "none") <=> ~(a.rate = 0 \/ a.buffer = 0 \/ t.rate > LiveCap)
  <2> DEFINE o1 == Objection(plan.live.rate > LiveCap, "rate_exceeds_cap")
             o2 == Objection(ScenarioDiffers(plan, q), "scene_mismatch")
             o3 == Objection(q.live.rate # -1 /\ plan.live.rate > q.live.rate /\ LiveCap >= q.live.rate,
                             "rate_clamped_without_consent")
             o4 == Objection(plan.live.heartbeat < q.live.heartbeat, "heartbeat_mismatch")
             o5 == Objection(plan.live.idle < q.live.idle, "idle_timeout_mismatch")
             o6 == Objection(q.live.buffer # -1 /\ plan.live.buffer > q.live.buffer,
                             "buffer_clamped_without_consent")
             o7 == Objection(Differs(q.live.mode, plan.live.mode), "backpressure_mismatch")
  <2>1. Executed(plan, q) = First(<<o1, o2, o3, o4, o5, o6, o7>>)
    BY <1>5, <1>9 DEF Executed, ExecuteLive
  <2>2. (o1 = "none") <=> ~(t.rate > LiveCap)
    BY <1>5 DEF Objection
  <2>3. o2 = "none"
    BY <1>5 DEF Objection, ScenarioDiffers
  <2>4. (o3 = "none") <=> ~(a.rate = 0)
    <3>1. (a.rate # -1 /\ t.rate > a.rate) <=> a.rate = 0
      BY <1>2, <1>3
    <3>2. a.rate = 0 => LiveCap >= a.rate
      BY GraphAssumption
    <3> QED
      BY <1>5, <3>1, <3>2 DEF Objection
  <2>5. o4 = "none" /\ o5 = "none"
    BY <1>2, <1>3, <1>5 DEF Objection
  <2>6. (o6 = "none") <=> ~(a.buffer = 0)
    <3>1. (a.buffer # -1 /\ t.buffer > a.buffer) <=> a.buffer = 0
      BY <1>2, <1>3
    <3> QED
      BY <1>5, <3>1 DEF Objection
  <2>7. o7 = "none"
    BY <1>3, <1>5 DEF Objection, Differs
  <2> HIDE DEF o1, o2, o3, o4, o5, o6, o7
  <2> QED
    BY <2>1, <2>2, <2>3, <2>4, <2>5, <2>6, <2>7, FirstOfSeven
<1> QED
  BY <1>5, <1>6, <1>8, <1>9

\* A plan of awareness events serves the filters it was made of, whatever else it tells.
LEMMA AwarenessPlan ==
    ASSUME NEW q \in AskRecords, NEW filters, NEW size \in Nat
    PROVE  LET p == PlanAwareness(filters, size, DefaultPlannerConfig) IN
           /\ p.error = "none" /\ p.plan.kind = "Awareness" /\ p.plan.filters = filters
           /\ p.plan.reach = 0 /\ p.plan.size <= 500
           /\ ExecuteAwareness(p.plan, filters) = "none"
           /\ "reasons" \in DOMAIN p
           /\ \A told : /\ [p EXCEPT !.reasons = told].error = "none"
                        /\ [p EXCEPT !.reasons = told].plan = p.plan
<1> DEFINE c == DefaultPlannerConfig
           most == Raised(Capped(size, c.limit), 1)
           index == AwarenessIndex(filters)
           plan == [NoGraphPlan EXCEPT !.kind = "Awareness", !.index = index, !.filters = filters,
                                       !.size = most]
           p == PlanAwareness(filters, size, c)
<1>1. p = Prepared(plan, {index, "cycle"}, <<>>)
  BY DEF PlanAwareness
<1>2. most \in Int /\ most <= 500
  BY ConfigIs DEF Raised, Capped
<1> HIDE DEF most, index, c
<1>3. /\ plan.kind = "Awareness" /\ plan.filters = filters /\ plan.reach = 0 /\ plan.size = most
  BY DEF NoGraphPlan
<1> HIDE DEF plan
<1>4. /\ p.plan = plan /\ p.error = "none" /\ "reasons" \in DOMAIN p
      /\ \A told : [p EXCEPT !.reasons = told].error = "none" /\ [p EXCEPT !.reasons = told].plan = plan
  BY <1>1 DEF Prepared
<1> HIDE DEF p
<1>5. ExecuteAwareness(plan, filters) = "none"
  <2> DEFINE o1 == Objection(Differs(plan.filters.cycle, filters.cycle), "awareness_cycle_mismatch")
             o2 == Objection(Differs(plan.filters.parent, filters.parent), "parent_cycle_mismatch")
             o3 == Objection(Differs(plan.filters.collab, filters.collab), "collab_scope_mismatch")
             o4 == Objection(Differs(plan.filters.barrier, filters.barrier), "barrier_mismatch")
             o5 == Objection(Differs(plan.filters.env, filters.env), "env_mode_mismatch")
             o6 == Objection(plan.filters.sequence \notin {-1, filters.sequence}, "ic_sequence_mismatch")
             o7 == Objection(~Fits(filters.types, plan.filters.types), "event_type_mismatch")
             o8 == Objection(~Fits(filters.reasons, plan.filters.reasons), "degradation_mismatch")
             o9 == Objection(~Fits(filters.kinds, plan.filters.kinds), "sync_point_kind_mismatch")
  <2>1. ExecuteAwareness(plan, filters) = First(<<o1, o2, o3, o4, o5, o6, o7, o8, o9>>)
    BY <1>3 DEF ExecuteAwareness
  <2>2. /\ o1 = "none" /\ o2 = "none" /\ o3 = "none" /\ o4 = "none" /\ o5 = "none"
        /\ o6 = "none" /\ o7 = "none" /\ o8 = "none" /\ o9 = "none"
    BY <1>3 DEF Objection, Differs, Fits
  <2> HIDE DEF o1, o2, o3, o4, o5, o6, o7, o8, o9
  <2> QED
    BY <2>1, <2>2, FirstOfNine
<1> QED
  BY <1>2, <1>3, <1>4, <1>5 DEF p, c

\* Whatever is asked, its plan is bounded, tells what it cuts, and answers what it was
\* made of but for what the property names.
LEMMA PlansServe ==
    ASSUME NEW q \in AskRecords, asking.prepared = PlanQuery(q, DefaultPlannerConfig),
           asking.prepared.error = "none"
    PROVE  /\ PlanIsBounded(q, asking.prepared)
           /\ q.op # "hybrid" => ((Executed(asking.prepared.plan, q) = "none") <=> ~Unservable(q))
<1> DEFINE c == DefaultPlannerConfig
           p == asking.prepared
<1>1. CASE q.tenant = 0 /\ q.op # "hybrid"
  <2>1. p = RefusedQuery("AuthForbidden")
    BY <1>1 DEF PlanQuery
  <2> QED
    BY <2>1 DEF RefusedQuery
<1>2. CASE ~(q.tenant = 0 /\ q.op # "hybrid")
  <2>0. q.tenant \notin AllowedTenants => Executed(p.plan, q) = "AuthForbidden" /\ Unservable(q)
    BY DEF Executed, Unservable
  <2>1. CASE q.op = "timeline"
    <3>1. p = PlanTimeline(q)
      BY <1>2, <2>1 DEF PlanQuery
    <3>2. q.tenant \in AllowedTenants =>
             (Unservable(q) <=> (~q.session /\ ~Fits(q.types, PlannedTypes(q))))
      BY <2>1 DEF Unservable
    <3> QED
      BY <2>0, <2>1, <3>1, <3>2, TimelinePlan
  <2>2. CASE q.op = "causal"
    <3>1. p = PlanCausal(q, c)
      BY <1>2, <2>2 DEF PlanQuery
    <3>2. q.tenant \in AllowedTenants => (Unservable(q) <=> ~Fits(q.types, PlannedTypes(q)))
      BY <2>2 DEF Unservable
    <3> QED
      BY <2>0, <2>2, <3>1, <3>2, CausalPlan
  <2>3. CASE q.op = "live"
    <3>1. p = PlanLive(q, c)
      BY <1>2, <2>3 DEF PlanQuery
    <3>2. q.tenant \in AllowedTenants =>
            (Unservable(q) <=> (q.live.rate = 0 \/ q.live.buffer = 0 \/ p.plan.live.rate > LiveCap))
      BY <2>3 DEF Unservable
    <3> QED
      BY <2>0, <2>3, <3>1, <3>2, LivePlan
  <2>4. CASE q.op \in {"path", "neighborhood", "subgraph", "similarity", "influence", "pattern", "recall"}
    <3>1. PlanIsBounded(q, p) /\ PlanAnswers(q, p)
      <4>1. CASE q.op = "path"
        <5>1. p = PlanPath(q, c)
          BY <1>2, <4>1 DEF PlanQuery
        <5> QED
          BY <4>1, <5>1, PathPlan
      <4>2. CASE q.op = "neighborhood"
        <5>1. p = PlanNeighborhood(q, c)
          BY <1>2, <4>2 DEF PlanQuery
        <5> QED
          BY <4>2, <5>1, NeighborhoodPlan
      <4>3. CASE q.op = "subgraph"
        <5>1. p = PlanSubgraph(q, c)
          BY <1>2, <4>3 DEF PlanQuery
        <5> QED
          BY <4>3, <5>1, SubgraphPlan
      <4>4. CASE q.op = "similarity"
        <5>1. p = PlanSimilarity(q, c)
          BY <1>2, <4>4 DEF PlanQuery
        <5> QED
          BY <4>4, <5>1, SimilarityPlan
      <4>5. CASE q.op = "influence"
        <5>1. p = PlanInfluence(q, c)
          BY <1>2, <4>5 DEF PlanQuery
        <5> QED
          BY <4>5, <5>1, InfluencePlan
      <4>6. CASE q.op = "pattern"
        <5>1. p = PlanPattern(q, c)
          BY <1>2, <4>6 DEF PlanQuery
        <5> QED
          BY <4>6, <5>1, PatternPlan
      <4>7. CASE q.op = "recall"
        <5>1. p = PlanRecall(q)
          BY <1>2, <4>7 DEF PlanQuery
        <5> QED
          BY <4>7, <5>1, RecallPlan
      <4> QED
        BY <2>4, <4>1, <4>2, <4>3, <4>4, <4>5, <4>6, <4>7
    <3>2. q.tenant \in AllowedTenants => ~Unservable(q)
      BY <2>4 DEF Unservable
    <3> QED
      BY <2>0, <3>1, <3>2 DEF PlanAnswers
  <2>5. CASE q.op = "hybrid"
    <3>1. p = PlanHybrid(q)
      BY <1>2, <2>5 DEF PlanQuery
    <3> QED
      BY <2>5, <3>1, HybridPlan
  <2>6. CASE q.op \in {"awareness", "explain"}
    <3> DEFINE filters == IF q.op = "awareness" THEN q.filters ELSE ExplainFilters(q)
               base == PlanAwareness(filters, q.size, c)
    <3>1. q.size \in Nat
      BY AskIs
    <3>2. /\ base.plan.kind = "Awareness" /\ base.plan.filters = filters
          /\ base.plan.reach = 0 /\ base.plan.size <= 500
          /\ ExecuteAwareness(base.plan, filters) = "none"
          /\ \A told : [base EXCEPT !.reasons = told].plan = base.plan
      <4> HIDE DEF filters
      <4> QED
        BY <3>1, AwarenessPlan
    <3>3. p.plan = base.plan
      <4>1. CASE q.op = "awareness"
        BY <1>2, <4>1 DEF PlanQuery
      <4>2. CASE q.op = "explain"
        <5>1. p = PlanExplain(q, c)
          BY <1>2, <4>2 DEF PlanQuery
        <5>2. p = [base EXCEPT !.reasons = Told(q.forks, "fork_filter_not_supported")]
          BY <4>2, <5>1 DEF PlanExplain
        <5> HIDE DEF base
        <5> QED
          BY <3>2, <5>2
      <4> QED
        BY <2>6, <4>1, <4>2
    <3>4. q.tenant \in AllowedTenants => Executed(p.plan, q) = ExecuteAwareness(p.plan, filters)
      BY <2>6 DEF Executed
    <3> HIDE DEF base, filters
    <3>5. q.tenant \in AllowedTenants => ~Unservable(q)
      BY <2>6 DEF Unservable
    <3>6. PlanIsBounded(q, p)
      BY <2>6, <3>2, <3>3 DEF PlanIsBounded
    <3> QED
      BY <2>0, <3>2, <3>3, <3>4, <3>5, <3>6
  <2> QED
    BY <2>1, <2>2, <2>3, <2>4, <2>5, <2>6, AskIs DEF QueryKinds
<1> QED
  BY <1>1, <1>2

\* What the plan of a query keeps of it, for the executors to compare.
PlanKeeps(q, plan) ==
    /\ q.op \in GraphKinds => plan.kind = PlanKindOf(q)
    /\ q.op \notin GraphKinds =>
          plan.kind \notin {"Path", "Neighborhood", "Subgraph", "Similarity", "Influence", "Pattern"}
    /\ q.op \in {"timeline", "causal", "live"} => plan.scenario = q.scenario
    /\ q.op = "timeline" => plan.kind = IF q.session THEN "SessionOrder" ELSE "Timeline"
    /\ q.op = "causal" => plan.kind = "Causal"
    /\ q.op \in {"timeline", "causal"} /\ ~(q.op = "timeline" /\ q.session)
          => plan.types = PlannedTypes(q)
    /\ q.op = "recall" =>
          /\ plan.kind \in {"VectorAnn", "SparseBm25"}
          /\ plan.scenes = q.scenes /\ plan.types = q.types
    /\ q.op \in {"awareness", "explain"} => plan.kind = "Awareness" /\ plan.filters = FiltersOf(q)
    /\ q.op = "live" => plan.kind = "Live" /\ plan.live = LiveTerms(q.live, DefaultPlannerConfig)

\* Each planner keeps it.
LEMMA PlansKeep ==
    ASSUME NEW q \in AskRecords, NEW p, p = PlanQuery(q, DefaultPlannerConfig), p.error = "none"
    PROVE  PlanKeeps(q, p.plan)
<1> DEFINE c == DefaultPlannerConfig
<1>0. ~(q.tenant = 0 /\ q.op # "hybrid")
  BY DEF PlanQuery, RefusedQuery
<1>1. CASE q.op = "timeline"
  BY <1>0, <1>1 DEF PlanQuery, PlanTimeline, Prepared, NoGraphPlan, PlanKeeps, GraphKinds
<1>2. CASE q.op = "causal"
  BY <1>0, <1>2 DEF PlanQuery, PlanCausal, Prepared, NoGraphPlan, PlanKeeps, GraphKinds
<1>3. CASE q.op = "path"
  BY <1>0, <1>3 DEF PlanQuery, PlanPath, Prepared, RefusedQuery, NoGraphPlan, PlanKeeps, GraphKinds,
                    PlanKindOf
<1>4. CASE q.op = "neighborhood"
  BY <1>0, <1>4 DEF PlanQuery, PlanNeighborhood, Prepared, NoGraphPlan, PlanKeeps, GraphKinds, PlanKindOf
<1>5. CASE q.op = "subgraph"
  BY <1>0, <1>5 DEF PlanQuery, PlanSubgraph, Prepared, RefusedQuery, NoGraphPlan, PlanKeeps, GraphKinds,
                    PlanKindOf
<1>6. CASE q.op = "recall"
  BY <1>0, <1>6 DEF PlanQuery, PlanRecall, Prepared, NoGraphPlan, PlanKeeps, GraphKinds
<1>7. CASE q.op = "similarity"
  BY <1>0, <1>7 DEF PlanQuery, PlanSimilarity, Prepared, NoGraphPlan, PlanKeeps, GraphKinds, PlanKindOf
<1>8. CASE q.op = "hybrid"
  BY <1>0, <1>8 DEF PlanQuery, PlanHybrid, Prepared, NoGraphPlan, PlanKeeps, GraphKinds
<1>9. CASE q.op = "influence"
  BY <1>0, <1>9 DEF PlanQuery, PlanInfluence, Prepared, RefusedQuery, NoGraphPlan, PlanKeeps, GraphKinds,
                    PlanKindOf
<1>10. CASE q.op = "pattern"
  BY <1>0, <1>10 DEF PlanQuery, PlanPattern, Prepared, NoGraphPlan, PlanKeeps, GraphKinds, PlanKindOf
<1>11. CASE q.op = "live"
  BY <1>0, <1>11 DEF PlanQuery, PlanLive, Prepared, NoGraphPlan, PlanKeeps, GraphKinds
<1>12. CASE q.op = "awareness"
  BY <1>0, <1>12 DEF PlanQuery, PlanAwareness, Prepared, NoGraphPlan, PlanKeeps, GraphKinds, FiltersOf
<1>13. CASE q.op = "explain"
  BY <1>0, <1>13 DEF PlanQuery, PlanExplain, PlanAwareness, Prepared, NoGraphPlan, PlanKeeps, GraphKinds,
                     FiltersOf
<1> QED
  BY <1>1, <1>2, <1>3, <1>4, <1>5, <1>6, <1>7, <1>8, <1>9, <1>10, <1>11, <1>12, <1>13, AskIs DEF QueryKinds

\* A query of the graph is answered by a plan of its own kind only.
LEMMA GraphKindsServe ==
    ASSUME NEW q \in AskRecords, NEW other \in AskRecords, NEW plan, PlanKeeps(q, plan),
           other.op \in GraphKinds, Executed(plan, other) = "none"
    PROVE  q.op = other.op
<1> DEFINE a == Objection(other.op = "subgraph" /\ other.seeds = 0, "seeds_required")
           b == Objection(plan.kind # PlanKindOf(other), "NoIndexPlan")
           d == Objection(other.op = "influence" /\ other.seeds = 0, "seeds_required")
<1>1. First(<<a, b, d>>) = "none"
  BY DEF Executed, ExecuteGraph, GraphKinds
<1>2. b = "none"
  <2> HIDE DEF a, b, d
  <2> QED
    BY <1>1, FirstOfThree
<1>3. plan.kind = PlanKindOf(other)
  BY <1>2 DEF Objection
<1>4. q.op \in GraphKinds
  BY <1>3 DEF PlanKeeps, PlanKindOf, GraphKinds
<1> QED
  BY <1>3, <1>4 DEF PlanKeeps, PlanKindOf, GraphKinds

\* A timeline or a causal query is answered by a plan of its kind within the plan's
\* scenario and types.
LEMMA EventsServe ==
    ASSUME NEW q \in AskRecords, NEW other \in AskRecords, NEW plan, PlanKeeps(q, plan),
           other.op = q.op, q.op \in {"timeline", "causal"}, Executed(plan, other) = "none"
    PROVE  /\ ScenarioShared(other, q)
           /\ ~(q.op = "timeline" /\ q.session) => Fits(other.types, PlannedTypes(q))
<1> DEFINE own == plan.kind = (IF other.op = "causal" THEN "Causal" ELSE "Timeline")
           a == Objection(ScenarioDiffers(plan, other)
                            /\ (own \/ (other.op = "timeline" /\ plan.kind = "SessionOrder")),
                          "scenario_mismatch")
           b == Objection(own /\ plan.scenario # "none" /\ plan.types # Unset
                            /\ ~(PrimaryTypes(plan.scenario) \subseteq plan.types),
                          "scenario_event_type_mismatch")
           d == Objection(own /\ ~Fits(other.types, plan.types), "event_type_mismatch")
<1>1. First(<<a, b, d>>) = "none"
  BY DEF Executed, ExecuteTimeline
<1>2. a = "none" /\ d = "none"
  <2> HIDE DEF a, b, d
  <2> QED
    BY <1>1, FirstOfThree
<1>3. own \/ (other.op = "timeline" /\ plan.kind = "SessionOrder")
  BY DEF PlanKeeps
<1>4. ~ScenarioDiffers(plan, other)
  BY <1>2, <1>3 DEF Objection
<1>5. ScenarioShared(other, q)
  BY <1>4 DEF ScenarioDiffers, ScenarioShared, PlanKeeps
<1>6. ASSUME ~(q.op = "timeline" /\ q.session) PROVE Fits(other.types, PlannedTypes(q))
  <2>1. own /\ plan.types = PlannedTypes(q)
    BY <1>6 DEF PlanKeeps
  <2> QED
    BY <1>2, <2>1 DEF Objection
<1> QED
  BY <1>5, <1>6

\* A recall is answered by a plan of a recall within the plan's scenes and types.
LEMMA RecallServes ==
    ASSUME NEW q \in AskRecords, NEW other \in AskRecords, NEW plan, PlanKeeps(q, plan),
           other.op = q.op, q.op = "recall", Executed(plan, other) = "none"
    PROVE  Fits(other.scenes, q.scenes) /\ Fits(other.types, q.types)
<1> DEFINE recall == plan.kind \in {"VectorAnn", "SparseBm25"}
           causal == plan.kind = "Causal"
           a == Objection(recall /\ ~Fits(other.scenes, plan.scenes), "scene_mismatch")
           b == Objection(causal /\ plan.scenario # "none" /\ other.scenes # Unset
                            /\ plan.scenario \notin other.scenes, "scenario_mismatch")
           d == Objection((recall \/ causal) /\ ~Fits(other.types, plan.types), "event_type_mismatch")
<1>1. First(<<a, b, d>>) = "none"
  BY DEF Executed, ExecuteRecall
<1>2. a = "none" /\ d = "none"
  <2> HIDE DEF a, b, d
  <2> QED
    BY <1>1, FirstOfThree
<1> QED
  BY <1>2 DEF Objection, PlanKeeps

\* What asks for awareness events is answered by a plan of such within the plan's filters.
LEMMA AwarenessServes ==
    ASSUME NEW q \in AskRecords, NEW other \in AskRecords, NEW plan, PlanKeeps(q, plan),
           other.op \in {"awareness", "explain"}, q.op \in {"awareness", "explain"},
           Executed(plan, other) = "none"
    PROVE  FiltersWithin(FiltersOf(other), FiltersOf(q))
<1> DEFINE f == FiltersOf(other)
           given == FiltersOf(q)
<1>1. plan.kind = "Awareness" /\ plan.filters = given
  BY DEF PlanKeeps
<1>2. ExecuteAwareness(plan, f) = "none"
  BY DEF Executed, FiltersOf
<1> HIDE DEF f, given
<1> DEFINE o1 == Objection(Differs(plan.filters.cycle, f.cycle), "awareness_cycle_mismatch")
           o2 == Objection(Differs(plan.filters.parent, f.parent), "parent_cycle_mismatch")
           o3 == Objection(Differs(plan.filters.collab, f.collab), "collab_scope_mismatch")
           o4 == Objection(Differs(plan.filters.barrier, f.barrier), "barrier_mismatch")
           o5 == Objection(Differs(plan.filters.env, f.env), "env_mode_mismatch")
           o6 == Objection(plan.filters.sequence \notin {-1, f.sequence}, "ic_sequence_mismatch")
           o7 == Objection(~Fits(f.types, plan.filters.types), "event_type_mismatch")
           o8 == Objection(~Fits(f.reasons, plan.filters.reasons), "degradation_mismatch")
           o9 == Objection(~Fits(f.kinds, plan.filters.kinds), "sync_point_kind_mismatch")
<1>3. First(<<o1, o2, o3, o4, o5, o6, o7, o8, o9>>) = "none"
  BY <1>1, <1>2 DEF ExecuteAwareness
<1>4. /\ o1 = "none" /\ o2 = "none" /\ o3 = "none" /\ o4 = "none" /\ o5 = "none"
      /\ o6 = "none" /\ o7 = "none" /\ o8 = "none" /\ o9 = "none"
  <2> HIDE DEF o1, o2, o3, o4, o5, o6, o7, o8, o9
  <2> QED
    BY <1>3, FirstOfNine
<1> QED
  BY <1>1, <1>4 DEF Objection, Differs, FiltersWithin, f, given

\* A subscription is answered by a plan of one within its cap and the terms consented to.
LEMMA LiveServes ==
    ASSUME NEW q \in AskRecords, NEW other \in AskRecords, NEW plan, PlanKeeps(q, plan),
           other.op = q.op, q.op = "live", Executed(plan, other) = "none"
    PROVE  ScenarioShared(other, q) /\ TermsWithin(other.live, LiveTerms(q.live, DefaultPlannerConfig))
<1> DEFINE t == LiveTerms(q.live, DefaultPlannerConfig)
           a == other.live
           o1 == Objection(plan.live.rate > LiveCap, "rate_exceeds_cap")
           o2 == Objection(ScenarioDiffers(plan, other), "scene_mismatch")
           o3 == Objection(a.rate # -1 /\ plan.live.rate > a.rate /\ LiveCap >= a.rate,
                           "rate_clamped_without_consent")
           o4 == Objection(plan.live.heartbeat < a.heartbeat, "heartbeat_mismatch")
           o5 == Objection(plan.live.idle < a.idle, "idle_timeout_mismatch")
           o6 == Objection(a.buffer # -1 /\ plan.live.buffer > a.buffer, "buffer_clamped_without_consent")
           o7 == Objection(Differs(a.mode, plan.live.mode), "backpressure_mismatch")
<1>1. plan.kind = "Live" /\ plan.live = t /\ plan.scenario = q.scenario
  BY DEF PlanKeeps
<1>2. First(<<o1, o2, o3, o4, o5, o6, o7>>) = "none"
  BY <1>1 DEF Executed, ExecuteLive
<1>3. o1 = "none" /\ o2 = "none" /\ o3 = "none" /\ o4 = "none" /\ o5 = "none" /\ o6 = "none"
  <2> HIDE DEF o1, o2, o3, o4, o5, o6, o7
  <2> QED
    BY <1>2, FirstOfSeven
<1>4. /\ t.rate \in Int /\ t.heartbeat \in Int /\ t.idle \in Int /\ t.buffer \in Int /\ LiveCap \in Int
      /\ a.rate \in Int /\ a.heartbeat \in Int /\ a.idle \in Int /\ a.buffer \in Int
  BY LiveTermsAre, AskIs, GraphAssumption
<1> HIDE DEF t, a
<1>5. ScenarioShared(other, q)
  BY <1>1, <1>3 DEF Objection, ScenarioDiffers, ScenarioShared
<1>6. t.rate <= LiveCap /\ (a.rate # -1 => t.rate <= a.rate)
  BY <1>1, <1>3, <1>4 DEF Objection
<1>7. t.heartbeat >= a.heartbeat /\ t.idle >= a.idle /\ (a.buffer # -1 => t.buffer <= a.buffer)
  BY <1>1, <1>3, <1>4 DEF Objection
<1> QED
  BY <1>5, <1>6, <1>7 DEF TermsWithin, t, a

\* Whatever a plan answers is asked for an allowed tenant and within the plan.
LEMMA PlansServeWithin ==
    ASSUME NEW q \in AskRecords, NEW other \in AskRecords, NEW plan, PlanKeeps(q, plan),
           Executed(plan, other) = "none"
    PROVE  other.tenant \in AllowedTenants /\ AsksWithin(other, q)
<1>1. other.tenant \in AllowedTenants
  BY DEF Executed
<1>2. {other.op, q.op} \subseteq {"awareness", "explain"}
        => FiltersWithin(FiltersOf(other), FiltersOf(q))
  BY AwarenessServes
<1> QED
  BY <1>1, <1>2, GraphKindsServe, EventsServe, RecallServes, LiveServes DEF AsksWithin

\* What is asked has the plan the planner makes of it, and an answer is the executor's.
AskInv ==
    /\ DOMAIN asking = {"step", "q", "prepared", "other", "answer"}
    /\ asking.step # "idle" =>
          asking.q \in Asks /\ asking.prepared = PlanQuery(asking.q, DefaultPlannerConfig)
    /\ asking.step = "answered" =>
          /\ asking.q.op # "hybrid" /\ asking.other \in Asks \cup Others
          /\ asking.answer = Executed(asking.prepared.plan, asking.other)

\* A query is planned within bounds, told what is cut, and answered when it is the one that
\* was planned; and whatever query the plan answers is one of an allowed tenant, within
\* what the plan was made for.
THEOREM QueriesAreAnswered == GraphSpec => []QueriesAreServed
<1>1. GraphInit => AskInv
  BY DEF GraphInit, AskInv, NoAsking
<1>2. AskInv /\ [AskNext \/ StoreNext]_graphVars => AskInv'
  <2> SUFFICES ASSUME AskInv, [AskNext \/ StoreNext]_graphVars PROVE AskInv'
    OBVIOUS
  <2>1. CASE UNCHANGED asking
    BY <2>1 DEF AskInv
  <2>2. ASSUME NEW q \in Asks, PlanAsk(q) PROVE AskInv'
    <3> DEFINE r == PlanQuery(q, DefaultPlannerConfig)
    <3>1. asking' = [asking EXCEPT !.step = "planned", !.q = q, !.prepared = r]
      BY <2>2 DEF PlanAsk
    <3> HIDE DEF r
    <3>2. /\ DOMAIN asking' = DOMAIN asking /\ asking'.step = "planned" /\ asking'.q = q
          /\ asking'.prepared = r
      BY <3>1 DEF AskInv
    <3> QED
      BY <3>2 DEF AskInv, r
  <2>3. ASSUME NEW other \in Asks \cup Others, ExecuteAsk(other) PROVE AskInv'
    <3> DEFINE answer == Executed(asking.prepared.plan, other)
    <3>1. /\ asking.step = "planned" /\ asking.q.op # "hybrid"
          /\ asking' = [asking EXCEPT !.step = "answered", !.other = other, !.answer = answer]
      BY <2>3 DEF ExecuteAsk
    <3> HIDE DEF answer
    <3>2. /\ DOMAIN asking' = DOMAIN asking /\ asking'.step = "answered" /\ asking'.q = asking.q
          /\ asking'.prepared = asking.prepared /\ asking'.other = other /\ asking'.answer = answer
      BY <3>1 DEF AskInv
    <3> QED
      BY <3>1, <3>2 DEF AskInv, answer
  <2>4. ASSUME ExecuteAsk(asking.q) PROVE AskInv'
    BY <2>3, <2>4 DEF AskInv, ExecuteAsk
  <2> QED
    BY <2>1, <2>2, <2>3, <2>4 DEF AskNext, StoreNext, AppendEvent, graphVars
<1>3. AskInv => QueriesAreServed
  <2> SUFFICES ASSUME AskInv, asking.step # "idle", asking.prepared.error = "none"
               PROVE  QueriesAreServed
    BY DEF QueriesAreServed
  <2>1. asking.q \in AskRecords /\ asking.prepared = PlanQuery(asking.q, DefaultPlannerConfig)
    BY GraphAssumption DEF AskInv
  <2>2. /\ PlanIsBounded(asking.q, asking.prepared)
        /\ asking.q.op # "hybrid" =>
              ((Executed(asking.prepared.plan, asking.q) = "none") <=> ~Unservable(asking.q))
    BY <2>1, PlansServe
  <2>3. asking.step = "answered" /\ asking.other = asking.q =>
          ((asking.answer = "none") <=> ~Unservable(asking.q))
    BY <2>2 DEF AskInv
  <2>4. DefaultPlannerConfig.influence = 12 /\ DefaultPlannerConfig.nodes = 500
    BY ConfigIs
  <2>5. asking.step = "answered" /\ asking.answer = "none" =>
          asking.other.tenant \in AllowedTenants /\ AsksWithin(asking.other, asking.q)
    <3>1. PlanKeeps(asking.q, asking.prepared.plan)
      BY <2>1, PlansKeep
    <3> QED
      BY <2>1, <3>1, GraphAssumption, PlansServeWithin DEF AskInv
  <2> QED
    BY <2>2, <2>3, <2>4, <2>5 DEF QueriesAreServed, PlanIsBounded
<1> QED
  BY <1>1, <1>2, <1>3, PTL DEF GraphSpec

-----------------------------------------------------------------------------
(* DecisionMemory: likeness                                                 *)

\* Scores are hundredths.
Score == 0..100

\* A part of a hundred wholes is at most a hundred of a whole.
LEMMA PartOfHundred ==
    ASSUME NEW a \in Nat, NEW b \in Nat, b > 0, a <= 100 * b
    PROVE  a \div b \in Score
<1> DEFINE q == a \div b
<1>1. q \in Int /\ b * q <= a /\ a < b * (q + 1)
  OBVIOUS
<1> HIDE DEF q
<1>2. q >= 0
  <2>1. ASSUME q < 0 PROVE FALSE
    <3>1. q + 1 <= 0
      BY <1>1, <2>1
    <3>2. b * (q + 1) <= 0
      BY <1>1, <3>1
    <3> QED
      BY <1>1, <3>2
  <2> QED
    BY <1>1, <2>1
<1>3. q <= 100
  <2>1. ASSUME q > 100 PROVE FALSE
    <3>1. q >= 101
      BY <1>1, <2>1
    <3>2. b * q >= b * 101
      BY <1>1, <3>1
    <3> QED
      BY <1>1, <3>2
  <2> QED
    BY <1>1, <2>1
<1> QED
  BY <1>1, <1>2, <1>3 DEF q, Score

\* The share of the words that two texts have both is a score.
LEMMA SharedWords ==
    ASSUME NEW A, NEW B, IsFiniteSet(A), IsFiniteSet(B), A \cup B # {}
    PROVE  (100 * Cardinality(A \cap B)) \div Cardinality(A \cup B) \in Score
<1> DEFINE n == Cardinality(A \cap B)
           m == Cardinality(A \cup B)
<1>1. IsFiniteSet(A \cup B) /\ A \cap B \subseteq A \cup B
  BY FS_Union
<1>2. n \in Nat /\ m \in Nat /\ n <= m
  BY <1>1, FS_Subset, FS_CardinalityType
<1>3. m # 0
  BY <1>1, FS_EmptySet
<1> HIDE DEF n, m
<1>4. 100 * n \in Nat /\ m > 0 /\ 100 * n <= 100 * m
  BY <1>2, <1>3
<1>5. (100 * n) \div m \in Score
  BY <1>2, <1>4, PartOfHundred
<1> QED
  BY <1>5 DEF n, m

\* A feature of one of the three kinds.
IsFeature(f) ==
    /\ f.kind \in {"numeric", "categorical", "text"} /\ f.number \in Int /\ IsFiniteSet(f.words)
    /\ f = [kind |-> f.kind, number |-> f.number, words |-> f.words]

\* So is the likeness of two numbers.
LEMMA GaussIs == \A d \in Nat : Gauss(d) \in Score
<1> SUFFICES ASSUME NEW d \in Nat PROVE Gauss(d) \in Score
  OBVIOUS
<1>1. d = 0 \/ d = 1 \/ d = 2 \/ d = 3 \/ d > 3
  OBVIOUS
<1> QED
  BY <1>1 DEF Gauss, Score

\* The likeness of two features is a score, the same both ways.
LEMMA FeatureSimilarityIs ==
    ASSUME NEW f, NEW g, IsFeature(f), IsFeature(g)
    PROVE  FeatureSimilarity(f, g) \in Score /\ FeatureSimilarity(f, g) = FeatureSimilarity(g, f)
<1>1. CASE f.kind # g.kind
  BY <1>1 DEF FeatureSimilarity, Score
<1>2. CASE f.kind = "numeric" /\ g.kind = "numeric"
  <2> DEFINE d == IF f.number > g.number THEN f.number - g.number ELSE g.number - f.number
             e == IF g.number > f.number THEN g.number - f.number ELSE f.number - g.number
  <2>1. d \in Nat /\ d = e
    BY DEF IsFeature
  <2>2. FeatureSimilarity(f, g) = Gauss(d) /\ FeatureSimilarity(g, f) = Gauss(e)
    BY <1>2 DEF FeatureSimilarity
  <2> HIDE DEF d, e
  <2> QED
    BY <2>1, <2>2, GaussIs
<1>3. CASE f.kind = "categorical" /\ g.kind = "categorical"
  <2>1. /\ FeatureSimilarity(f, g) = IF f = g THEN 100 ELSE 0
        /\ FeatureSimilarity(g, f) = IF g = f THEN 100 ELSE 0
    BY <1>3 DEF FeatureSimilarity
  <2> QED
    BY <2>1 DEF Score
<1>4. CASE f.kind = "text" /\ g.kind = "text"
  <2> DEFINE A == f.words
             B == g.words
  <2>1. FeatureSimilarity(f, g) = IF A \cup B = {} THEN 100
                                  ELSE (100 * Cardinality(A \cap B)) \div Cardinality(A \cup B)
    BY <1>4 DEF FeatureSimilarity
  <2>2. FeatureSimilarity(g, f) = IF B \cup A = {} THEN 100
                                  ELSE (100 * Cardinality(B \cap A)) \div Cardinality(B \cup A)
    BY <1>4 DEF FeatureSimilarity
  <2>3. A \cup B = B \cup A /\ A \cap B = B \cap A /\ IsFiniteSet(A) /\ IsFiniteSet(B)
    BY DEF IsFeature
  <2> HIDE DEF A, B
  <2>4. FeatureSimilarity(f, g) = FeatureSimilarity(g, f)
    <3> DEFINE I == A \cap B
               U == A \cup B
    <3>1. /\ FeatureSimilarity(f, g) = IF U = {} THEN 100 ELSE (100 * Cardinality(I)) \div Cardinality(U)
          /\ FeatureSimilarity(g, f) = IF U = {} THEN 100 ELSE (100 * Cardinality(I)) \div Cardinality(U)
      <4>1. B \cup A = U /\ B \cap A = I
        BY <2>3
      <4> HIDE DEF U, I
      <4>2. A \cup B = U /\ A \cap B = I
        BY DEF U, I
      <4> QED
        BY <2>1, <2>2, <4>1, <4>2
    <3> HIDE DEF U, I
    <3> QED
      BY <3>1
  <2>5. CASE A \cup B = {}
    BY <2>1, <2>4, <2>5 DEF Score
  <2>6. CASE A \cup B # {}
    BY <2>1, <2>3, <2>4, <2>6, SharedWords
  <2> QED
    BY <2>5, <2>6
<1> QED
  BY <1>1, <1>2, <1>3, <1>4 DEF IsFeature

-----------------------------------------------------------------------------
(* DecisionMemory: sums over a set of names                                 *)

\* g counts f up, name by name.
SumUpTo(f, names, k, g) ==
    DOMAIN g = 0..k /\ g[0] = 0 /\ \A n \in 1..k : g[n] = g[n - 1] + f[names[n]]

\* A finite set, put in some order, has all its places.
LEMMA NamesOf ==
    ASSUME NEW S, IsFiniteSet(S)
    PROVE  LET q == SetToSeq(S) IN
           /\ DOMAIN q = 1..Len(q) /\ Len(q) \in Nat /\ (S # {} => Len(q) > 0)
           /\ \A n \in 1..Len(q) : q[n] \in S
<1> DEFINE k == Cardinality(S)
           q == SetToSeq(S)
<1>1. k \in Nat /\ ExistsBijection(1..k, S)
  BY FS_CardinalityType, FS_NatBijection, FS_CountingElements
<1>2. PICK h \in [1..k -> S] : IsInjective(h)
  BY <1>1 DEF ExistsBijection, Bijection, Injection, IsInjective
<1>3. q \in [1..k -> S]
  BY <1>2 DEF SetToSeq
<1>4. k = 0 => S = {}
  BY FS_EmptySet
<1> HIDE DEF q, k
<1>5. q \in Seq(S) /\ Len(q) = k
  BY <1>1, <1>3, LenProperties
<1> QED
  BY <1>1, <1>3, <1>4, <1>5 DEF q

\* A sum over a set is reached name by name.
LEMMA SumOverIs ==
    ASSUME NEW S, IsFiniteSet(S), NEW f \in [S -> Int]
    PROVE  LET q == SetToSeq(S) IN
           \E g \in [0..Len(q) -> Int] : SumUpTo(f, q, Len(q), g) /\ SumOver(f) = g[Len(q)]
<1> DEFINE q == SetToSeq(S)
           k == Len(q)
           F == [n \in 1..k |-> [w \in Int |-> w + f[q[n]]]]
           g == CHOOSE h : h = [n \in 0..k |-> IF n = 0 THEN 0 ELSE h[n - 1] + f[q[n]]]
<1>1. SumOver(f) = g[k]
  <2>1. DOMAIN f = S
    OBVIOUS
  <2> QED
    BY <2>1 DEF SumOver
<1>2. k \in Nat /\ \A n \in 1..k : q[n] \in S
  BY NamesOf
<1> HIDE DEF q, k
<1>3. F \in [1..k -> [Int -> Int]]
  BY <1>2
<1>4. PICK h \in [0..k -> Int] : Iterates(h, 0, k, F)
  <2> DEFINE V == Int
             v == 0
  <2>1. v \in V /\ F \in [1..k -> [V -> V]]
    BY <1>3
  <2> HIDE DEF V, v, F
  <2>2. \E h \in [0..k -> V] : Iterates(h, v, k, F)
    BY <1>2, <2>1, FunctionsByRecursion
  <2> QED
    BY <2>2 DEF V, v
<1>5. h[0] = 0 /\ \A n \in 1..k : h[n] = h[n - 1] + f[q[n]]
  <2>1. \A n \in 1..k : h[n - 1] \in Int
    BY <1>2, <1>4
  <2>2. \A n \in 1..k : F[n][h[n - 1]] = h[n - 1] + f[q[n]]
    BY <2>1
  <2> HIDE DEF F
  <2> QED
    BY <1>4, <2>2 DEF Iterates
<1>6. h = [n \in 0..k |-> IF n = 0 THEN 0 ELSE h[n - 1] + f[q[n]]]
  <2>1. h = [n \in 0..k |-> h[n]]
    BY <1>4
  <2>2. \A n \in 0..k : n = 0 \/ n \in 1..k
    BY <1>2
  <2>3. \A n \in 0..k : h[n] = IF n = 0 THEN 0 ELSE h[n - 1] + f[q[n]]
    BY <1>5, <2>2
  <2> QED
    BY <2>1, <2>3
<1>7. g = [n \in 0..k |-> IF n = 0 THEN 0 ELSE g[n - 1] + f[q[n]]]
  BY <1>6
<1> HIDE DEF g
<1>8. DOMAIN g = 0..k /\ g[0] = 0 /\ \A n \in 1..k : g[n] = g[n - 1] + f[q[n]]
  BY <1>2, <1>7
<1>9. \A n \in 0..k : g[n] \in Int
  <2>1. \A n \in 0..(k - 1) : g[n] \in Int => g[n + 1] \in Int
    <3>1. ASSUME NEW n \in 0..(k - 1), g[n] \in Int PROVE g[n + 1] \in Int
      <4> DEFINE m == n + 1
      <4>1. m \in 1..k /\ m - 1 = n
        BY <1>2
      <4>2. f[q[m]] \in Int
        BY <1>2, <4>1
      <4> HIDE DEF m
      <4>3. g[m] = g[n] + f[q[m]]
        BY <1>8, <4>1
      <4> QED
        BY <3>1, <4>2, <4>3 DEF m
    <3> QED
      BY <3>1
  <2>2. g[0] \in Int
    BY <1>8
  <2> DEFINE V == Int
  <2>3. g[0] \in V /\ \A n \in 0..(k - 1) : g[n] \in V => g[n + 1] \in V
    BY <2>1, <2>2
  <2> HIDE DEF V
  <2>4. \A n \in 0..k : g[n] \in V
    BY <1>2, <1>8, <2>3, RecursionStays
  <2> QED
    BY <2>4 DEF V
<1>10. g \in [0..k -> Int]
  <2>1. g = [n \in 0..k |-> g[n]]
    BY <1>7
  <2> QED
    BY <1>9, <2>1
<1>11. SumUpTo(f, q, k, g)
  BY <1>8 DEF SumUpTo
<1> QED
  BY <1>1, <1>10, <1>11 DEF q, k

\* Weights are above zero.
LEMMA WeightIs == \A x : Weight(x) \in Nat /\ Weight(x) > 0
<1> SUFFICES ASSUME NEW x PROVE Weight(x) \in Nat /\ Weight(x) > 0
  OBVIOUS
<1>1. Weight(x) = 4 \/ Weight(x) = 3 \/ Weight(x) = 2
  BY DEF Weight
<1> QED
  BY <1>1

\* A weighted mean of scores is a score.
LEMMA MeanIs ==
    ASSUME NEW S, IsFiniteSet(S), S # {}, NEW w \in [S -> Nat], NEW v \in [S -> Nat],
           \A x \in S : w[x] > 0 /\ v[x] <= 100 * w[x]
    PROVE  SumOver(v) \div SumOver(w) \in Score
<1> DEFINE q == SetToSeq(S)
           k == Len(q)
<1>1. k \in Nat /\ k > 0 /\ \A n \in 1..k : q[n] \in S
  BY NamesOf
<1>2. v \in [S -> Int] /\ w \in [S -> Int]
  OBVIOUS
<1>3. PICK g \in [0..k -> Int] : SumUpTo(v, q, k, g) /\ SumOver(v) = g[k]
  BY <1>2, SumOverIs
<1>4. PICK h \in [0..k -> Int] : SumUpTo(w, q, k, h) /\ SumOver(w) = h[k]
  BY <1>2, SumOverIs
<1> HIDE DEF q, k
<1> DEFINE T == {n \in 0..k : g[n] >= 0 /\ h[n] >= n /\ g[n] <= 100 * h[n]}
<1>5. 0 \in T
  <2>1. g[0] = 0 /\ h[0] = 0 /\ 0 \in 0..k
    BY <1>1, <1>3, <1>4 DEF SumUpTo
  <2> QED
    BY <2>1
<1>6. ASSUME NEW n \in 0..(k - 1), n \in T PROVE n + 1 \in T
  <2> DEFINE m == n + 1
             a == g[n]
             b == h[n]
             x == v[q[m]]
             y == w[q[m]]
  <2>1. m \in 1..k /\ m \in 0..k /\ m - 1 = n /\ n \in Nat /\ n \in 0..k
    BY <1>1
  <2>2. g[m] = a + x /\ h[m] = b + y
    BY <1>3, <1>4, <2>1 DEF SumUpTo
  <2>3. q[m] \in S
    BY <1>1, <2>1
  <2>4. x \in Nat /\ y \in Nat /\ y > 0 /\ x <= 100 * y
    BY <2>3
  <2>5. a \in Int /\ b \in Int
    BY <2>1
  <2>6. a >= 0 /\ b >= n /\ a <= 100 * b
    BY <1>6
  <2> HIDE DEF a, b, x, y, T
  <2>7. a + x >= 0 /\ b + y >= n + 1 /\ a + x <= 100 * (b + y)
    BY <2>1, <2>4, <2>5, <2>6
  <2>8. g[m] >= 0 /\ h[m] >= m /\ g[m] <= 100 * h[m]
    BY <2>2, <2>7
  <2> HIDE DEF m
  <2>9. m \in T
    BY <2>1, <2>8 DEF T
  <2> QED
    BY <2>9 DEF m
<1> HIDE DEF T
<1>7. k \in T
  <2>1. \A n \in 0..(k - 1) : n \in T => n + 1 \in T
    BY <1>6
  <2>2. \A n \in 0..k : n \in T
    BY <1>1, <1>5, <2>1, NumbersUpTo, Zenon
  <2> QED
    BY <1>1, <2>2
<1> DEFINE a == g[k]
           b == h[k]
<1>8. a \in Int /\ b \in Int /\ a >= 0 /\ b >= k /\ a <= 100 * b
  BY <1>1, <1>7 DEF T
<1> HIDE DEF a, b
<1>9. a \in Nat /\ b \in Nat /\ b > 0
  BY <1>1, <1>8
<1>10. a \div b \in Score
  BY <1>8, <1>9, PartOfHundred
<1> QED
  BY <1>3, <1>4, <1>10 DEF a, b

\* The features of a context: a function of finitely many names.
HasFeatures(F) == IsFiniteSet(DOMAIN F) /\ \A x \in DOMAIN F : IsFeature(F[x])

\* The likeness of two sets of features is a score, the same both ways.
LEMMA SimilarityIs ==
    ASSUME NEW F, NEW G, HasFeatures(F), HasFeatures(G)
    PROVE  Similarity(F, G) \in Score /\ Similarity(F, G) = Similarity(G, F)
<1> DEFINE S == DOMAIN F \cap DOMAIN G
           w == [x \in S |-> Weight(x)]
           v == [x \in S |-> Weight(x) * FeatureSimilarity(F[x], G[x])]
           u == [x \in S |-> Weight(x) * FeatureSimilarity(G[x], F[x])]
<1>1. S = DOMAIN G \cap DOMAIN F
  OBVIOUS
<1>2. Similarity(F, G) = IF S = {} THEN 0 ELSE SumOver(v) \div SumOver(w)
  BY DEF Similarity
<1>3. Similarity(G, F) = IF S = {} THEN 0 ELSE SumOver(u) \div SumOver(w)
  <2> DEFINE Z == DOMAIN G \cap DOMAIN F
  <2>1. Similarity(G, F) = IF Z = {} THEN 0
           ELSE SumOver([x \in Z |-> Weight(x) * FeatureSimilarity(G[x], F[x])])
                   \div SumOver([x \in Z |-> Weight(x)])
    BY DEF Similarity
  <2>2. Z = S
    BY <1>1
  <2> HIDE DEF Z
  <2> QED
    BY <2>1, <2>2
<1>4. IsFiniteSet(S)
  <2>1. S \subseteq DOMAIN F
    OBVIOUS
  <2> QED
    BY <2>1, FS_Subset DEF HasFeatures
<1>5. \A x \in S : /\ FeatureSimilarity(F[x], G[x]) \in Score
                   /\ FeatureSimilarity(F[x], G[x]) = FeatureSimilarity(G[x], F[x])
  <2> SUFFICES ASSUME NEW x \in S
               PROVE  /\ FeatureSimilarity(F[x], G[x]) \in Score
                      /\ FeatureSimilarity(F[x], G[x]) = FeatureSimilarity(G[x], F[x])
    OBVIOUS
  <2>1. IsFeature(F[x]) /\ IsFeature(G[x])
    BY DEF HasFeatures
  <2> QED
    BY <2>1, FeatureSimilarityIs
<1>6. u = v
  BY <1>5
<1>7. w \in [S -> Nat]
  BY WeightIs
<1>8. \A x \in S : w[x] = Weight(x) /\ v[x] = Weight(x) * FeatureSimilarity(F[x], G[x])
  OBVIOUS
<1>9. \A x \in S : v[x] \in Nat /\ w[x] > 0 /\ v[x] <= 100 * w[x]
  <2> SUFFICES ASSUME NEW x \in S PROVE v[x] \in Nat /\ w[x] > 0 /\ v[x] <= 100 * w[x]
    OBVIOUS
  <2> DEFINE y == Weight(x)
             z == FeatureSimilarity(F[x], G[x])
  <2>1. y \in Nat /\ y > 0 /\ z \in Score /\ w[x] = y /\ v[x] = y * z
    BY <1>5, <1>8, WeightIs
  <2> HIDE DEF y, z, v, w
  <2>2. z \in Nat /\ z <= 100
    BY <2>1 DEF Score
  <2>3. y * z \in Nat /\ y * z <= 100 * y
    BY <2>1, <2>2
  <2> QED
    BY <2>1, <2>3
<1>10. v \in [S -> Nat]
  <2>1. v = [x \in S |-> v[x]]
    OBVIOUS
  <2> HIDE DEF v
  <2> QED
    BY <1>9, <2>1
<1> HIDE DEF S, v, w, u
<1>11. CASE S = {}
  BY <1>2, <1>3, <1>11 DEF Score
<1>12. CASE S # {}
  <2>1. SumOver(v) \div SumOver(w) \in Score
    BY <1>4, <1>7, <1>9, <1>10, <1>12, MeanIs
  <2> QED
    BY <1>2, <1>3, <1>6, <1>12, <2>1
<1> QED
  BY <1>11, <1>12

\* A context has features.
LEMMA FeaturesAre ==
    ASSUME NEW ctx, IsContext(ctx)
    PROVE  HasFeatures(FeaturesOf(ctx))
<1> DEFINE signals == DOMAIN ctx.signals
           given == {x \in {"user_intent"} : ctx.intent # <<>>}
           placed == {x \in {"scenario"} : ctx.scenario # "none"}
           names == {"history_length", "active_tools_count"} \cup signals \cup given \cup placed
           F == FeaturesOf(ctx)
<1>1. F = [x \in names |-> CASE x = "user_intent"        -> Text(ctx.intent)
                             [] x = "scenario"           -> Categorical(ctx.scenario)
                             [] x = "history_length"     -> Numeric(ctx.length)
                             [] x = "active_tools_count" -> Numeric(Cardinality(ctx.tools))
                             [] x \in signals            -> Numeric(ctx.signals[x])]
  BY DEF FeaturesOf
<1>2. IsFiniteSet(names)
  <2>1. IsFiniteSet({"history_length", "active_tools_count", "user_intent", "scenario"})
    <3>1. IsFiniteSet({"history_length"})
      BY FS_EmptySet, FS_AddElement
    <3>2. IsFiniteSet({"history_length"} \cup {"active_tools_count"})
      BY <3>1, FS_AddElement
    <3>3. IsFiniteSet(({"history_length"} \cup {"active_tools_count"}) \cup {"user_intent"})
      BY <3>2, FS_AddElement
    <3>4. IsFiniteSet((({"history_length"} \cup {"active_tools_count"}) \cup {"user_intent"}) \cup {"scenario"})
      BY <3>3, FS_AddElement
    <3>5. {"history_length", "active_tools_count", "user_intent", "scenario"}
            = (({"history_length"} \cup {"active_tools_count"}) \cup {"user_intent"}) \cup {"scenario"}
      OBVIOUS
    <3> QED
      BY <3>4, <3>5
  <2>2. IsFiniteSet({"history_length", "active_tools_count", "user_intent", "scenario"} \cup signals)
    BY <2>1, FS_Union DEF IsContext
  <2>3. names \subseteq {"history_length", "active_tools_count", "user_intent", "scenario"} \cup signals
    OBVIOUS
  <2> QED
    BY <2>2, <2>3, FS_Subset
<1>3. \A n \in Int : IsFeature(Numeric(n))
  BY FS_EmptySet DEF IsFeature, Numeric
<1>4. IsFeature(Categorical(ctx.scenario))
  <2> DEFINE w == ctx.scenario
  <2>1. IsFiniteSet({w})
    <3>1. IsFiniteSet({} \cup {w}) /\ {} \cup {w} = {w}
      BY FS_EmptySet, FS_AddElement
    <3> QED
      BY <3>1
  <2> HIDE DEF w
  <2>2. IsFeature(Categorical(w))
    BY <2>1 DEF IsFeature, Categorical
  <2> QED
    BY <2>2 DEF w
<1>5. IsFeature(Text(ctx.intent))
  <2>1. IsFiniteSet(ToSet(ctx.intent))
    <3> DEFINE s == ctx.intent
               k == Len(s)
    <3>1. s \in Seq(ToSet(s))
      BY DEF IsContext
    <3> HIDE DEF s
    <3>2. k \in Nat /\ s \in [1..k -> ToSet(s)] /\ DOMAIN s = 1..k
      BY <3>1, LenProperties
    <3> HIDE DEF k
    <3>3. IsFiniteSet(1..k)
      BY <3>2, FS_Interval
    <3>4. s \in Surjection(1..k, ToSet(s))
      BY <3>2 DEF Surjection, ToSet
    <3>5. IsFiniteSet(ToSet(s))
      BY <3>3, <3>4, FS_Surjection
    <3> QED
      BY <3>5 DEF s
  <2> QED
    BY <2>1 DEF IsFeature, Text
<1>6. ctx.length \in Int /\ Cardinality(ctx.tools) \in Int /\ \A x \in signals : ctx.signals[x] \in Int
  BY FS_CardinalityType DEF IsContext
<1>7. \A x \in names : x \in {"user_intent", "scenario", "history_length", "active_tools_count"} \cup signals
  OBVIOUS
<1> DEFINE i == Text(ctx.intent)
           c == Categorical(ctx.scenario)
           l == Numeric(ctx.length)
           t == Numeric(Cardinality(ctx.tools))
           g == [x \in signals |-> Numeric(ctx.signals[x])]
<1>8. IsFeature(i) /\ IsFeature(c) /\ IsFeature(l) /\ IsFeature(t) /\ \A x \in signals : IsFeature(g[x])
  BY <1>3, <1>4, <1>5, <1>6
<1>9. F = [x \in names |-> CASE x = "user_intent"        -> i
                             [] x = "scenario"           -> c
                             [] x = "history_length"     -> l
                             [] x = "active_tools_count" -> t
                             [] x \in signals            -> g[x]]
  <2>1. \A x \in signals : g[x] = Numeric(ctx.signals[x])
    OBVIOUS
  <2> HIDE DEF names, signals, g, F
  <2> QED
    BY <1>1, <1>7, <2>1
<1> HIDE DEF names, signals, F, i, c, l, t, g
<1>10. ASSUME NEW x \in names PROVE IsFeature(F[x])
  <2>1. F[x] \in {i, c, l, t} \/ (x \in signals /\ F[x] = g[x])
    BY <1>7, <1>9
  <2> QED
    BY <1>8, <2>1
<1>11. DOMAIN F = names
  BY <1>9
<1> QED
  BY <1>2, <1>10, <1>11 DEF HasFeatures, F

\* Likeness is a score, the same both ways, and full for a context itself.
LEMMA AlikeIs ==
    ASSUME NEW c \in Contexts, NEW d \in Contexts
    PROVE  Alike(c, d) \in Score /\ Alike(c, d) = Alike(d, c) /\ Alike(c, c) = 100
<1>1. HasFeatures(FeaturesOf(c)) /\ HasFeatures(FeaturesOf(d))
  BY MemoryAssumption, FeaturesAre
<1> DEFINE m == Similarity(FeaturesOf(c), FeaturesOf(d))
           n == Similarity(FeaturesOf(d), FeaturesOf(c))
<1>2. m \in Score /\ m = n
  BY <1>1, SimilarityIs
<1>3. /\ Alike(c, d) = IF HashOf(c) = HashOf(d) THEN 100 ELSE m
      /\ Alike(d, c) = IF HashOf(d) = HashOf(c) THEN 100 ELSE n
      /\ Alike(c, c) = 100
  <2>1. \A x, y \in Contexts :
            Alike(x, y) = IF HashOf(x) = HashOf(y) THEN 100 ELSE Similarity(FeaturesOf(x), FeaturesOf(y))
    BY DEF Alike, Likeness
  <2> QED
    BY <2>1
<1> HIDE DEF m, n
<1>4. 100 \in Score
  BY DEF Score
<1> DEFINE same == HashOf(c) = HashOf(d)
<1>5. /\ Alike(c, d) = IF same THEN 100 ELSE m
      /\ Alike(d, c) = IF same THEN 100 ELSE n
  BY <1>3
<1> HIDE DEF same
<1> QED
  BY <1>2, <1>3, <1>4, <1>5

-----------------------------------------------------------------------------
(* DecisionMemory: matches                                                  *)

\* Scores are numbers.
LEMMA ScoresAreNumbers == \A x \in Score : x \in Int
BY DEF Score

\* What is nearer comes first.
Descends(near, q) == \A m, n \in DOMAIN q : m < n => near[q[m]] >= near[q[n]]

\* What is retained of such a list is one.
LEMMA RetainDescends ==
    ASSUME NEW D, NEW near \in [D -> Score], NEW q \in Seq(D), Descends(near, q), NEW K
    PROVE  Descends(near, Retain(q, K))
<1> DEFINE r == Retain(q, K)
<1>1. PICK h : Keeps(q, r, h)
  BY RetainKeepsOrder
<1>2. r \in Seq(D)
  BY RetainType
<1> HIDE DEF r
<1>3. DOMAIN r = 1..Len(r) /\ DOMAIN q = 1..Len(q)
  BY <1>2, LenProperties
<1>4. ASSUME NEW m \in 1..Len(r), NEW n \in 1..Len(r), m < n PROVE near[r[m]] >= near[r[n]]
  <2>1. /\ h[m] \in 1..Len(q) /\ h[n] \in 1..Len(q) /\ h[m] < h[n]
        /\ r[m] = q[h[m]] /\ r[n] = q[h[n]]
    BY <1>1, <1>4 DEF Keeps
  <2> QED
    BY <1>3, <2>1 DEF Descends
<1>5. Descends(near, r)
  BY <1>3, <1>4 DEF Descends
<1> QED
  BY <1>5 DEF r

\* So are two of them behind each other, if all of the first is as near as all of the second.
LEMMA ConcatDescends ==
    ASSUME NEW D, NEW near \in [D -> Score], NEW a \in Seq(D), NEW b \in Seq(D),
           Descends(near, a), Descends(near, b),
           \A x \in ToSet(a), y \in ToSet(b) : near[x] >= near[y]
    PROVE  Descends(near, a \o b)
<1> DEFINE c == a \o b
           j == Len(a)
           k == Len(b)
<1>1. /\ DOMAIN a = 1..j /\ DOMAIN b = 1..k /\ j \in Nat /\ k \in Nat /\ DOMAIN c = 1..(j + k)
      /\ \A n \in 1..(j + k) : c[n] = IF n <= j THEN a[n] ELSE b[n - j]
  BY ConcatProperties, LenProperties
<1> HIDE DEF c, j, k
<1>2. ASSUME NEW m \in 1..(j + k), NEW n \in 1..(j + k), m < n PROVE near[c[m]] >= near[c[n]]
  <2>1. CASE n <= j
    <3>1. m \in 1..j /\ n \in 1..j
      BY <1>1, <1>2, <2>1
    <3>2. c[m] = a[m] /\ c[n] = a[n]
      BY <1>1, <3>1
    <3> QED
      BY <1>1, <1>2, <3>1, <3>2 DEF Descends
  <2>2. CASE m <= j /\ ~(n <= j)
    <3>1. m \in 1..j /\ n - j \in 1..k
      BY <1>1, <2>2
    <3>2. c[m] = a[m] /\ c[n] = b[n - j]
      BY <1>1, <2>2
    <3>3. a[m] \in ToSet(a) /\ b[n - j] \in ToSet(b)
      BY <1>1, <3>1 DEF ToSet
    <3> QED
      BY <3>2, <3>3
  <2>3. CASE ~(m <= j)
    <3> DEFINE x == m - j
               y == n - j
    <3>1. x \in 1..k /\ y \in 1..k /\ x < y /\ ~(n <= j)
      BY <1>1, <1>2, <2>3
    <3>2. c[m] = b[x] /\ c[n] = b[y]
      BY <1>1, <2>3, <3>1
    <3> HIDE DEF x, y
    <3> QED
      BY <1>1, <3>1, <3>2 DEF Descends
  <2> QED
    BY <1>1, <2>1, <2>2, <2>3
<1>3. Descends(near, c)
  BY <1>1, <1>2 DEF Descends
<1> QED
  BY <1>3 DEF c

\* No element twice in either and none in both, none twice in one after the other.
LEMMA ConcatInjective ==
    ASSUME NEW D, NEW a \in Seq(D), NEW b \in Seq(D), IsInjective(a), IsInjective(b),
           ToSet(a) \cap ToSet(b) = {}
    PROVE  IsInjective(a \o b)
<1> DEFINE c == a \o b
           j == Len(a)
           k == Len(b)
<1>1. /\ j \in Nat /\ k \in Nat /\ DOMAIN a = 1..j /\ DOMAIN b = 1..k /\ DOMAIN c = 1..(j + k)
      /\ \A n \in 1..(j + k) : c[n] = IF n <= j THEN a[n] ELSE b[n - j]
  BY ConcatProperties, LenProperties
<1> HIDE DEF c, j, k
<1>2. ASSUME NEW m \in 1..(j + k), NEW n \in 1..(j + k), c[m] = c[n] PROVE m = n
  <2>1. CASE m <= j /\ n <= j
    <3>1. m \in 1..j /\ n \in 1..j /\ a[m] = a[n]
      BY <1>1, <1>2, <2>1
    <3> QED
      BY <1>1, <3>1 DEF IsInjective
  <2>2. CASE m > j /\ n > j
    <3>1. m - j \in 1..k /\ n - j \in 1..k /\ b[m - j] = b[n - j]
      BY <1>1, <1>2, <2>2
    <3>2. m - j = n - j
      BY <1>1, <3>1 DEF IsInjective
    <3> QED
      BY <1>1, <3>2
  <2>3. ASSUME NEW x \in 1..j, NEW y \in 1..k PROVE a[x] # b[y]
    <3>1. a[x] \in ToSet(a) /\ b[y] \in ToSet(b)
      BY <1>1 DEF ToSet
    <3> QED
      BY <3>1
  <2>4. CASE m <= j /\ n > j
    <3>1. m \in 1..j /\ n - j \in 1..k /\ c[m] = a[m] /\ c[n] = b[n - j]
      BY <1>1, <2>4
    <3> QED
      BY <1>2, <2>3, <3>1
  <2>5. CASE m > j /\ n <= j
    <3>1. n \in 1..j /\ m - j \in 1..k /\ c[n] = a[n] /\ c[m] = b[m - j]
      BY <1>1, <2>5
    <3> QED
      BY <1>2, <2>3, <3>1
  <2> QED
    BY <1>1, <2>1, <2>2, <2>4, <2>5
<1> QED
  BY <1>1, <1>2 DEF IsInjective, c

\* Placing one more among them keeps the order.
LEMMA PlacedIs ==
    ASSUME NEW D, NEW near \in [D -> Score], NEW q \in Seq(D), Descends(near, q), NEW i \in D
    PROVE  LET r == Placed(near, q, i) IN
           /\ r \in Seq(D) /\ Descends(near, r) /\ ToSet(r) = ToSet(q) \cup {i}
           /\ IsInjective(q) /\ i \notin ToSet(q) => IsInjective(r)
<1> DEFINE ahead == {j \in ToSet(q) : near[j] >= near[i]}
           a == Retain(q, ahead)
           b == Retain(q, ToSet(q) \ ahead)
           u == <<i>>
<1>1. /\ a \in Seq(D) /\ ToSet(a) = ToSet(q) \cap ahead /\ Descends(near, a)
      /\ b \in Seq(D) /\ ToSet(b) = ToSet(q) \cap (ToSet(q) \ ahead) /\ Descends(near, b)
  <2> HIDE DEF ahead
  <2> QED
    BY RetainType, RetainElements, RetainDescends
<1>2. u \in Seq(D) /\ ToSet(u) = {i} /\ Descends(near, u)
  BY DEF ToSet, Descends
<1>3. \A x \in ToSet(q) : near[x] \in Int
  <2>1. ToSet(q) \subseteq D
    BY SeqElements
  <2>2. \A x \in D : near[x] \in Score
    OBVIOUS
  <2> QED
    BY <2>1, <2>2, ScoresAreNumbers
<1>4. near[i] \in Int
  <2>1. near[i] \in Score
    OBVIOUS
  <2> QED
    BY <2>1, ScoresAreNumbers
<1>5. \A x \in ToSet(a), y \in ToSet(u) : near[x] >= near[y]
  BY <1>1, <1>2
<1>6. \A y \in ToSet(b) : near[i] >= near[y]
  BY <1>1, <1>3, <1>4
<1>7. \A x \in ToSet(a), y \in ToSet(b) : near[x] >= near[y]
  <2> SUFFICES ASSUME NEW x \in ToSet(a), NEW y \in ToSet(b) PROVE near[x] >= near[y]
    OBVIOUS
  <2>1. near[x] \in Int /\ near[y] \in Int
    BY <1>1, <1>3
  <2>2. near[x] >= near[i] /\ near[i] >= near[y]
    BY <1>1, <1>6
  <2> QED
    BY <1>4, <2>1, <2>2
<1>8. Placed(near, q, i) = a \o u \o b
  BY DEF Placed
<1>9. \A x \in ToSet(q) : x \in ahead \/ x \in ToSet(q) \ ahead
  OBVIOUS
<1> HIDE DEF a, b, u
<1> DEFINE c == a \o u
<1>10. c \in Seq(D) /\ ToSet(c) = ToSet(a) \cup ToSet(u) /\ Descends(near, c)
  <2>1. c \in Seq(D) /\ ToSet(c) = ToSet(a) \cup ToSet(u)
    BY <1>1, <1>2, ConcatProperties, ConcatElements
  <2>2. Descends(near, c)
    BY <1>1, <1>2, <1>5, ConcatDescends
  <2> QED
    BY <2>1, <2>2
<1> HIDE DEF c
<1>11. \A x \in ToSet(c), y \in ToSet(b) : near[x] >= near[y]
  BY <1>2, <1>6, <1>7, <1>10
<1> DEFINE d == c \o b
<1>12. d \in Seq(D) /\ ToSet(d) = ToSet(c) \cup ToSet(b) /\ Descends(near, d)
  <2>1. d \in Seq(D) /\ ToSet(d) = ToSet(c) \cup ToSet(b)
    BY <1>1, <1>10, ConcatProperties, ConcatElements
  <2>2. Descends(near, d)
    BY <1>1, <1>10, <1>11, ConcatDescends
  <2> QED
    BY <2>1, <2>2
<1>13. ToSet(d) = ToSet(q) \cup {i}
  <2> HIDE DEF ahead, d
  <2> QED
    BY <1>1, <1>2, <1>9, <1>10, <1>12
<1>14. ASSUME IsInjective(q), i \notin ToSet(q) PROVE IsInjective(d)
  <2>1. IsInjective(a) /\ IsInjective(b)
    BY <1>14, RetainInjective DEF a, b
  <2>2. IsInjective(u)
    BY DEF u, IsInjective
  <2>3. ToSet(a) \cap ToSet(u) = {} /\ ToSet(c) \cap ToSet(b) = {}
    <3> HIDE DEF ahead
    <3> QED
      BY <1>1, <1>2, <1>10, <1>14
  <2>4. IsInjective(c)
    BY <1>1, <1>2, <2>1, <2>2, <2>3, ConcatInjective DEF c
  <2> QED
    BY <1>1, <1>10, <2>1, <2>3, <2>4, ConcatInjective
<1> QED
  BY <1>8, <1>12, <1>13, <1>14 DEF c

-----------------------------------------------------------------------------
(* DecisionMemory: the store                                                *)

Prints == [context : Contexts, session : MemorySessions \cup {NoSession}, at : Nat,
           outcome : {"Unknown", "Success", "Failure"}]

\* Ids are counted up.
StoreType ==
    /\ seconds \in Nat /\ stored \in Nat
    /\ DOMAIN prints \subseteq 1..stored /\ prints \in [DOMAIN prints -> Prints]

\* What is stored, and that each session's list is sorted and has exactly the fingerprints of the session.
Rising(q) == \A m, n \in DOMAIN q : m < n => q[m] < q[n]
ListInv(s) ==
    /\ bySession[s] \in Seq(1..stored) /\ Rising(bySession[s])
    /\ ToSet(bySession[s]) = {i \in DOMAIN prints : prints[i].session = s}

StoreInv ==
    /\ StoreType
    /\ bySession = [s \in MemorySessions |-> bySession[s]]
    /\ \A s \in MemorySessions : ListInv(s)

\* The fingerprints found are those near enough, the nearest first.
LEMMA MatchesAre ==
    ASSUME StoreType, NEW ctx \in Contexts, NEW t \in Thresholds
    PROVE  LET near == [i \in DOMAIN prints |-> Alike(ctx, prints[i].context)]
               M == Matches(ctx, t) IN
           /\ near \in [DOMAIN prints -> Score] /\ M \in Seq(DOMAIN prints) /\ Descends(near, M)
           /\ ToSet(M) = {i \in DOMAIN prints : near[i] >= t} /\ IsInjective(M)
<1> DEFINE D == DOMAIN prints
           near == [i \in D |-> Alike(ctx, prints[i].context)]
           wanted == {i \in D : near[i] >= t}
           ids == [i \in 1..stored |-> i]
           found == Retain(ids, wanted)
           k == Len(found)
           g == CHOOSE h : h = [n \in 0..k |-> IF n = 0 THEN <<>> ELSE Placed(near, h[n - 1], found[n])]
<1>1. Matches(ctx, t) = g[k]
  BY DEF Matches
<1>2. near \in [D -> Score]
  <2>1. \A i \in D : prints[i].context \in Contexts
    BY DEF StoreType, Prints
  <2> QED
    BY <2>1, AlikeIs
<1>3. found \in Seq(D) /\ ToSet(found) = wanted /\ IsInjective(found)
  <2>1. stored \in Nat /\ D \subseteq 1..stored
    BY DEF StoreType
  <2>2. ids \in Seq(1..stored)
    BY <2>1
  <2>3. ToSet(ids) = 1..stored
    BY <2>1 DEF ToSet
  <2>4. wanted \subseteq D
    OBVIOUS
  <2>8. IsInjective(ids)
    BY DEF IsInjective
  <2> HIDE DEF ids, wanted, D
  <2>9. IsInjective(found)
    BY <2>2, <2>8, RetainInjective
  <2>5. found \in Seq((1..stored) \cap wanted) /\ ToSet(found) = ToSet(ids) \cap wanted
    BY <2>2, RetainType, RetainElements
  <2>6. (1..stored) \cap wanted \subseteq D
    BY <2>4
  <2>7. found \in Seq(D)
    <3> DEFINE E == (1..stored) \cap wanted
    <3> HIDE DEF E, found
    <3>1. found \in Seq(E) /\ E \subseteq D
      BY <2>5, <2>6 DEF E
    <3> QED
      BY <3>1
  <2> QED
    BY <2>1, <2>3, <2>4, <2>5, <2>7, <2>9
<1> HIDE DEF D, near, wanted, found
<1>4. /\ k \in Nat /\ DOMAIN found = 1..k /\ \A n \in 1..k : found[n] \in D
      /\ \A m, n \in 1..k : found[m] = found[n] => m = n
  BY <1>3, LenProperties, ElementOfSeq DEF IsInjective
<1> HIDE DEF k
<1> DEFINE V == {q \in Seq(D) : Descends(near, q)}
           v == <<>>
           F == [n \in 1..k |-> [w \in V |-> Placed(near, w, found[n])]]
<1>5. v \in V
  BY DEF Descends
<1>6. \A w \in V : \A n \in 1..k : Placed(near, w, found[n]) \in V
  BY <1>2, <1>4, PlacedIs
<1>7. F \in [1..k -> [V -> V]]
  <2> HIDE DEF V
  <2> QED
    BY <1>6
<1> HIDE DEF V, v
<1>8. PICK f \in [0..k -> V] : Iterates(f, v, k, F)
  BY <1>4, <1>5, <1>7, FunctionsByRecursion
<1>9. f[0] = v /\ \A n \in 1..k : f[n] = Placed(near, f[n - 1], found[n])
  <2>1. \A n \in 1..k : f[n - 1] \in V
    BY <1>4, <1>8
  <2>2. \A n \in 1..k : F[n][f[n - 1]] = Placed(near, f[n - 1], found[n])
    BY <2>1
  <2> HIDE DEF F
  <2> QED
    BY <1>8, <2>2 DEF Iterates
<1>10. f = [n \in 0..k |-> IF n = 0 THEN v ELSE Placed(near, f[n - 1], found[n])]
  <2>1. f = [n \in 0..k |-> f[n]]
    BY <1>8
  <2>2. \A n \in 0..k : n = 0 \/ n \in 1..k
    BY <1>4
  <2>3. \A n \in 0..k : f[n] = IF n = 0 THEN v ELSE Placed(near, f[n - 1], found[n])
    BY <1>9, <2>2
  <2> QED
    BY <2>1, <2>3
<1>11. g = [n \in 0..k |-> IF n = 0 THEN <<>> ELSE Placed(near, g[n - 1], found[n])]
  BY <1>10 DEF v
<1> HIDE DEF g
<1>12. g[0] = <<>> /\ \A n \in 1..k : g[n] = Placed(near, g[n - 1], found[n])
  BY <1>4, <1>11
<1> DEFINE T == {n \in 0..k : /\ g[n] \in V /\ ToSet(g[n]) = {found[j] : j \in 1..n}
                             /\ IsInjective(g[n])}
<1>13. 0 \in T
  <2>1. ToSet(<<>>) = {} /\ 1..0 = {} /\ IsInjective(<<>>)
    BY DEF ToSet, IsInjective
  <2> QED
    BY <1>4, <1>5, <1>12, <2>1 DEF v
<1>14. ASSUME NEW n \in 0..(k - 1), n \in T PROVE n + 1 \in T
  <2> DEFINE m == n + 1
             i == found[m]
  <2>1. m \in 1..k /\ m - 1 = n /\ m \in 0..k /\ \A j : j \in 1..m <=> (j \in 1..n \/ j = m)
    BY <1>4
  <2>2. g[m] = Placed(near, g[n], i) /\ i \in D
    BY <1>4, <1>12, <2>1
  <2>3. /\ g[n] \in Seq(D) /\ Descends(near, g[n]) /\ ToSet(g[n]) = {found[j] : j \in 1..n}
        /\ IsInjective(g[n])
    BY <1>14 DEF V
  <2>8. i \notin ToSet(g[n])
    <3>1. ASSUME NEW j \in 1..n PROVE found[j] # found[m]
      <4>1. j \in 1..k /\ m \in 1..k /\ j # m
        BY <1>4, <2>1
      <4> QED
        BY <1>4, <4>1
    <3> QED
      BY <2>3, <3>1
  <2> HIDE DEF m, i
  <2>4. g[m] \in V /\ ToSet(g[m]) = ToSet(g[n]) \cup {i} /\ IsInjective(g[m])
    BY <1>2, <2>2, <2>3, <2>8, PlacedIs DEF V
  <2>5. {found[j] : j \in 1..m} = {found[j] : j \in 1..n} \cup {i}
    BY <2>1 DEF i
  <2>6. ToSet(g[m]) = {found[j] : j \in 1..m}
    BY <2>3, <2>4, <2>5
  <2>7. m \in T
    BY <2>1, <2>4, <2>6
  <2> QED
    BY <2>7 DEF m
<1>15. k \in T
  <2> HIDE DEF T
  <2>1. \A n \in 0..(k - 1) : n \in T => n + 1 \in T
    BY <1>14
  <2>2. \A n \in 0..k : n \in T
    BY <1>4, <1>13, <2>1, NumbersUpTo, Zenon
  <2> QED
    BY <1>4, <2>2
<1>16. ToSet(found) = {found[j] : j \in 1..k}
  BY <1>4 DEF ToSet
<1> QED
  BY <1>1, <1>2, <1>3, <1>15, <1>16 DEF V, near, D, wanted

\* What is retained of a rising list rises.
LEMMA RetainRises ==
    ASSUME NEW k \in Nat, NEW q \in Seq(1..k), Rising(q), NEW K
    PROVE  Rising(Retain(q, K))
<1> DEFINE r == Retain(q, K)
           S == 1..k
<1> HIDE DEF S
<1>0. q \in Seq(S)
  BY DEF S
<1>1. PICK h : Keeps(q, r, h)
  BY <1>0, RetainKeepsOrder
<1>2. r \in Seq(S)
  BY <1>0, RetainType
<1> HIDE DEF r
<1>3. DOMAIN r = 1..Len(r) /\ DOMAIN q = 1..Len(q)
  BY <1>0, <1>2, LenProperties
<1>4. ASSUME NEW m \in 1..Len(r), NEW n \in 1..Len(r), m < n PROVE r[m] < r[n]
  <2>1. /\ h[m] \in 1..Len(q) /\ h[n] \in 1..Len(q) /\ h[m] < h[n]
        /\ r[m] = q[h[m]] /\ r[n] = q[h[n]]
    BY <1>1, <1>4 DEF Keeps
  <2> QED
    BY <1>3, <2>1 DEF Rising
<1>5. Rising(r)
  BY <1>3, <1>4 DEF Rising
<1> QED
  BY <1>5 DEF r

\* A number above all of a rising list can follow it.
LEMMA AppendRises ==
    ASSUME NEW k \in Nat, NEW q \in Seq(1..k), Rising(q)
    PROVE  Rising(Append(q, k + 1))
<1> DEFINE m == k + 1
           r == Append(q, m)
           j == Len(q)
<1>1. /\ DOMAIN r = 1..(j + 1) /\ DOMAIN q = 1..j /\ j \in Nat /\ r[j + 1] = m
      /\ \A n \in 1..j : r[n] = q[n]
  BY AppendProperties, LenProperties
<1>2. \A n \in 1..j : q[n] \in 1..k
  BY <1>1, ElementOfSeq
<1> HIDE DEF r, j
<1>3. \A n \in 1..j : q[n] < m
  BY <1>2
<1> HIDE DEF m
<1>4. ASSUME NEW a \in 1..(j + 1), NEW b \in 1..(j + 1), a < b PROVE r[a] < r[b]
  <2>1. a \in 1..j /\ (b \in 1..j \/ b = j + 1)
    BY <1>1, <1>4
  <2> QED
    BY <1>1, <1>3, <1>4, <2>1 DEF Rising
<1>5. Rising(r)
  BY <1>1, <1>4 DEF Rising
<1> QED
  BY <1>5 DEF r, m

\* Storing one more keeps the lists.
LEMMA StoreKeeps ==
    ASSUME StoreInv, NEW ctx \in Contexts, NEW s \in MemorySessions \cup {NoSession}, Store(ctx, s)
    PROVE  StoreInv'
<1> DEFINE k == stored
           m == k + 1
           p == [context |-> ctx, session |-> s, at |-> seconds, outcome |-> "Unknown"]
           D == DOMAIN prints
<1>1. k \in Nat /\ m \in Nat /\ D \subseteq 1..k /\ prints \in [D -> Prints] /\ p \in Prints /\ seconds \in Nat
  BY DEF StoreInv, StoreType, Prints
<1>2. /\ stored' = m /\ seconds' = seconds
      /\ prints' = [i \in D \cup {m} |-> IF i = m THEN p ELSE prints[i]]
      /\ bySession' = IF s = NoSession THEN bySession ELSE [bySession EXCEPT ![s] = Append(@, m)]
  BY DEF Store
<1>3. p.session = s
  OBVIOUS
<1>4. m \notin D /\ m \in 1..m /\ 1..k \subseteq 1..m
  BY <1>1
<1> HIDE DEF p, D
<1>5. DOMAIN prints' = D \cup {m} /\ prints'[m] = p /\ \A i \in D : prints'[i] = prints[i]
  <2>1. \A i \in D : i # m
    BY <1>4
  <2> HIDE DEF m
  <2> QED
    BY <1>2, <2>1
<1>6. StoreType'
  <2>1. \A i \in D \cup {m} : prints'[i] \in Prints
    <3>1. \A i \in D : prints[i] \in Prints
      BY <1>1
    <3> QED
      BY <1>1, <1>5, <3>1
  <2>2. prints' = [i \in D \cup {m} |-> prints'[i]]
    BY <1>2
  <2>3. prints' \in [D \cup {m} -> Prints]
    BY <2>1, <2>2
  <2>4. D \cup {m} \subseteq 1..m
    BY <1>1, <1>4
  <2> HIDE DEF m
  <2> QED
    BY <1>1, <1>2, <1>5, <2>3, <2>4 DEF StoreType
<1>7. ASSUME NEW x \in MemorySessions PROVE ListInv(x)'
  <2> DEFINE q == bySession[x]
             I == {i \in D : prints[i].session = x}
             J == {i \in D \cup {m} : prints'[i].session = x}
  <2>1. q \in Seq(1..k) /\ Rising(q) /\ ToSet(q) = I
    BY DEF StoreInv, ListInv, D
  <2>2. J = IF s = x THEN I \cup {m} ELSE I
    <3>1. \A i \in D : prints'[i].session = prints[i].session
      BY <1>5
    <3>2. prints'[m].session = s
      BY <1>3, <1>5
    <3> HIDE DEF m
    <3> QED
      BY <3>1, <3>2
  <2>3. q \in Seq(1..m)
    <3> DEFINE A == 1..k
               B == 1..m
    <3>1. A \subseteq B /\ q \in Seq(A)
      BY <1>4, <2>1
    <3> HIDE DEF A, B, q
    <3>2. q \in Seq(B)
      BY <3>1
    <3> QED
      BY <3>2 DEF B
  <2>4. CASE s = x
    <3>1. s # NoSession
      BY <2>4, MemoryAssumption
    <3>2. bySession'[x] = Append(q, m)
      <4>1. bySession = [y \in MemorySessions |-> bySession[y]]
        BY DEF StoreInv
      <4> QED
        BY <1>2, <2>4, <3>1, <4>1
    <3>3. Rising(Append(q, m))
      BY <1>1, <2>1, AppendRises
    <3>4. Append(q, m) \in Seq(1..m) /\ ToSet(Append(q, m)) = ToSet(q) \cup {m}
      BY <1>4, <2>3, AppendElements
    <3>5. ToSet(Append(q, m)) = J
      BY <2>1, <2>2, <2>4, <3>4
    <3> HIDE DEF m, q, J
    <3> QED
      BY <1>2, <1>5, <3>2, <3>3, <3>4, <3>5 DEF ListInv, J
  <2>5. CASE s # x
    <3>1. bySession'[x] = q
      <4>1. bySession = [y \in MemorySessions |-> bySession[y]]
        BY DEF StoreInv
      <4> QED
        BY <1>2, <2>5, <4>1
    <3>2. ToSet(q) = J
      BY <2>1, <2>2, <2>5
    <3> HIDE DEF m, q, J
    <3> QED
      BY <1>2, <1>5, <2>1, <2>3, <3>1, <3>2 DEF ListInv, J
  <2> QED
    BY <2>4, <2>5
<1>8. bySession' = [x \in MemorySessions |-> bySession'[x]]
  <2>1. bySession = [x \in MemorySessions |-> bySession[x]]
    BY DEF StoreInv
  <2> QED
    BY <1>2, <2>1
<1> QED
  BY <1>6, <1>7, <1>8 DEF StoreInv

\* So does marking what became of a decision.
LEMMA OutcomeKeeps ==
    ASSUME StoreInv, NEW i, NEW o \in {"Success", "Failure"}, UpdateOutcome(i, o)
    PROVE  StoreInv'
<1> DEFINE D == DOMAIN prints
           p == [prints[i] EXCEPT !.outcome = o]
<1>1. /\ i \in D /\ prints' = [prints EXCEPT ![i] = p]
      /\ stored' = stored /\ seconds' = seconds /\ bySession' = bySession
  BY DEF UpdateOutcome
<1>2. prints \in [D -> Prints] /\ D \subseteq 1..stored /\ stored \in Nat /\ seconds \in Nat
  BY DEF StoreInv, StoreType
<1>3. p \in Prints /\ p.session = prints[i].session
  <2>1. prints[i] \in Prints
    BY <1>1, <1>2
  <2> QED
    BY <2>1 DEF Prints
<1> HIDE DEF p
<1>4. prints' \in [D -> Prints] /\ DOMAIN prints' = D
  BY <1>1, <1>2, <1>3
<1>5. \A j \in D : prints'[j].session = prints[j].session
  BY <1>1, <1>2, <1>3
<1> HIDE DEF D
<1>6. StoreType'
  BY <1>1, <1>2, <1>4 DEF StoreType
<1>7. ASSUME NEW x \in MemorySessions PROVE ListInv(x)'
  <2>1. {j \in D : prints'[j].session = x} = {j \in D : prints[j].session = x}
    BY <1>5
  <2>2. /\ bySession[x] \in Seq(1..stored) /\ Rising(bySession[x])
        /\ ToSet(bySession[x]) = {j \in D : prints[j].session = x}
    BY DEF StoreInv, ListInv, D
  <2> QED
    BY <1>1, <1>4, <2>1, <2>2 DEF ListInv
<1> QED
  BY <1>1, <1>6, <1>7 DEF StoreInv

\* And removing what is too old, from the index as well.
LEMMA CleanupKeeps ==
    ASSUME StoreInv, NEW age, Cleanup(age)
    PROVE  StoreInv'
<1> DEFINE D == DOMAIN prints
           E == {j \in D : prints[j].at >= seconds - age}
<1>1. /\ prints' = [j \in E |-> prints[j]] /\ DOMAIN prints' = E
      /\ bySession' = [s \in MemorySessions |-> Retain(bySession[s], E)]
      /\ stored' = stored /\ seconds' = seconds
  <2>1. prints' = [j \in E |-> prints[j]]
    BY DEF Cleanup
  <2> HIDE DEF E
  <2>2. DOMAIN prints' = E
    BY <2>1
  <2> QED
    BY <2>1, <2>2 DEF Cleanup
<1>2. prints \in [D -> Prints] /\ D \subseteq 1..stored /\ stored \in Nat /\ seconds \in Nat /\ E \subseteq D
  BY DEF StoreInv, StoreType
<1> HIDE DEF E, D
<1>3. prints' \in [E -> Prints] /\ \A j \in E : prints'[j] = prints[j]
  BY <1>1, <1>2
<1>4. StoreType'
  BY <1>1, <1>2, <1>3 DEF StoreType
<1>5. ASSUME NEW x \in MemorySessions PROVE ListInv(x)'
  <2> DEFINE q == bySession[x]
  <2>1. q \in Seq(1..stored) /\ Rising(q) /\ ToSet(q) = {j \in D : prints[j].session = x}
    BY DEF StoreInv, ListInv, D
  <2>2. bySession'[x] = Retain(q, E)
    BY <1>1
  <2>3. Rising(Retain(q, E))
    BY <1>2, <2>1, RetainRises
  <2>4. Retain(q, E) \in Seq(1..stored) /\ ToSet(Retain(q, E)) = ToSet(q) \cap E
    <3> DEFINE S == 1..stored
    <3> HIDE DEF S, q
    <3>1. q \in Seq(S)
      BY <2>1 DEF S
    <3>2. Retain(q, E) \in Seq(S) /\ ToSet(Retain(q, E)) = ToSet(q) \cap E
      BY <3>1, RetainType, RetainElements
    <3> QED
      BY <3>2 DEF S
  <2>5. ToSet(q) \cap E = {j \in E : prints'[j].session = x}
    BY <1>2, <1>3, <2>1
  <2> HIDE DEF q
  <2> QED
    BY <1>1, <2>2, <2>3, <2>4, <2>5 DEF ListInv
<1>6. bySession' = [x \in MemorySessions |-> bySession'[x]]
  BY <1>1
<1> QED
  BY <1>4, <1>5, <1>6 DEF StoreInv

\* An empty store has empty lists.
LEMMA StoreInitial == MemoryInit => StoreInv
<1> SUFFICES ASSUME MemoryInit PROVE StoreInv
  OBVIOUS
<1>1. /\ seconds = 0 /\ stored = 0 /\ prints = [i \in {} |-> 0]
      /\ bySession = [s \in MemorySessions |-> <<>>]
  BY DEF MemoryInit
<1>2. DOMAIN prints = {}
  BY <1>1
<1>3. StoreType
  BY <1>1, <1>2 DEF StoreType
<1>4. ASSUME NEW s \in MemorySessions PROVE ListInv(s)
  <2>1. bySession[s] = <<>>
    BY <1>1
  <2>2. ToSet(<<>>) = {} /\ Rising(<<>>)
    BY DEF ToSet, Rising
  <2> QED
    BY <1>1, <1>2, <2>1, <2>2 DEF ListInv
<1> QED
  BY <1>1, <1>3, <1>4 DEF StoreInv

\* No step of the store breaks them.
LEMMA StoreStep == StoreInv /\ [MemoryNext \/ StickyNext]_memoryVars => StoreInv'
<1> SUFFICES ASSUME StoreInv, [MemoryNext \/ StickyNext]_memoryVars PROVE StoreInv'
  OBVIOUS
<1>1. ASSUME prints' = prints, bySession' = bySession, stored' = stored, seconds' \in Nat
      PROVE  StoreInv'
  BY <1>1 DEF StoreInv, StoreType, ListInv
<1>2. seconds \in Nat
  BY DEF StoreInv, StoreType
<1>3. CASE SecondPasses
  BY <1>1, <1>2, <1>3 DEF SecondPasses
<1>4. CASE StickyNext
  BY <1>1, <1>2, <1>4 DEF StickyNext, Stick, ConsumeTurn, Explain
<1>5. CASE UNCHANGED memoryVars
  BY <1>1, <1>2, <1>5 DEF memoryVars
<1> QED
  BY <1>3, <1>4, <1>5, StoreKeeps, OutcomeKeeps, CleanupKeeps DEF MemoryNext

\* A list of a session and the matches of a context say what they should.
LEMMA StoreIsFound == StoreInv => FingerprintsAreFound
<1> SUFFICES ASSUME StoreInv PROVE FingerprintsAreFound
  OBVIOUS
<1>1. ASSUME NEW s \in MemorySessions
      PROVE  /\ ToSet(bySession[s]) = {i \in DOMAIN prints : prints[i].session = s}
             /\ \A m, n \in DOMAIN bySession[s] : m < n => bySession[s][m] < bySession[s][n]
  BY DEF StoreInv, ListInv, Rising
<1>2. ASSUME NEW ctx \in Contexts, NEW t \in Thresholds
      PROVE  LET M == Matches(ctx, t)
                 near(n) == Alike(ctx, prints[M[n]].context) IN
             /\ ToSet(M) = {i \in DOMAIN prints : Alike(ctx, prints[i].context) >= t} /\ IsInjective(M)
             /\ \A i \in DOMAIN prints : prints[i].context = ctx =>
                   \E n \in DOMAIN M : M[n] = i /\ near(n) = near(1)
             /\ \A m, n \in DOMAIN M : m < n => near(m) >= near(n)
             /\ \A n \in DOMAIN M : Alike(prints[M[n]].context, ctx) = near(n)
  <2> DEFINE D == DOMAIN prints
             f == [i \in D |-> Alike(ctx, prints[i].context)]
             M == Matches(ctx, t)
  <2>1. /\ f \in [D -> Score] /\ M \in Seq(D) /\ Descends(f, M)
        /\ ToSet(M) = {i \in D : f[i] >= t} /\ IsInjective(M)
    BY MatchesAre DEF StoreInv
  <2>2. \A i \in D : f[i] = Alike(ctx, prints[i].context) /\ prints[i].context \in Contexts
    BY DEF StoreInv, StoreType, Prints
  <2> HIDE DEF f, M, D
  <2>3. DOMAIN M = 1..Len(M) /\ Len(M) \in Nat /\ \A n \in DOMAIN M : M[n] \in D
    BY <2>1, LenProperties, ElementOfSeq
  <2>4. \A n \in DOMAIN M : Alike(ctx, prints[M[n]].context) = f[M[n]]
    BY <2>2, <2>3
  <2>5. ASSUME NEW i \in D, prints[i].context = ctx
        PROVE  \E n \in DOMAIN M : M[n] = i /\ f[M[n]] = f[M[1]]
    <3>1. f[i] = 100
      BY <2>2, <2>5, AlikeIs
    <3>2. t \in Int /\ t <= 100
      BY MemoryAssumption
    <3>3. i \in ToSet(M)
      BY <2>1, <3>1, <3>2
    <3>4. PICK n \in DOMAIN M : M[n] = i
      BY <3>3 DEF ToSet
    <3>5. 1 \in DOMAIN M /\ n \in Nat /\ n >= 1
      BY <2>3, <3>4
    <3>6. f[M[1]] \in Int /\ f[M[1]] <= 100
      <4>1. f[M[1]] \in Score
        BY <2>1, <2>3, <3>5
      <4> QED
        BY <4>1 DEF Score
    <3>7. n = 1 \/ f[M[1]] >= f[M[n]]
      BY <2>1, <3>4, <3>5 DEF Descends
    <3>8. f[M[1]] = 100
      BY <3>1, <3>4, <3>6, <3>7
    <3> QED
      BY <3>1, <3>4, <3>8
  <2>6. \A n \in DOMAIN M : Alike(prints[M[n]].context, ctx) = f[M[n]]
    BY <2>2, <2>3, AlikeIs
  <2>7. \A m, n \in DOMAIN M : m < n => f[M[m]] >= f[M[n]]
    BY <2>1 DEF Descends
  <2>8. ASSUME NEW i \in D, prints[i].context = ctx
        PROVE  \E n \in DOMAIN M : M[n] = i /\ Alike(ctx, prints[M[n]].context) = Alike(ctx, prints[M[1]].context)
    <3>1. PICK n \in DOMAIN M : M[n] = i /\ f[M[n]] = f[M[1]]
      BY <2>5, <2>8
    <3>2. 1 \in DOMAIN M
      BY <2>3, <3>1
    <3> QED
      BY <2>4, <3>1, <3>2
  <2>9. \A m, n \in DOMAIN M : m < n =>
            Alike(ctx, prints[M[m]].context) >= Alike(ctx, prints[M[n]].context)
    BY <2>4, <2>7
  <2>10. \A n \in DOMAIN M : Alike(prints[M[n]].context, ctx) = Alike(ctx, prints[M[n]].context)
    BY <2>4, <2>6
  <2>11. ToSet(M) = {i \in D : Alike(ctx, prints[i].context) >= t} /\ IsInjective(M)
    <3>1. {i \in D : f[i] >= t} = {i \in D : Alike(ctx, prints[i].context) >= t}
      BY <2>2
    <3> QED
      BY <2>1, <3>1
  <2> QED
    BY <2>8, <2>9, <2>10, <2>11 DEF D, M
<1> QED
  BY <1>1, <1>2 DEF FingerprintsAreFound

\* A session is given its fingerprints, and a context all those that are near enough to
\* it, each once, the nearest first.
THEOREM FingerprintsHold == MemorySpec => []FingerprintsAreFound
<1>1. MemoryInit => StoreInv
  BY StoreInitial
<1>2. StoreInv /\ [MemoryNext \/ StickyNext]_memoryVars => StoreInv'
  BY StoreStep
<1>3. StoreInv => FingerprintsAreFound
  BY StoreIsFound
<1> QED
  BY <1>1, <1>2, <1>3, PTL DEF MemorySpec

-----------------------------------------------------------------------------
(* DecisionMemory: a sticky decision                                        *)

\* What remains of the turns is what was asked for less what was consumed, or none.
StickyInv ==
    /\ sticky \in [duration : {"UntilSuccess", "ForNTurns"}, turns : Nat, remaining : Nat]
    /\ consumed \in Nat
    /\ sticky.duration = "ForNTurns" =>
          sticky.remaining = IF consumed < sticky.turns THEN sticky.turns - consumed ELSE 0

\* A decision for n turns expires with its n-th turn; another one never does.
THEOREM StickyDecisionsEnd == MemorySpec => []StickinessEnds
<1>1. MemoryInit => StickyInv
  BY DEF MemoryInit, StickyInv
<1>2. StickyInv /\ [MemoryNext \/ StickyNext]_memoryVars => StickyInv'
  <2> SUFFICES ASSUME StickyInv, [MemoryNext \/ StickyNext]_memoryVars PROVE StickyInv'
    OBVIOUS
  <2>1. CASE UNCHANGED <<sticky, consumed>>
    BY <2>1 DEF StickyInv
  <2>2. ASSUME NEW d \in {"UntilSuccess", "ForNTurns"}, NEW n \in Turns, Stick(d, n)
        PROVE  StickyInv'
    BY <2>2, MemoryAssumption DEF Stick, StickyInv
  <2>3. CASE ConsumeTurn
    <3>1. PICK d \in {"UntilSuccess", "ForNTurns"}, n \in Nat, m \in Nat :
              sticky = [duration |-> d, turns |-> n, remaining |-> m]
      BY DEF StickyInv
    <3>2. consumed' = consumed + 1 /\ consumed \in Nat
      BY <2>3 DEF ConsumeTurn, StickyInv
    <3>3. CASE d = "ForNTurns" /\ m > 0
      <4>1. sticky' = [duration |-> d, turns |-> n, remaining |-> m - 1]
        BY <2>3, <3>1, <3>3 DEF ConsumeTurn
      <4>2. m = IF consumed < n THEN n - consumed ELSE 0
        BY <3>1, <3>3 DEF StickyInv
      <4> QED
        BY <3>2, <3>3, <4>1, <4>2 DEF StickyInv
    <3>4. CASE ~(d = "ForNTurns" /\ m > 0)
      <4>1. sticky' = sticky
        BY <2>3, <3>1, <3>4 DEF ConsumeTurn
      <4>2. d = "ForNTurns" => m = IF consumed < n THEN n - consumed ELSE 0
        BY <3>1 DEF StickyInv
      <4> QED
        BY <3>1, <3>2, <3>4, <4>1, <4>2 DEF StickyInv
    <3> QED
      BY <3>3, <3>4
  <2> QED
    BY <2>1, <2>2, <2>3 DEF MemoryNext, StickyNext, SecondPasses, Store, UpdateOutcome, Cleanup,
                            Explain, memoryVars
<1>3. StickyInv => StickinessEnds
  BY DEF StickyInv, StickinessEnds, IsExpired
<1> QED
  BY <1>1, <1>2, <1>3, PTL DEF MemorySpec

-----------------------------------------------------------------------------
(* All that is asked                                                        *)

\* Under the steps of all four, whatever they are asked: routes the rules admit,
\* fingerprints found again, sticky decisions that end, queries served for their tenant
\* and within what their plan was made for, version chains that are lines, and events
\* that stay.
THEOREM AnswersHold == AnswersSpec => []AnswersAreLawful
<1>1. RoutesAreLawful /\ FingerprintsAreFound /\ StickinessEnds /\ QueriesAreServed
        /\ VersionsFormChains /\ AppendsStay => AnswersAreLawful
  BY DEF AnswersAreLawful
<1>2. ChainSpec => []VersionsFormChains
  BY VersionsHold
<1>3. RoutingSpec => []RoutesAreLawful
  BY RoutesHold
<1>4. MemorySpec => []FingerprintsAreFound /\ []StickinessEnds
  BY FingerprintsHold, StickyDecisionsEnd
<1>5. GraphSpec => []QueriesAreServed /\ []AppendsStay
  BY QueriesAreAnswered, AcknowledgedEventsStay
<1> QED
  BY <1>1, <1>2, <1>3, <1>4, <1>5, PTL DEF AnswersSpec

=============================================================================
