----------------------------- MODULE ContentProofs -----------------------------
(***************************************************************************)
(* Proofs about what becomes of contents: the inverted index and the       *)
(* causal graph (ContextIndexes), the two forms of an event                *)
(* (DialogueEvents), and the run that assembles a bundle                   *)
(* (ContextAssembly), with the theory of sums it needs.                    *)
(***************************************************************************)
EXTENDS Contents, RetainTheorems

-----------------------------------------------------------------------------
(* ContextIndexes: the sparse index                                         *)

Posting == [doc : Docs, tf : Nat]

SparseInv ==
    /\ \A t \in DOMAIN postings : postings[t] \in Seq(Posting)
    /\ DOMAIN frequency = DOMAIN postings /\ \A t \in DOMAIN frequency : frequency[t] \in Nat
    /\ IsFiniteSet(DOMAIN lengths) /\ total \in Nat
    /\ PostingsAreStored

\* A term of a document occurs a number of times.
LEMMA OccurrencesType ==
    ASSUME NEW tokens \in DocTerms, NEW t
    PROVE  Occurrences(tokens, t) \in Nat
<1> DEFINE at == {i \in DOMAIN tokens : tokens[i] = t}
<1>1. DOMAIN tokens = 1..Len(tokens) /\ Len(tokens) \in Nat
  BY IndexAssumption, LenProperties
<1>2. at \in SUBSET (1..Len(tokens))
  BY <1>1
<1>3. Occurrences(tokens, t) = Cardinality(at)
  BY DEF Occurrences
<1> HIDE DEF at
<1>4. IsFiniteSet(1..Len(tokens))
  BY <1>1, FS_Interval
<1>5. IsFiniteSet(at)
  BY <1>2, <1>4, FS_Subset
<1> QED
  BY <1>3, <1>5, FS_CardinalityType

\* The index is empty at first.
LEMMA SparseInitial == IndexInit => SparseInv
<1> SUFFICES ASSUME IndexInit PROVE SparseInv
  OBVIOUS
<1>1. DOMAIN <<>> = {}
  OBVIOUS
<1>2. IsFiniteSet({}) /\ Cardinality({}) = 0
  BY FS_EmptySet
<1> QED
  BY <1>1, <1>2 DEF IndexInit, SparseInv, PostingsAreStored

\* A document that is added has postings and a length.
LEMMA AddStep ==
    ASSUME SparseInv, NEW doc \in Docs, NEW tokens \in DocTerms, AddDocument(doc, tokens)
    PROVE  SparseInv'
<1> DEFINE terms == ToSet(tokens)
           entry(t) == [doc |-> doc, tf |-> Occurrences(tokens, t)]
           old(t) == Lookup(postings, t, <<>>)
<1>1. /\ postings' = [t \in DOMAIN postings \cup terms |->
                        IF t \in terms THEN Append(old(t), entry(t)) ELSE postings[t]]
      /\ frequency' = [t \in DOMAIN frequency \cup terms |->
                         Lookup(frequency, t, 0) + IF t \in terms THEN 1 ELSE 0]
      /\ lengths' = Put(lengths, doc, Len(tokens)) /\ total' = total + 1
  BY DEF AddDocument
<1>2. DOMAIN lengths' = DOMAIN lengths \cup {doc}
  BY <1>1 DEF Put
<1>3. IsFiniteSet(DOMAIN lengths') /\ Cardinality(DOMAIN lengths') <= total' /\ total' \in Nat
  <2>1. IsFiniteSet(DOMAIN lengths) /\ total \in Nat /\ Cardinality(DOMAIN lengths) <= total
    BY DEF SparseInv, PostingsAreStored
  <2>2. /\ IsFiniteSet(DOMAIN lengths \cup {doc})
        /\ Cardinality(DOMAIN lengths \cup {doc}) <= Cardinality(DOMAIN lengths) + 1
    <3> DEFINE D == DOMAIN lengths
    <3>1. IsFiniteSet(D)
      BY <2>1
    <3> HIDE DEF D
    <3>2. Cardinality(D) \in Nat /\ IsFiniteSet(D \cup {doc})
          /\ Cardinality(D \cup {doc}) = (IF doc \in D THEN Cardinality(D) ELSE Cardinality(D) + 1)
      BY <3>1, FS_CardinalityType, FS_AddElement
    <3>3. Cardinality(D \cup {doc}) <= Cardinality(D) + 1
      BY <3>2
    <3> QED
      BY <3>2, <3>3 DEF D
  <2>3. Cardinality(DOMAIN lengths) \in Nat /\ Cardinality(DOMAIN lengths \cup {doc}) \in Nat
    BY <2>1, <2>2, FS_CardinalityType
  <2> HIDE DEF terms
  <2> QED
    BY <1>1, <1>2, <2>1, <2>2, <2>3
<1>4. ASSUME NEW t \in DOMAIN postings'
      PROVE  /\ postings'[t] \in Seq(Posting) /\ frequency'[t] \in Nat
             /\ {p.doc : p \in ToSet(postings'[t])} \subseteq DOMAIN lengths'
             /\ Len(postings'[t]) <= frequency'[t]
  <2>1. t \in DOMAIN postings \cup terms /\ DOMAIN frequency = DOMAIN postings
    BY <1>1 DEF SparseInv
  <2>2. /\ old(t) \in Seq(Posting) /\ Lookup(frequency, t, 0) \in Nat
        /\ {p.doc : p \in ToSet(old(t))} \subseteq DOMAIN lengths
        /\ Len(old(t)) <= Lookup(frequency, t, 0)
    <3>1. CASE t \in DOMAIN postings
      BY <2>1, <3>1 DEF SparseInv, PostingsAreStored, Lookup
    <3>2. CASE t \notin DOMAIN postings
      <4>1. old(t) = <<>> /\ Lookup(frequency, t, 0) = 0
        BY <2>1, <3>2 DEF Lookup
      <4>2. ToSet(<<>>) = {} /\ <<>> \in Seq(Posting) /\ Len(<<>>) = 0
        BY DEF ToSet
      <4> HIDE DEF old
      <4> QED
        BY <4>1, <4>2
    <3> QED
      BY <3>1, <3>2
  <2>3. Len(old(t)) \in Nat
    BY <2>2, LenProperties
  <2>4. CASE t \in terms
    <3>1. entry(t) \in Posting /\ entry(t).doc = doc
      BY OccurrencesType DEF Posting
    <3>2. postings'[t] = Append(old(t), entry(t)) /\ frequency'[t] = Lookup(frequency, t, 0) + 1
      BY <1>1, <2>1, <2>4
    <3> HIDE DEF entry, old, terms
    <3>3. /\ Append(old(t), entry(t)) \in Seq(Posting)
          /\ ToSet(Append(old(t), entry(t))) = ToSet(old(t)) \cup {entry(t)}
          /\ Len(Append(old(t), entry(t))) = Len(old(t)) + 1
      BY <2>2, <3>1, AppendElements, AppendProperties
    <3>4. {p.doc : p \in ToSet(postings'[t])} \subseteq DOMAIN lengths'
      <4>1. {p.doc : p \in ToSet(old(t)) \cup {entry(t)}}
                = {p.doc : p \in ToSet(old(t))} \cup {entry(t).doc}
        BY Zenon
      <4> QED
        BY <1>2, <2>2, <3>1, <3>2, <3>3, <4>1
    <3> QED
      BY <2>2, <2>3, <3>2, <3>3, <3>4
  <2>5. CASE t \notin terms
    <3>1. t \in DOMAIN postings /\ postings'[t] = postings[t]
      BY <1>1, <2>1, <2>5
    <3>2. frequency'[t] = Lookup(frequency, t, 0) + 0
      BY <1>1, <2>1, <2>5
    <3>3. old(t) = postings[t]
      BY <3>1 DEF Lookup
    <3> HIDE DEF old, terms
    <3> QED
      BY <1>2, <2>2, <2>3, <3>1, <3>2, <3>3
  <2> QED
    BY <2>4, <2>5
<1>5. DOMAIN frequency' = DOMAIN postings'
  BY <1>1 DEF SparseInv
<1> HIDE DEF terms, entry, old
<1> QED
  BY <1>3, <1>4, <1>5 DEF SparseInv, PostingsAreStored

\* A document that is removed has none.
LEMMA RemoveStep ==
    ASSUME SparseInv, NEW doc \in Docs, RemoveDocument(doc)
    PROVE  SparseInv'
<1>1. /\ postings' = [t \in DOMAIN postings |-> Purge(postings[t], doc)]
      /\ lengths' = Restrict(lengths, DOMAIN lengths \ {doc})
      /\ total' = (IF doc \in DOMAIN lengths /\ total > 0 THEN total - 1 ELSE total)
      /\ frequency' = frequency
  BY DEF RemoveDocument
<1>2. DOMAIN lengths' = DOMAIN lengths \ {doc}
  BY <1>1 DEF Restrict
<1>3. IsFiniteSet(DOMAIN lengths') /\ Cardinality(DOMAIN lengths') <= total' /\ total' \in Nat
  <2>1. IsFiniteSet(DOMAIN lengths) /\ total \in Nat /\ Cardinality(DOMAIN lengths) <= total
    BY DEF SparseInv, PostingsAreStored
  <2>2. Cardinality(DOMAIN lengths) \in Nat
    BY <2>1, FS_CardinalityType
  <2>3. CASE doc \in DOMAIN lengths
    <3>1. /\ IsFiniteSet(DOMAIN lengths \ {doc})
          /\ Cardinality(DOMAIN lengths \ {doc}) = Cardinality(DOMAIN lengths) - 1
      BY <2>1, <2>3, FS_RemoveElement
    <3>2. Cardinality(DOMAIN lengths \ {doc}) \in Nat
      BY <3>1, FS_CardinalityType
    <3>3. total' = IF total > 0 THEN total - 1 ELSE total
      BY <1>1, <2>3
    <3> QED
      BY <1>2, <2>1, <2>2, <3>1, <3>2, <3>3
  <2>4. CASE doc \notin DOMAIN lengths
    <3>1. DOMAIN lengths \ {doc} = DOMAIN lengths /\ total' = total
      BY <1>1, <2>4
    <3> QED
      BY <1>2, <2>1, <3>1
  <2> QED
    BY <2>3, <2>4
<1>4. ASSUME NEW t \in DOMAIN postings'
      PROVE  /\ postings'[t] \in Seq(Posting) /\ frequency'[t] \in Nat
             /\ {p.doc : p \in ToSet(postings'[t])} \subseteq DOMAIN lengths'
             /\ Len(postings'[t]) <= frequency'[t]
  <2> DEFINE s == postings[t]
             keep == {p \in ToSet(s) : p.doc # doc}
  <2>1. /\ t \in DOMAIN postings /\ postings'[t] = Retain(s, keep)
        /\ s \in Seq(Posting) /\ frequency[t] \in Nat /\ Len(s) <= frequency[t]
        /\ {p.doc : p \in ToSet(s)} \subseteq DOMAIN lengths
    BY <1>1 DEF Purge, WithoutPostings, SparseInv, PostingsAreStored
  <2> HIDE DEF s
  <2>2. Retain(s, keep) \in Seq(Posting) /\ ToSet(Retain(s, keep)) = ToSet(s) \cap keep
        /\ Len(Retain(s, keep)) <= Len(s)
    <3> HIDE DEF keep
    <3> QED
      BY <2>1, RetainType, RetainElements
  <2>3. Len(s) \in Nat /\ Len(Retain(s, keep)) \in Nat
    <3> HIDE DEF keep
    <3> QED
      BY <2>1, <2>2, LenProperties
  <2>4. \A p \in ToSet(Retain(s, keep)) : p.doc \in DOMAIN lengths /\ p.doc # doc
    <3>1. \A p \in ToSet(s) : p.doc \in DOMAIN lengths
      BY <2>1
    <3> QED
      BY <2>2, <3>1
  <2> HIDE DEF keep
  <2> QED
    BY <1>1, <1>2, <2>1, <2>2, <2>3, <2>4
<1>5. DOMAIN frequency' = DOMAIN postings'
  BY <1>1 DEF SparseInv
<1> QED
  BY <1>3, <1>4, <1>5 DEF SparseInv, PostingsAreStored

\* The inverted index names documents that the index has, and its counts cover what is stored.
THEOREM PostingsHold == IndexSpec => []PostingsAreStored
<1>1. IndexInit => SparseInv
  BY SparseInitial
<1>2. SparseInv /\ [SparseNext \/ CausalNext]_indexVars => SparseInv'
  <2> SUFFICES ASSUME SparseInv, [SparseNext \/ CausalNext]_indexVars PROVE SparseInv'
    OBVIOUS
  <2>1. CASE UNCHANGED <<postings, frequency, total, lengths>>
    BY <2>1 DEF SparseInv, PostingsAreStored
  <2>2. CASE SparseNext
    <3>1. ASSUME NEW doc \in Docs, RemoveDocument(doc) PROVE SparseInv'
      BY <3>1, RemoveStep
    <3>2. ASSUME NEW doc \in Docs, NEW tokens \in DocTerms, AddDocument(doc, tokens) PROVE SparseInv'
      BY <3>2, AddStep
    <3> QED
      BY <2>2, <3>1, <3>2 DEF SparseNext
  <2>3. CASE CausalNext
    BY <2>1, <2>3 DEF CausalNext, AddCausalLink, RemoveNode, BeginChain, WalkOn
  <2>4. CASE UNCHANGED indexVars
    BY <2>1, <2>4 DEF indexVars
  <2> QED
    BY <2>2, <2>3, <2>4
<1>3. SparseInv => PostingsAreStored
  BY DEF SparseInv
<1> QED
  BY <1>1, <1>2, <1>3, PTL DEF IndexSpec

-----------------------------------------------------------------------------
(* ContextIndexes: the causal graph                                         *)

IsGraph(e) == DOMAIN e \subseteq Docs /\ \A k \in DOMAIN e : e[k] \in SUBSET Docs

\* The links of two graphs, one the other's inverse.
Mirrors(e, c) == \A a, b \in Docs : b \in Lookup(e, a, {}) <=> a \in Lookup(c, b, {})

\* What an item leads to are items.
LEMMA LookupIs ==
    ASSUME NEW e, IsGraph(e), NEW a
    PROVE  Lookup(e, a, {}) \in SUBSET Docs
<1>1. CASE a \in DOMAIN e
  BY <1>1 DEF IsGraph, Lookup
<1>2. CASE a \notin DOMAIN e
  BY <1>2 DEF Lookup
<1> QED
  BY <1>1, <1>2

\* A link that is added is the only one that is new.
LEMMA LinkAdded ==
    ASSUME NEW e, IsGraph(e), NEW a \in Docs, NEW b \in Docs
    PROVE  LET r == Put(e, a, Lookup(e, a, {}) \cup {b}) IN
           /\ IsGraph(r)
           /\ \A x \in Docs : Lookup(r, x, {}) = IF x = a THEN Lookup(e, a, {}) \cup {b} ELSE Lookup(e, x, {})
<1> DEFINE v == Lookup(e, a, {}) \cup {b}
           r == Put(e, a, v)
<1>1. v \in SUBSET Docs
  BY LookupIs
<1> HIDE DEF v
<1>2. DOMAIN r = DOMAIN e \cup {a} /\ \A x \in DOMAIN r : r[x] = IF x = a THEN v ELSE e[x]
  BY DEF Put
<1> HIDE DEF r
<1>3. IsGraph(r)
  BY <1>1, <1>2 DEF IsGraph
<1>4. ASSUME NEW x \in Docs PROVE Lookup(r, x, {}) = IF x = a THEN v ELSE Lookup(e, x, {})
  <2>1. CASE x = a
    BY <1>2, <2>1 DEF Lookup
  <2>2. CASE x # a
    BY <1>2, <2>2 DEF Lookup
  <2> QED
    BY <2>1, <2>2
<1> QED
  BY <1>3, <1>4 DEF v, r

\* An item that is removed leads to none and none leads to it.
LEMMA NodeRemoved ==
    ASSUME NEW e, IsGraph(e), NEW a \in Docs
    PROVE  LET r == [k \in DOMAIN e \ {a} |-> e[k] \ {a}] IN
           /\ IsGraph(r)
           /\ \A x \in Docs : Lookup(r, x, {}) = IF x = a THEN {} ELSE Lookup(e, x, {}) \ {a}
<1> DEFINE r == [k \in DOMAIN e \ {a} |-> e[k] \ {a}]
<1>1. DOMAIN r = DOMAIN e \ {a} /\ \A k \in DOMAIN r : r[k] = e[k] \ {a}
  OBVIOUS
<1> HIDE DEF r
<1>2. IsGraph(r)
  BY <1>1 DEF IsGraph
<1>3. ASSUME NEW x \in Docs
      PROVE  Lookup(r, x, {}) = IF x = a THEN {} ELSE Lookup(e, x, {}) \ {a}
  BY <1>1 DEF Lookup
<1> QED
  BY <1>2, <1>3 DEF r

\* The two graphs of the index.
GraphInv == IsGraph(effects) /\ IsGraph(causes) /\ Mirrors(effects, causes)

\* No item leads to another at first.
LEMMA GraphInitial == IndexInit => GraphInv
<1>1. DOMAIN <<>> = {}
  OBVIOUS
<1> QED
  BY <1>1 DEF IndexInit, GraphInv, IsGraph, Mirrors, Lookup

\* The two graphs stay each other's inverse.
LEMMA GraphStep == GraphInv /\ [SparseNext \/ CausalNext]_indexVars => GraphInv'
<1> SUFFICES ASSUME GraphInv, [SparseNext \/ CausalNext]_indexVars PROVE GraphInv'
  OBVIOUS
<1>1. CASE UNCHANGED <<effects, causes>>
  BY <1>1 DEF GraphInv
<1>2. ASSUME NEW a \in Docs, NEW b \in Docs, AddCausalLink(a, b) PROVE GraphInv'
  <2>1. /\ effects' = Put(effects, a, Lookup(effects, a, {}) \cup {b})
        /\ causes' = Put(causes, b, Lookup(causes, b, {}) \cup {a})
    BY <1>2 DEF AddCausalLink
  <2>2. /\ IsGraph(effects')
        /\ \A x \in Docs : Lookup(effects', x, {}) =
             IF x = a THEN Lookup(effects, a, {}) \cup {b} ELSE Lookup(effects, x, {})
    BY <2>1, LinkAdded DEF GraphInv
  <2>3. /\ IsGraph(causes')
        /\ \A x \in Docs : Lookup(causes', x, {}) =
             IF x = b THEN Lookup(causes, b, {}) \cup {a} ELSE Lookup(causes, x, {})
    BY <2>1, LinkAdded DEF GraphInv
  <2>4. Mirrors(effects', causes')
    BY <2>2, <2>3 DEF GraphInv, Mirrors
  <2> QED
    BY <2>2, <2>3, <2>4 DEF GraphInv
<1>3. ASSUME NEW a \in Docs, RemoveNode(a) PROVE GraphInv'
  <2>1. /\ effects' = [k \in DOMAIN effects \ {a} |-> effects[k] \ {a}]
        /\ causes' = [k \in DOMAIN causes \ {a} |-> causes[k] \ {a}]
    BY <1>3 DEF RemoveNode
  <2>2. /\ IsGraph(effects')
        /\ \A x \in Docs : Lookup(effects', x, {}) = IF x = a THEN {} ELSE Lookup(effects, x, {}) \ {a}
    BY <2>1, NodeRemoved DEF GraphInv
  <2>3. /\ IsGraph(causes')
        /\ \A x \in Docs : Lookup(causes', x, {}) = IF x = a THEN {} ELSE Lookup(causes, x, {}) \ {a}
    BY <2>1, NodeRemoved DEF GraphInv
  <2>4. Mirrors(effects', causes')
    BY <2>2, <2>3 DEF GraphInv, Mirrors
  <2> QED
    BY <2>2, <2>3, <2>4 DEF GraphInv
<1>4. CASE SparseNext
  BY <1>1, <1>4 DEF SparseNext, AddDocument, RemoveDocument
<1>5. CASE CausalNext
  <2>1. ASSUME NEW a \in Docs, NEW bound \in DepthBounds, BeginChain(a, bound) PROVE GraphInv'
    BY <1>1, <2>1 DEF BeginChain
  <2>2. CASE WalkOn
    BY <1>1, <2>2 DEF WalkOn
  <2> QED
    BY <1>2, <1>3, <1>5, <2>1, <2>2 DEF CausalNext
<1>6. CASE UNCHANGED indexVars
  BY <1>1, <1>6 DEF indexVars
<1> QED
  BY <1>4, <1>5, <1>6

-----------------------------------------------------------------------------
(* ContextIndexes: what an item leads to over some links                    *)

LinksOver(e, W) == [a \in Docs |-> {a} \cup UNION {W[b] : b \in Lookup(e, a, {})}]

WithinOf(e) ==
    CHOOSE g : g = [n \in 0..Cardinality(Docs) |->
        [a \in Docs |-> IF n = 0 THEN {a} ELSE {a} \cup UNION {g[n - 1][b] : b \in Lookup(e, a, {})}]]

Itself == [a \in Docs |-> {a}]

\* Over one link more an item leads to items.
LEMMA LinksOverIs ==
    ASSUME NEW e, IsGraph(e), NEW W \in [Docs -> SUBSET Docs]
    PROVE  LinksOver(e, W) \in [Docs -> SUBSET Docs]
<1> SUFFICES ASSUME NEW a \in Docs PROVE {a} \cup UNION {W[b] : b \in Lookup(e, a, {})} \in SUBSET Docs
  BY DEF LinksOver
<1> DEFINE E == Lookup(e, a, {})
<1>1. E \in SUBSET Docs
  BY LookupIs
<1> HIDE DEF E
<1>2. \A b \in E : W[b] \in SUBSET Docs
  BY <1>1
<1>3. UNION {W[b] : b \in E} \in SUBSET Docs
  BY <1>2
<1> QED
  BY <1>3 DEF E

\* The definition of what an item leads to has a value, which says what it should.
LEMMA WithinIs ==
    ASSUME NEW e, IsGraph(e)
    PROVE  /\ WithinOf(e) \in [0..Cardinality(Docs) -> [Docs -> SUBSET Docs]]
           /\ WithinOf(e)[0] = Itself
           /\ \A n \in 1..Cardinality(Docs) : WithinOf(e)[n] = LinksOver(e, WithinOf(e)[n - 1])
<1> DEFINE k == Cardinality(Docs)
           V == [Docs -> SUBSET Docs]
           F == [n \in 1..k |-> [W \in V |-> LinksOver(e, W)]]
           g == WithinOf(e)
           body(h, n) == [a \in Docs |-> IF n = 0 THEN {a}
                             ELSE {a} \cup UNION {h[n - 1][b] : b \in Lookup(e, a, {})}]
<1>1. k \in Nat
  BY IndexAssumption, FS_CardinalityType
<1>2. g = CHOOSE h : h = [n \in 0..k |-> body(h, n)]
  BY DEF WithinOf
<1>3. \A h : body(h, 0) = Itself
  BY DEF Itself
<1>4. \A h, n : n # 0 => body(h, n) = LinksOver(e, h[n - 1])
  BY DEF LinksOver
<1>5. \A W \in V : LinksOver(e, W) \in V
  BY LinksOverIs
<1>6. Itself \in V
  BY DEF Itself
<1> HIDE DEF k, V, g, body
<1>7. F \in [1..k -> [V -> V]]
  BY <1>5
<1>8. PICK f \in [0..k -> V] : Iterates(f, Itself, k, F)
  BY <1>1, <1>6, <1>7, FunctionsByRecursion
<1>9. f = [n \in 0..k |-> body(f, n)]
  <2>1. \A n \in 1..k : f[n - 1] \in V /\ n # 0
    BY <1>1, <1>8
  <2>2. \A n \in 1..k : f[n] = LinksOver(e, f[n - 1])
    BY <1>8, <2>1 DEF Iterates
  <2>3. f[0] = Itself /\ f = [n \in 0..k |-> f[n]]
    BY <1>8 DEF Iterates
  <2>4. \A n \in 0..k : n = 0 \/ n \in 1..k
    BY <1>1
  <2>5. \A n \in 0..k : f[n] = body(f, n)
    BY <1>3, <1>4, <2>1, <2>2, <2>3, <2>4, Zenon
  <2> QED
    BY <2>3, <2>5
<1>10. g = [n \in 0..k |-> body(g, n)]
  BY <1>2, <1>9
<1> HIDE DEF F
<1>11. /\ DOMAIN g = 0..k /\ g[0] = Itself
       /\ \A n \in 1..k : g[n] = LinksOver(e, g[n - 1])
  <2>1. \A n \in 0..k : g[n] = body(g, n)
    BY <1>10, Zenon
  <2>2. \A n \in 1..k : n # 0 /\ n \in 0..k
    BY <1>1
  <2>3. 0 \in 0..k
    BY <1>1
  <2>4. DOMAIN g = 0..k
    BY <1>10, Zenon
  <2> QED
    BY <1>3, <1>4, <2>1, <2>2, <2>3, <2>4, Zenon
<1>12. \A n \in 0..(k - 1) : g[n] \in V => g[n + 1] \in V
  <2> SUFFICES ASSUME NEW n \in 0..(k - 1), g[n] \in V PROVE g[n + 1] \in V
    OBVIOUS
  <2>1. n + 1 \in 1..k /\ (n + 1) - 1 = n
    BY <1>1
  <2>2. g[n + 1] = LinksOver(e, g[n])
    BY <1>11, <2>1
  <2> QED
    BY <1>5, <2>2
<1>13. \A n \in 0..k : g[n] \in V
  <2>1. DOMAIN g = 0..k /\ g[0] \in V
    BY <1>6, <1>11
  <2> QED
    BY <1>1, <2>1, <1>12, RecursionStays
<1>14. g \in [0..k -> V]
  BY <1>10, <1>13
<1> QED
  BY <1>11, <1>14 DEF g, k, V

\* The same, item by item.
LEMMA WithinLinks ==
    ASSUME NEW e, IsGraph(e), NEW a \in Docs
    PROVE  /\ WithinOf(e)[0][a] = {a}
           /\ \A n \in 0..Cardinality(Docs) : WithinOf(e)[n][a] \in SUBSET Docs /\ a \in WithinOf(e)[n][a]
           /\ \A n \in 0..(Cardinality(Docs) - 1) :
                WithinOf(e)[n + 1][a] = {a} \cup UNION {WithinOf(e)[n][b] : b \in Lookup(e, a, {})}
<1> DEFINE k == Cardinality(Docs)
           g == WithinOf(e)
           over(n) == {a} \cup UNION {g[n][b] : b \in Lookup(e, a, {})}
<1>1. k \in Nat
  BY IndexAssumption, FS_CardinalityType
<1>2. g \in [0..k -> [Docs -> SUBSET Docs]] /\ g[0] = Itself /\ \A n \in 1..k : g[n] = LinksOver(e, g[n - 1])
  BY WithinIs
<1>3. \A n : LinksOver(e, g[n])[a] = over(n)
  BY DEF LinksOver
<1>4. \A n : a \in over(n)
  OBVIOUS
<1>5. Itself[a] = {a}
  BY DEF Itself
<1> HIDE DEF k, g, over
<1>6. ASSUME NEW n \in 0..(k - 1) PROVE g[n + 1][a] = over(n)
  <2>1. n + 1 \in 1..k /\ (n + 1) - 1 = n
    BY <1>1
  <2> QED
    BY <1>2, <1>3, <2>1
<1>7. ASSUME NEW n \in 0..k PROVE g[n][a] \in SUBSET Docs /\ a \in g[n][a]
  <2>1. g[n][a] \in SUBSET Docs
    BY <1>2
  <2>2. CASE n = 0
    BY <1>2, <1>5, <2>1, <2>2
  <2>3. CASE n # 0
    <3>1. n - 1 \in 0..(k - 1) /\ (n - 1) + 1 = n
      BY <1>1, <2>3
    <3> QED
      BY <1>4, <1>6, <2>1, <3>1
  <2> QED
    BY <2>2, <2>3
<1>8. g[0][a] = {a}
  BY <1>2, <1>5
<1> QED
  BY <1>6, <1>7, <1>8 DEF g, k, over

\* Over more links an item leads to no fewer items.
LEMMA WithinGrows ==
    ASSUME NEW e, IsGraph(e), NEW n \in 0..(Cardinality(Docs) - 1), NEW a \in Docs
    PROVE  WithinOf(e)[n][a] \subseteq WithinOf(e)[n + 1][a]
<1> DEFINE k == Cardinality(Docs)
           g == WithinOf(e)
           T == {m \in 0..(k - 1) : \A x \in Docs : g[m][x] \subseteq g[m + 1][x]}
<1>1. k \in Nat /\ k - 1 \in Nat
  BY IndexAssumption, FS_CardinalityType
<1>2. \A x \in Docs : g[0][x] = {x} /\ x \in g[1][x] /\ g[1][x] = g[0 + 1][x]
  <2>1. 1 \in 0..k
    BY <1>1
  <2> QED
    BY <2>1, WithinLinks
<1>3. \A m \in 0..(k - 1), x \in Docs :
         g[m + 1][x] = {x} \cup UNION {g[m][b] : b \in Lookup(e, x, {})}
  BY WithinLinks
<1>4. \A x \in Docs : Lookup(e, x, {}) \in SUBSET Docs
  BY LookupIs
<1> HIDE DEF k, g
<1>5. 0 \in T
  BY <1>1, <1>2
<1>6. ASSUME NEW m \in 0..((k - 1) - 1), m \in T PROVE m + 1 \in T
  <2>1. m + 1 \in 0..(k - 1) /\ m \in 0..(k - 1)
    BY <1>1
  <2>2. ASSUME NEW x \in Docs PROVE g[m + 1][x] \subseteq g[(m + 1) + 1][x]
    <3> DEFINE E == Lookup(e, x, {})
    <3>1. g[m + 1][x] = {x} \cup UNION {g[m][b] : b \in E}
      BY <1>3, <2>1
    <3>2. g[(m + 1) + 1][x] = {x} \cup UNION {g[m + 1][b] : b \in E}
      BY <1>3, <2>1
    <3>3. \A b \in E : g[m][b] \subseteq g[m + 1][b]
      BY <1>4, <1>6
    <3> HIDE DEF E, T
    <3> QED
      BY <3>1, <3>2, <3>3
  <2> QED
    BY <2>1, <2>2
<1> HIDE DEF T
<1>7. \A m \in 0..(k - 1) : m \in T
  BY <1>1, <1>5, <1>6, NumbersUpTo
<1>8. n \in T
  BY <1>7 DEF k
<1> QED
  BY <1>8 DEF T, g

\* And the same for any two numbers of links.
LEMMA WithinOrdered ==
    ASSUME NEW e, IsGraph(e), NEW m \in 0..Cardinality(Docs), NEW n \in 0..m, NEW a \in Docs
    PROVE  WithinOf(e)[n][a] \subseteq WithinOf(e)[m][a]
<1> DEFINE k == Cardinality(Docs)
           g == WithinOf(e)
           T == {i \in 0..(m - n) : g[n][a] \subseteq g[n + i][a]}
<1>1. k \in Nat
  BY IndexAssumption, FS_CardinalityType
<1>2. \A i \in 0..(k - 1) : g[i][a] \subseteq g[i + 1][a]
  BY WithinGrows
<1>3. m \in 0..k /\ n \in 0..m
  OBVIOUS
<1> HIDE DEF k, g
<1>4. m \in Nat /\ n \in Nat /\ m - n \in Nat /\ m <= k
  BY <1>1, <1>3
<1>5. 0 \in T
  BY <1>4
<1>6. ASSUME NEW i \in 0..((m - n) - 1), i \in T PROVE i + 1 \in T
  <2>1. i + 1 \in 0..(m - n) /\ n + i \in 0..(k - 1) /\ (n + i) + 1 = n + (i + 1)
    BY <1>1, <1>4
  <2>2. g[n + i][a] \subseteq g[n + (i + 1)][a]
    BY <1>2, <2>1
  <2> QED
    BY <1>6, <2>1, <2>2
<1> HIDE DEF T
<1>7. \A i \in 0..(m - n) : i \in T
  BY <1>4, <1>5, <1>6, NumbersUpTo
<1>8. m - n \in T
  BY <1>4, <1>7
<1>9. n + (m - n) = m
  BY <1>4
<1> QED
  BY <1>8, <1>9 DEF T, g

\* A link behind what an item leads to is one link more.
LEMMA WithinFollows ==
    ASSUME NEW e, IsGraph(e), NEW n \in 0..(Cardinality(Docs) - 1), NEW a \in Docs,
           NEW x \in WithinOf(e)[n][a], NEW y \in Lookup(e, x, {})
    PROVE  y \in WithinOf(e)[n + 1][a]
<1> DEFINE k == Cardinality(Docs)
           g == WithinOf(e)
           E(i) == Lookup(e, i, {})
           After(m, i) == \A u \in g[m][i] : \A v \in E(u) : v \in g[m + 1][i]
           T == {m \in 0..(k - 1) : \A i \in Docs : After(m, i)}
<1>1. k \in Nat /\ k - 1 \in Nat
  BY IndexAssumption, FS_CardinalityType
<1>2. \A i \in Docs : g[0][i] = {i} /\ \A m \in 0..k : i \in g[m][i]
  BY WithinLinks
<1>3. \A m \in 0..(k - 1), i \in Docs : g[m + 1][i] = {i} \cup UNION {g[m][b] : b \in E(i)}
  BY WithinLinks
<1>4. \A i : E(i) \in SUBSET Docs
  BY LookupIs
<1>5. x \in g[n][a] /\ y \in E(x) /\ n \in 0..(k - 1)
  OBVIOUS
<1> HIDE DEF k, g, E
<1>6. 0 \in T
  <2>1. 0 \in 0..(k - 1) /\ 0 \in 0..k
    BY <1>1
  <2>2. ASSUME NEW i \in Docs PROVE After(0, i)
    <3>1. g[0][i] = {i} /\ g[0 + 1][i] = {i} \cup UNION {g[0][b] : b \in E(i)}
      BY <1>2, <1>3, <2>1
    <3>2. \A v \in E(i) : v \in g[0][v]
      BY <1>2, <1>4, <2>1
    <3> QED
      BY <3>1, <3>2
  <2> QED
    BY <2>1, <2>2
<1>7. ASSUME NEW m \in 0..((k - 1) - 1), m \in T PROVE m + 1 \in T
  <2>1. m + 1 \in 0..(k - 1) /\ m \in 0..(k - 1) /\ m + 1 \in 0..k
    BY <1>1
  <2>2. ASSUME NEW i \in Docs PROVE After(m + 1, i)
    <3>1. /\ g[m + 1][i] = {i} \cup UNION {g[m][b] : b \in E(i)}
          /\ g[(m + 1) + 1][i] = {i} \cup UNION {g[m + 1][b] : b \in E(i)}
      BY <1>3, <2>1
    <3>2. ASSUME NEW u \in g[m + 1][i], NEW v \in E(u) PROVE v \in g[(m + 1) + 1][i]
      <4>1. CASE u = i
        <5>1. v \in g[m + 1][v] /\ v \in E(i)
          BY <1>2, <1>4, <2>1, <3>2, <4>1
        <5> QED
          BY <3>1, <5>1
      <4>2. CASE u # i
        <5>1. PICK b \in E(i) : u \in g[m][b]
          BY <3>1, <4>2
        <5>2. b \in Docs
          BY <1>4
        <5>3. After(m, b)
          BY <1>7, <5>2
        <5>4. v \in g[m + 1][b]
          BY <5>1, <5>3
        <5> QED
          BY <3>1, <5>1, <5>4
      <4> QED
        BY <4>1, <4>2
    <3> QED
      BY <3>2
  <2> QED
    BY <2>1, <2>2
<1> HIDE DEF T
<1>8. \A m \in 0..(k - 1) : m \in T
  BY <1>1, <1>6, <1>7, NumbersUpTo
<1>9. After(n, a)
  BY <1>5, <1>8 DEF T
<1> QED
  BY <1>5, <1>9 DEF g

\* What is in a set that its links do not leave leads to nothing outside it.
LEMMA ClosedHolds ==
    ASSUME NEW e, IsGraph(e), NEW S \in SUBSET Docs,
           \A x \in S : Lookup(e, x, {}) \subseteq S, NEW n \in 0..Cardinality(Docs), NEW a \in S
    PROVE  WithinOf(e)[n][a] \subseteq S
<1> DEFINE k == Cardinality(Docs)
           g == WithinOf(e)
           T == {m \in 0..k : \A x \in S : g[m][x] \subseteq S}
<1>1. k \in Nat
  BY IndexAssumption, FS_CardinalityType
<1>2. \A i \in Docs : g[0][i] = {i}
  BY WithinLinks
<1>3. \A m \in 0..(k - 1), i \in Docs :
         g[m + 1][i] = {i} \cup UNION {g[m][b] : b \in Lookup(e, i, {})}
  BY WithinLinks
<1> HIDE DEF k, g
<1>4. 0 \in T
  BY <1>1, <1>2
<1>5. ASSUME NEW m \in 0..(k - 1), m \in T PROVE m + 1 \in T
  <2>1. m + 1 \in 0..k
    BY <1>1
  <2>2. ASSUME NEW x \in S PROVE g[m + 1][x] \subseteq S
    <3> DEFINE E == Lookup(e, x, {})
    <3>1. g[m + 1][x] = {x} \cup UNION {g[m][b] : b \in E}
      BY <1>3
    <3>2. \A b \in E : g[m][b] \subseteq S
      BY <1>5
    <3> HIDE DEF E, T
    <3> QED
      BY <3>1, <3>2
  <2> QED
    BY <2>1, <2>2
<1> HIDE DEF T
<1>6. \A m \in 0..k : m \in T
  BY <1>1, <1>4, <1>5, NumbersUpTo
<1>7. n \in T
  BY <1>6 DEF k
<1> QED
  BY <1>7 DEF T, g

-----------------------------------------------------------------------------
(* ContextIndexes: a chain query                                            *)

Frames == [depth : Nat, todo : SUBSET Docs]

\* What a walk has taken: no item twice, none too far.
IsTaken(e, start, bound, seen) ==
    /\ seen \in Seq(Docs) /\ IsInjective(seen) /\ start \in ToSet(seen)
    /\ ToSet(seen) \subseteq WithinOf(e)[Near(bound - 1)][start]

\* Its frames: no more than items taken, each as deep as its place.
IsStack(e, start, bound, frames, seen) ==
    /\ frames \in Seq(Frames) /\ Len(frames) <= Len(seen) /\ Len(frames) <= bound
    /\ \A i \in 1..Len(frames) :
         frames[i].depth = i - 1 /\ frames[i].todo \subseteq WithinOf(e)[i][start]

\* An effect of what is taken is taken too, or still to do.
Remembers(e, frames, seen) ==
    \A x \in ToSet(seen) : \A y \in Lookup(e, x, {}) :
        y \in ToSet(seen) \/ \E i \in 1..Len(frames) : y \in frames[i].todo

IsWalk(e, start, bound, frames, seen) ==
    /\ start \in Docs /\ bound \in Nat \ {0}
    /\ IsTaken(e, start, bound, seen) /\ IsStack(e, start, bound, frames, seen)
    /\ bound >= Cardinality(Docs) => Remembers(e, frames, seen)

\* What is taken without a repetition is no more than there are items.
LEMMA TakenFit ==
    ASSUME NEW seen \in Seq(Docs), IsInjective(seen)
    PROVE  Len(seen) \in Nat /\ Len(seen) <= Cardinality(Docs) /\ Cardinality(Docs) \in Nat
<1>1. ToSet(seen) \in SUBSET Docs
  BY SeqElements
<1>2. Cardinality(ToSet(seen)) = Len(seen) /\ Len(seen) \in Nat
  BY InjectiveLength, LenProperties
<1>3. Cardinality(ToSet(seen)) <= Cardinality(Docs) /\ Cardinality(Docs) \in Nat
  BY <1>1, IndexAssumption, FS_Subset, FS_CardinalityType
<1> QED
  BY <1>2, <1>3

\* One more that is new leaves no repetition.
LEMMA TakenGrows ==
    ASSUME NEW seen \in Seq(Docs), IsInjective(seen), NEW node \in Docs, node \notin ToSet(seen)
    PROVE  LET r == Append(seen, node) IN
           /\ r \in Seq(Docs) /\ IsInjective(r) /\ ToSet(r) = ToSet(seen) \cup {node}
           /\ Len(r) = Len(seen) + 1 /\ Len(seen) + 1 <= Cardinality(Docs)
<1> DEFINE r == Append(seen, node)
<1>1. /\ r \in Seq(Docs) /\ Len(r) = Len(seen) + 1
      /\ \A i \in 1..Len(seen) : r[i] = seen[i]
      /\ r[Len(seen) + 1] = node
  BY AppendProperties
<1>2. ToSet(r) = ToSet(seen) \cup {node}
  BY AppendElements
<1>3. Len(seen) \in Nat /\ DOMAIN seen = 1..Len(seen) /\ DOMAIN r = 1..Len(r)
  BY <1>1, LenProperties
<1>4. \A i \in 1..Len(seen) : seen[i] # node
  BY <1>3 DEF ToSet
<1> HIDE DEF r
<1>5. IsInjective(r)
  <2> SUFFICES ASSUME NEW a \in 1..Len(r), NEW b \in 1..Len(r), r[a] = r[b] PROVE a = b
    BY <1>3 DEF IsInjective
  <2>1. (a \in 1..Len(seen) \/ a = Len(seen) + 1) /\ (b \in 1..Len(seen) \/ b = Len(seen) + 1)
    BY <1>1, <1>3
  <2>2. CASE a \in 1..Len(seen) /\ b \in 1..Len(seen)
    BY <1>1, <1>3, <2>2 DEF IsInjective
  <2> QED
    BY <1>1, <1>4, <2>1, <2>2
<1>6. Len(r) <= Cardinality(Docs)
  BY <1>1, <1>5, TakenFit
<1> QED
  BY <1>1, <1>2, <1>5, <1>6 DEF r

\* A walk begins with its start.
LEMMA WalkBegins ==
    ASSUME NEW e, IsGraph(e), NEW start \in Docs, NEW bound \in Nat \ {0},
           NEW f \in Frames, f.depth = 0, f.todo = Lookup(e, start, {})
    PROVE  IsWalk(e, start, bound, <<f>>, <<start>>)
<1> DEFINE k == Cardinality(Docs)
           u == <<f>>
           w == <<start>>
           near == Near(bound - 1)
<1>1. u \in Seq(Frames) /\ Len(u) = 1 /\ u[1] = f
  OBVIOUS
<1>2. w \in Seq(Docs) /\ Len(w) = 1 /\ w[1] = start /\ DOMAIN w = {1} /\ ToSet(w) = {start}
  BY DEF ToSet
<1> HIDE DEF u, w
<1>3. IsInjective(w)
  BY <1>2 DEF IsInjective
<1>4. k \in Nat /\ 1 <= k
  BY <1>2, <1>3, TakenFit
<1>5. near \in 0..k
  BY <1>4 DEF Near
<1> HIDE DEF k, near
<1>6. IsTaken(e, start, bound, w)
  <2>1. start \in WithinOf(e)[near][start]
    BY <1>5, WithinLinks DEF k
  <2> QED
    BY <1>2, <1>3, <2>1 DEF IsTaken, near
<1>7. f.todo \subseteq WithinOf(e)[1][start]
  <2>1. 0 \in 0..(k - 1) /\ 0 + 1 = 1
    BY <1>4
  <2>2. start \in WithinOf(e)[0][start]
    BY WithinLinks
  <2>3. \A y \in Lookup(e, start, {}) : y \in WithinOf(e)[0 + 1][start]
    BY <2>1, <2>2, WithinFollows DEF k
  <2> QED
    BY <2>1, <2>3
<1>8. IsStack(e, start, bound, u, w)
  <2>1. \A i \in 1..Len(u) : i = 1 /\ i - 1 = 0
    BY <1>1
  <2>2. Len(u) <= Len(w) /\ Len(u) <= bound
    BY <1>1, <1>2
  <2> QED
    BY <1>1, <1>7, <2>1, <2>2 DEF IsStack
<1>9. Remembers(e, u, w)
  <2>1. 1 \in 1..Len(u)
    BY <1>1
  <2> QED
    BY <1>1, <1>2, <2>1 DEF Remembers
<1> QED
  BY <1>6, <1>8, <1>9 DEF IsWalk, u, w

\* Front leaves all but the last.
LEMMA FrontIs ==
    ASSUME NEW S, NEW q \in Seq(S), q # <<>>
    PROVE  /\ Len(q) \in Nat /\ Len(q) > 0 /\ Last(q) \in S /\ Last(q) = q[Len(q)]
           /\ Front(q) \in Seq(S) /\ Len(Front(q)) = Len(q) - 1
           /\ \A i \in 1..(Len(q) - 1) : Front(q)[i] = q[i]
<1>1. Len(q) \in Nat /\ Len(q) > 0 /\ \A i \in 1..Len(q) : q[i] \in S
  BY LenProperties, EmptySeq, ElementOfSeq
<1>2. \A i \in 1..(Len(q) - 1) : q[i] \in S
  BY <1>1
<1>3. Len(q) - 1 \in Int /\ 1 \in Int
  BY <1>1
<1>4. /\ SubSeq(q, 1, Len(q) - 1) \in Seq(S)
      /\ Len(SubSeq(q, 1, Len(q) - 1)) = (IF 1 <= Len(q) - 1 THEN (Len(q) - 1) - 1 + 1 ELSE 0)
      /\ \A i \in 1..((Len(q) - 1) - 1 + 1) : SubSeq(q, 1, Len(q) - 1)[i] = q[1 + i - 1]
  BY <1>2, <1>3, SubSeqProperties
<1>5. \A i \in 1..(Len(q) - 1) : i \in 1..((Len(q) - 1) - 1 + 1) /\ 1 + i - 1 = i
  BY <1>1
<1>6. Len(SubSeq(q, 1, Len(q) - 1)) = Len(q) - 1
  <2> DEFINE l == Len(SubSeq(q, 1, Len(q) - 1))
             n == Len(q)
  <2>1. n \in Nat /\ n > 0 /\ l = (IF 1 <= n - 1 THEN (n - 1) - 1 + 1 ELSE 0)
    BY <1>1, <1>4
  <2> HIDE DEF l, n
  <2>2. l = n - 1
    BY <2>1
  <2> QED
    BY <2>2 DEF l, n
<1> QED
  BY <1>1, <1>4, <1>5, <1>6 DEF Front, Last

\* A frame with nothing to do is left.
LEMMA WalkPops ==
    ASSUME NEW e, NEW start, NEW bound, NEW frames, NEW seen,
           IsWalk(e, start, bound, frames, seen), frames # <<>>, Last(frames).todo = {}
    PROVE  IsWalk(e, start, bound, Front(frames), seen)
<1> DEFINE below == Front(frames)
           n == Len(frames)
<1>1. frames \in Seq(Frames) /\ IsStack(e, start, bound, frames, seen) /\ bound \in Nat
      /\ IsTaken(e, start, bound, seen)
  BY DEF IsWalk, IsStack
<1>2. /\ n \in Nat /\ n > 0 /\ Last(frames) = frames[n]
      /\ below \in Seq(Frames) /\ Len(below) = n - 1
      /\ \A i \in 1..(n - 1) : below[i] = frames[i]
  BY <1>1, FrontIs
<1>3. Len(seen) \in Nat
  BY <1>1, LenProperties DEF IsTaken
<1>4. n <= Len(seen) /\ n <= bound
  BY <1>1 DEF IsStack
<1> HIDE DEF below, n
<1>5. \A i \in 1..Len(below) : i \in 1..(n - 1) /\ i \in 1..n
  BY <1>2
<1>6. Len(below) <= Len(seen) /\ Len(below) <= bound
  BY <1>1, <1>2, <1>3, <1>4
<1>7. IsStack(e, start, bound, below, seen)
  BY <1>1, <1>2, <1>5, <1>6 DEF IsStack, n
<1>8. ASSUME bound >= Cardinality(Docs) PROVE Remembers(e, below, seen)
  <2>1. Remembers(e, frames, seen)
    BY <1>8 DEF IsWalk
  <2>2. \A i \in 1..n : i = n \/ i \in 1..(n - 1)
    BY <1>2
  <2>3. \A y : \A i \in 1..n : y \in frames[i].todo => i \in 1..Len(below) /\ y \in below[i].todo
    BY <1>2, <2>2
  <2> QED
    BY <2>1, <2>3 DEF Remembers, n
<1> QED
  BY <1>1, <1>7, <1>8 DEF IsWalk, below

\* A frame's next effect is struck off.
LEMMA StackTrimmed ==
    ASSUME NEW e, NEW start, NEW bound, NEW seen, NEW frames,
           IsStack(e, start, bound, frames, seen), frames # <<>>,
           NEW node, NEW f \in Frames, f.depth = Last(frames).depth, f.todo = Last(frames).todo \ {node}
    PROVE  LET r == Append(Front(frames), f) IN
           /\ IsStack(e, start, bound, r, seen) /\ Len(r) = Len(frames)
           /\ \A y : y # node => \A i \in 1..Len(frames) : y \in frames[i].todo => y \in r[i].todo
<1> DEFINE below == Front(frames)
           n == Len(frames)
           r == Append(below, f)
<1>1. frames \in Seq(Frames) /\ n <= Len(seen) /\ n <= bound
  BY DEF IsStack
<1>2. /\ n \in Nat /\ n > 0 /\ Last(frames) = frames[n]
      /\ below \in Seq(Frames) /\ Len(below) = n - 1
      /\ \A i \in 1..(n - 1) : below[i] = frames[i]
  BY <1>1, FrontIs
<1> HIDE DEF below, n
<1>3. /\ r \in Seq(Frames) /\ Len(r) = (n - 1) + 1
      /\ \A i \in 1..(n - 1) : r[i] = below[i] /\ r[(n - 1) + 1] = f
  BY <1>2, AppendProperties
<1>4. Len(r) = n /\ r[n] = f
  <2>1. (n - 1) + 1 = n
    BY <1>2
  <2>2. r[(n - 1) + 1] = f
    BY <1>2, AppendProperties
  <2> QED
    BY <1>3, <2>1, <2>2
<1> HIDE DEF r
<1>5. \A i \in 1..n : i = n \/ i \in 1..(n - 1)
  BY <1>2
<1>6. \A i \in 1..n : r[i].depth = frames[i].depth /\ r[i].todo \subseteq frames[i].todo
                      /\ \A y : y # node /\ y \in frames[i].todo => y \in r[i].todo
  <2>1. r[n].depth = frames[n].depth /\ r[n].todo = frames[n].todo \ {node}
    BY <1>2, <1>4
  <2>2. \A i \in 1..(n - 1) : r[i] = frames[i]
    BY <1>2, <1>3
  <2> QED
    BY <1>5, <2>1, <2>2
<1>7. IsStack(e, start, bound, r, seen)
  BY <1>1, <1>3, <1>4, <1>6 DEF IsStack, n
<1> QED
  BY <1>4, <1>6, <1>7 DEF r, below, n

\* What the top frame has to do is within the start's reach, no deeper than items allow.
LEMMA TopReaches ==
    ASSUME NEW e, IsGraph(e), NEW start, NEW bound, NEW frames, NEW seen,
           IsWalk(e, start, bound, frames, seen), frames # <<>>, NEW node \in Last(frames).todo
    PROVE  /\ node \in Docs /\ Last(frames) \in Frames /\ Len(frames) \in Nat
           /\ Last(frames).depth + 1 = Len(frames)
           /\ node \in WithinOf(e)[Len(frames)][start]
           /\ node \notin ToSet(seen) =>
                Len(frames) < Cardinality(Docs) /\ Len(frames) + 1 <= Len(seen) + 1
<1> DEFINE n == Len(frames)
<1>1. /\ frames \in Seq(Frames) /\ n <= Len(seen)
      /\ \A i \in 1..n : frames[i].depth = i - 1 /\ frames[i].todo \subseteq WithinOf(e)[i][start]
  BY DEF IsWalk, IsStack
<1>2. n \in Nat /\ n > 0 /\ Last(frames) = frames[n] /\ Last(frames) \in Frames
  BY <1>1, FrontIs
<1>3. seen \in Seq(Docs) /\ IsInjective(seen) /\ Len(seen) \in Nat
  BY LenProperties DEF IsWalk, IsTaken
<1> HIDE DEF n
<1>4. n \in 1..n
  BY <1>2
<1>5. frames[n].depth = n - 1 /\ node \in WithinOf(e)[n][start]
  BY <1>1, <1>2, <1>4
<1>6. node \in Docs
  BY <1>2 DEF Frames
<1>7. node \notin ToSet(seen) => Len(seen) + 1 <= Cardinality(Docs) /\ Cardinality(Docs) \in Nat
  BY <1>3, <1>6, TakenGrows, TakenFit
<1>8. Last(frames).depth + 1 = n
  BY <1>2, <1>5
<1>9. node \notin ToSet(seen) => n < Cardinality(Docs) /\ n + 1 <= Len(seen) + 1
  BY <1>1, <1>2, <1>3, <1>7
<1> QED
  BY <1>2, <1>5, <1>6, <1>8, <1>9 DEF n

\* An effect that is taken already, or too deep, is passed over.
LEMMA WalkPasses ==
    ASSUME NEW e, IsGraph(e), NEW start, NEW bound, NEW frames, NEW seen,
           IsWalk(e, start, bound, frames, seen), frames # <<>>, NEW node \in Last(frames).todo,
           ~(Last(frames).depth + 1 < bound /\ node \notin ToSet(seen)),
           NEW f \in Frames, f.depth = Last(frames).depth, f.todo = Last(frames).todo \ {node}
    PROVE  IsWalk(e, start, bound, Append(Front(frames), f), seen)
<1> DEFINE r == Append(Front(frames), f)
<1>1. start \in Docs /\ bound \in Nat \ {0} /\ IsTaken(e, start, bound, seen)
      /\ IsStack(e, start, bound, frames, seen)
  BY DEF IsWalk
<1>2. /\ IsStack(e, start, bound, r, seen) /\ Len(r) = Len(frames)
      /\ \A y : y # node => \A i \in 1..Len(frames) : y \in frames[i].todo => y \in r[i].todo
  BY <1>1, StackTrimmed
<1> HIDE DEF r
<1>3. ASSUME bound >= Cardinality(Docs) PROVE Remembers(e, r, seen)
  <2>1. Remembers(e, frames, seen)
    BY <1>3 DEF IsWalk
  <2>2. node \in ToSet(seen)
    <3>1. Last(frames).depth + 1 = Len(frames) /\ Len(frames) \in Nat
          /\ (node \notin ToSet(seen) => Len(frames) < Cardinality(Docs))
      BY TopReaches
    <3>2. Cardinality(Docs) \in Nat
      BY IndexAssumption, FS_CardinalityType
    <3>3. node \notin ToSet(seen) => Len(frames) < bound
      BY <1>1, <1>3, <3>1, <3>2
    <3> QED
      BY <3>1, <3>3
  <2> QED
    BY <1>2, <2>1, <2>2 DEF Remembers
<1> QED
  BY <1>1, <1>2, <1>3 DEF IsWalk, r

\* An effect that is new, and not too deep, is taken, and a frame has its effects to do.
LEMMA WalkEnters ==
    ASSUME NEW e, IsGraph(e), NEW start, NEW bound, NEW frames, NEW seen,
           IsWalk(e, start, bound, frames, seen), frames # <<>>, NEW node \in Last(frames).todo,
           Last(frames).depth + 1 < bound, node \notin ToSet(seen),
           NEW f \in Frames, f.depth = Last(frames).depth, f.todo = Last(frames).todo \ {node},
           NEW h \in Frames, h.depth = Last(frames).depth + 1, h.todo = Lookup(e, node, {})
    PROVE  IsWalk(e, start, bound, Append(Append(Front(frames), f), h), Append(seen, node))
<1> DEFINE r == Append(Front(frames), f)
           q == Append(r, h)
           s == Append(seen, node)
           n == Len(frames)
           k == Cardinality(Docs)
           g == WithinOf(e)
           near == Near(bound - 1)
<1>1. start \in Docs /\ bound \in Nat \ {0} /\ IsTaken(e, start, bound, seen)
      /\ IsStack(e, start, bound, frames, seen)
  BY DEF IsWalk
<1>2. /\ IsStack(e, start, bound, r, seen) /\ Len(r) = n
      /\ \A y : y # node => \A i \in 1..n : y \in frames[i].todo => y \in r[i].todo
  BY <1>1, StackTrimmed
<1>3. node \in Docs /\ n \in Nat /\ Last(frames).depth + 1 = n /\ n < k /\ node \in g[n][start]
  BY TopReaches
<1>4. /\ s \in Seq(Docs) /\ IsInjective(s) /\ ToSet(s) = ToSet(seen) \cup {node}
      /\ Len(s) = Len(seen) + 1 /\ Len(seen) \in Nat
  BY <1>1, <1>3, TakenGrows, LenProperties DEF IsTaken
<1>5. k \in Nat
  BY IndexAssumption, FS_CardinalityType
<1>6. n <= Len(seen) /\ n < bound
  BY <1>1, <1>3 DEF IsStack
<1>7. r \in Seq(Frames)
  BY <1>2 DEF IsStack
<1> HIDE DEF r, s, n, k
<1>8. /\ q \in Seq(Frames) /\ Len(q) = n + 1
      /\ \A i \in 1..n : q[i] = r[i]
      /\ q[n + 1] = h
  BY <1>2, <1>7, AppendProperties
<1>9. near \in 0..k /\ n \in 0..near
  BY <1>1, <1>3, <1>5, <1>6 DEF Near, k
<1> HIDE DEF near, q
<1>10. node \in g[near][start]
  <2>1. g[n][start] \subseteq g[near][start]
    BY <1>1, <1>9, WithinOrdered DEF k
  <2> QED
    BY <1>3, <2>1
<1>11. IsTaken(e, start, bound, s)
  BY <1>1, <1>4, <1>10 DEF IsTaken, near
<1>12. h.todo \subseteq g[n + 1][start]
  <2>1. n \in 0..(k - 1)
    BY <1>3, <1>5
  <2>2. \A y \in Lookup(e, node, {}) : y \in g[n + 1][start]
    BY <1>1, <1>3, <2>1, WithinFollows DEF k
  <2> QED
    BY <2>2
<1> HIDE DEF g
<1>13. \A i \in 1..(n + 1) : i = n + 1 \/ i \in 1..n
  BY <1>3
<1>14. IsStack(e, start, bound, q, s)
  <2>1. Len(q) <= Len(s) /\ Len(q) <= bound
    BY <1>1, <1>3, <1>4, <1>6, <1>8
  <2>2. \A i \in 1..n : q[i].depth = i - 1 /\ q[i].todo \subseteq g[i][start]
    BY <1>2, <1>8 DEF IsStack, g
  <2>3. q[n + 1].depth = (n + 1) - 1 /\ q[n + 1].todo \subseteq g[n + 1][start]
    BY <1>3, <1>8, <1>12
  <2>4. \A i \in 1..Len(q) : q[i].depth = i - 1 /\ q[i].todo \subseteq g[i][start]
    BY <1>8, <1>13, <2>2, <2>3
  <2> QED
    BY <1>8, <2>1, <2>4 DEF IsStack, g
<1>15. ASSUME bound >= k PROVE Remembers(e, q, s)
  <2>1. Remembers(e, frames, seen)
    BY <1>15 DEF IsWalk, k
  <2> SUFFICES ASSUME NEW x \in ToSet(s), NEW y \in Lookup(e, x, {}), y \notin ToSet(s)
               PROVE  \E i \in 1..Len(q) : y \in q[i].todo
    BY DEF Remembers
  <2>2. n + 1 \in 1..Len(q) /\ \A i \in 1..n : i \in 1..Len(q)
    BY <1>3, <1>8
  <2>3. CASE x = node
    BY <1>8, <2>2, <2>3
  <2>4. CASE x # node
    <3>1. PICK i \in 1..n : y \in frames[i].todo
      BY <1>4, <2>1, <2>4 DEF Remembers, n
    <3>2. y \in q[i].todo
      BY <1>2, <1>4, <1>8, <3>1
    <3> QED
      BY <2>2, <3>1, <3>2
  <2> QED
    BY <2>3, <2>4
<1> QED
  BY <1>1, <1>11, <1>14, <1>15 DEF IsWalk, r, q, s, k

Walks == [start : Docs \cup {"none"}, bound : Nat, frames : Seq(Frames), seen : Seq(Docs)]

WalkInv ==
    /\ walk \in Walks
    /\ walk.bound = 0 => walk.frames = <<>>
    /\ walk.bound > 0 => IsWalk(effects, walk.start, walk.bound, walk.frames, walk.seen)

\* With no walk there is nothing to say.
LEMMA NoWalkIs == walk' = NoWalk => WalkInv'
<1> SUFFICES ASSUME walk' = NoWalk PROVE WalkInv'
  OBVIOUS
<1>1. <<>> \in Seq(Frames) /\ <<>> \in Seq(Docs)
  OBVIOUS
<1>2. walk' \in Walks /\ walk'.bound = 0 /\ walk'.frames = <<>>
  BY <1>1 DEF NoWalk, Walks
<1> QED
  BY <1>2 DEF WalkInv

\* A query begins a walk, or with no depth allowed answers nothing.
LEMMA ChainBegins ==
    ASSUME GraphInv, NEW start \in Docs, NEW bound \in DepthBounds, BeginChain(start, bound)
    PROVE  WalkInv'
<1>1. bound \in Nat /\ effects' = effects
  BY IndexAssumption DEF BeginChain
<1>2. CASE bound = 0
  <2>1. walk' = [NoWalk EXCEPT !.start = start]
    BY <1>2 DEF BeginChain
  <2>2. <<>> \in Seq(Frames) /\ <<>> \in Seq(Docs)
    OBVIOUS
  <2>3. walk' \in Walks /\ walk'.bound = 0 /\ walk'.frames = <<>>
    BY <2>1, <2>2 DEF NoWalk, Walks
  <2> QED
    BY <2>3 DEF WalkInv
<1>3. CASE bound # 0
  <2> DEFINE f == Frame(start, 0)
             u == <<f>>
             w == <<start>>
  <2>1. walk' = [start |-> start, bound |-> bound, frames |-> u, seen |-> w]
    BY <1>3 DEF BeginChain
  <2>2. f \in Frames /\ f.depth = 0 /\ f.todo = Lookup(effects, start, {})
    <3>1. Lookup(effects, start, {}) \in SUBSET Docs
      BY LookupIs DEF GraphInv
    <3> QED
      BY <3>1 DEF Frame, Frames
  <2> HIDE DEF f
  <2>3. u \in Seq(Frames) /\ w \in Seq(Docs)
    BY <2>2
  <2>4. IsWalk(effects, start, bound, u, w)
    BY <1>1, <1>3, <2>2, WalkBegins DEF GraphInv
  <2> HIDE DEF u, w
  <2>5. /\ walk' \in Walks /\ walk'.bound = bound /\ walk'.start = start
        /\ walk'.frames = u /\ walk'.seen = w
    BY <1>1, <2>1, <2>3 DEF Walks
  <2> QED
    BY <1>1, <1>3, <2>4, <2>5 DEF WalkInv
<1> QED
  BY <1>2, <1>3

\* A walk that goes on stays one.
LEMMA ChainGoesOn ==
    ASSUME GraphInv, WalkInv, WalkOn
    PROVE  WalkInv'
<1> DEFINE top == Last(walk.frames)
           below == Front(walk.frames)
           rest(node) == Append(below, [top EXCEPT !.todo = @ \ {node}])
           depth == top.depth + 1
<1>1. walk.frames # <<>> /\ effects' = effects /\ walk \in Walks
  BY DEF WalkOn, WalkInv
<1>2. walk.bound \in Nat /\ walk.bound > 0 /\ walk.frames \in Seq(Frames)
  BY <1>1 DEF WalkInv, Walks
<1>3. IsWalk(effects, walk.start, walk.bound, walk.frames, walk.seen) /\ IsGraph(effects)
  BY <1>2 DEF WalkInv, GraphInv
<1>4. SUFFICES ASSUME NEW F, NEW Q, walk' = [walk EXCEPT !.frames = F, !.seen = Q],
                      IsWalk(effects, walk.start, walk.bound, F, Q)
               PROVE  WalkInv'
  <2>1. \/ top.todo = {} /\ walk' = [walk EXCEPT !.frames = below]
        \/ \E node \in top.todo :
              walk' = IF Enters(node, depth)
                      THEN [walk EXCEPT !.frames = Append(rest(node), Frame(node, depth)),
                                        !.seen = Append(@, node)]
                      ELSE [walk EXCEPT !.frames = rest(node)]
    BY DEF WalkOn
  <2>2. \A F : [walk EXCEPT !.frames = F] = [walk EXCEPT !.frames = F, !.seen = walk.seen]
    BY <1>1 DEF Walks
  <2>3. CASE top.todo = {} /\ walk' = [walk EXCEPT !.frames = below]
    <3>1. IsWalk(effects, walk.start, walk.bound, below, walk.seen)
      BY <1>1, <1>3, <2>3, WalkPops
    <3>2. walk' = [walk EXCEPT !.frames = below, !.seen = walk.seen]
      BY <2>2, <2>3
    <3> QED
      BY <1>4, <3>1, <3>2
  <2>4. ASSUME NEW node \in top.todo,
               walk' = IF Enters(node, depth)
                       THEN [walk EXCEPT !.frames = Append(rest(node), Frame(node, depth)),
                                         !.seen = Append(@, node)]
                       ELSE [walk EXCEPT !.frames = rest(node)]
        PROVE  WalkInv'
    <3> DEFINE f == [top EXCEPT !.todo = @ \ {node}]
               h == Frame(node, depth)
    <3>1. top \in Frames /\ node \in Docs
      BY <1>1, <1>3, TopReaches
    <3>2. f \in Frames /\ f.depth = top.depth /\ f.todo = top.todo \ {node}
      BY <3>1 DEF Frames
    <3>3. h \in Frames /\ h.depth = top.depth + 1 /\ h.todo = Lookup(effects, node, {})
      <4>1. Lookup(effects, node, {}) \in SUBSET Docs
        BY <1>3, LookupIs
      <4>2. top.depth + 1 \in Nat
        BY <1>1, <1>3, TopReaches
      <4> QED
        BY <4>1, <4>2 DEF Frame, Frames
    <3>4. CASE Enters(node, depth)
      <4>1. top.depth + 1 < walk.bound /\ node \notin ToSet(walk.seen)
        BY <3>4 DEF Enters
      <4>2. walk' = [walk EXCEPT !.frames = Append(rest(node), h), !.seen = Append(walk.seen, node)]
        BY <2>4, <3>4
      <4> HIDE DEF f, h
      <4>3. IsWalk(effects, walk.start, walk.bound, Append(Append(below, f), h), Append(walk.seen, node))
        BY <1>1, <1>3, <3>2, <3>3, <4>1, WalkEnters
      <4> QED
        BY <1>4, <4>2, <4>3 DEF f
    <3>5. CASE ~Enters(node, depth)
      <4>1. ~(top.depth + 1 < walk.bound /\ node \notin ToSet(walk.seen))
        BY <3>5 DEF Enters
      <4>2. walk' = [walk EXCEPT !.frames = rest(node), !.seen = walk.seen]
        BY <2>2, <2>4, <3>5
      <4> HIDE DEF f
      <4>3. IsWalk(effects, walk.start, walk.bound, Append(below, f), walk.seen)
        BY <1>1, <1>3, <3>2, <4>1, WalkPasses
      <4> QED
        BY <1>4, <4>2, <4>3 DEF f
    <3> QED
      BY <3>4, <3>5
  <2> QED
    BY <2>1, <2>3, <2>4
<1>5. F \in Seq(Frames) /\ Q \in Seq(Docs)
  BY <1>4 DEF IsWalk, IsStack, IsTaken
<1>6. /\ walk' \in Walks /\ walk'.start = walk.start /\ walk'.bound = walk.bound
      /\ walk'.frames = F /\ walk'.seen = Q
  BY <1>1, <1>4, <1>5 DEF Walks
<1> QED
  BY <1>1, <1>2, <1>4, <1>6 DEF WalkInv

\* What the definition of a chain's reach says is what the walk's says.
LEMMA WithinSame == Within = WithinOf(effects)
BY DEF Within, WithinOf, EffectsOf

\* A walk that has ended has taken what it should.
LEMMA WalkAnswers == GraphInv /\ WalkInv => ChainsAreSound
<1> SUFFICES ASSUME GraphInv, WalkInv PROVE ChainsAreSound
  OBVIOUS
<1> DEFINE k == Cardinality(Docs)
           start == walk.start
           bound == walk.bound
           S == ToSet(walk.seen)
           near == Near(bound - 1)
<1>1. \A a, b \in Docs : b \in EffectsOf(a) <=> a \in Lookup(causes, b, {})
  BY DEF GraphInv, Mirrors, EffectsOf
<1>2. SUFFICES ASSUME bound > 0
               PROVE  /\ IsInjective(walk.seen)
                      /\ walk.frames = <<>> =>
                           /\ S \subseteq Within[near][start]
                           /\ bound >= k => S = Within[k][start]
  BY <1>1 DEF ChainsAreSound
<1>3. IsWalk(effects, start, bound, walk.frames, walk.seen) /\ IsGraph(effects)
  BY <1>2 DEF WalkInv, GraphInv
<1>4. /\ IsInjective(walk.seen) /\ S \subseteq WithinOf(effects)[near][start]
      /\ start \in S /\ S \in SUBSET Docs /\ start \in Docs /\ bound \in Nat \ {0}
  BY <1>3, SeqElements DEF IsWalk, IsTaken
<1>5. k \in Nat
  BY IndexAssumption, FS_CardinalityType
<1>6. near \in 0..k /\ k \in 0..k
  BY <1>4, <1>5 DEF Near
<1> HIDE DEF S, near, k, start, bound
<1>7. ASSUME walk.frames = <<>>, bound >= k PROVE S = WithinOf(effects)[k][start]
  <2>1. Remembers(effects, <<>>, walk.seen)
    BY <1>3, <1>7 DEF IsWalk, k
  <2>2. \A x \in S : Lookup(effects, x, {}) \subseteq S
    <3>1. \A i \in 1..Len(<<>>) : FALSE
      OBVIOUS
    <3> QED
      BY <2>1, <3>1 DEF Remembers, S
  <2>3. WithinOf(effects)[k][start] \subseteq S
    BY <1>3, <1>4, <1>6, <2>2, ClosedHolds DEF k
  <2>4. WithinOf(effects)[near][start] \subseteq WithinOf(effects)[k][start]
    BY <1>3, <1>4, <1>6, WithinOrdered DEF k
  <2> QED
    BY <1>4, <2>3, <2>4
<1> QED
  BY <1>4, <1>7, WithinSame DEF S, near, k, start, bound

\* The two graphs are each other's inverse; a finished chain names no item twice, none too
\* far, and all the start leads to when its bound is not below the number of items.
THEOREM ChainsHold == IndexSpec => []ChainsAreSound
<1> DEFINE Inv == GraphInv /\ WalkInv
<1>1. IndexInit => Inv
  <2>1. <<>> \in Seq(Frames) /\ <<>> \in Seq(Docs)
    OBVIOUS
  <2>2. IndexInit => WalkInv
    BY <2>1 DEF IndexInit, NoWalk, WalkInv, Walks
  <2> QED
    BY <2>2, GraphInitial
<1>2. Inv /\ [SparseNext \/ CausalNext]_indexVars => Inv'
  <2> SUFFICES ASSUME Inv, [SparseNext \/ CausalNext]_indexVars PROVE WalkInv'
    BY GraphStep
  <2>1. CASE SparseNext
    BY <2>1, NoWalkIs DEF SparseNext, AddDocument, RemoveDocument
  <2>2. CASE CausalNext
    <3>1. ASSUME NEW a \in Docs, NEW b \in Docs, AddCausalLink(a, b) PROVE WalkInv'
      BY <3>1, NoWalkIs DEF AddCausalLink
    <3>2. ASSUME NEW a \in Docs, RemoveNode(a) PROVE WalkInv'
      BY <3>2, NoWalkIs DEF RemoveNode
    <3>3. ASSUME NEW a \in Docs, NEW bound \in DepthBounds, BeginChain(a, bound) PROVE WalkInv'
      BY <3>3, ChainBegins
    <3>4. CASE WalkOn
      BY <3>4, ChainGoesOn
    <3> QED
      BY <2>2, <3>1, <3>2, <3>3, <3>4 DEF CausalNext
  <2>3. CASE UNCHANGED indexVars
    BY <2>3 DEF indexVars, WalkInv
  <2> QED
    BY <2>1, <2>2, <2>3
<1>3. Inv => ChainsAreSound
  BY WalkAnswers
<1> QED
  BY <1>1, <1>2, <1>3, PTL DEF IndexSpec

-----------------------------------------------------------------------------
(* DialogueEvents: from legacy to v2                                        *)

\* What is left of a record's fields.
LEMMA OnlyIs ==
  ASSUME NEW f, NEW s
  PROVE  /\ DOMAIN Only(f, s) = s \cap DOMAIN f
         /\ \A x \in s \cap DOMAIN f : Only(f, s)[x] = f[x]
BY DEF Only

\* The fields of two records.
LEMMA JoinIs ==
  ASSUME NEW f, NEW g
  PROVE  /\ DOMAIN (f ++ g) = DOMAIN f \cup DOMAIN g
         /\ \A x \in DOMAIN f \cup DOMAIN g :
              (f ++ g)[x] = IF x \in DOMAIN f THEN f[x] ELSE g[x]
BY DEF ++

\* A record of one field.
LEMMA OneIs ==
  ASSUME NEW x, NEW y
  PROVE  DOMAIN One(x, y) = {x} /\ One(x, y)[x] = y
BY DEF One

LEMMA NoFields == DOMAIN <<>> = {}
OBVIOUS

\* The record of enhancements has the vectors that the event has.
LEMMA RecordIs ==
  ASSUME NEW data, HasScalars(data)
  PROVE  /\ DOMAIN EnhancementRecord(data) = {f \in RecordFields \cap DOMAIN data : data[f] # "empty"}
         /\ \A f \in DOMAIN EnhancementRecord(data) : EnhancementRecord(data)[f] = data[f]
         /\ \A f \in ScalarFields : f \in DOMAIN EnhancementRecord(data) <=> f \in DOMAIN data
         /\ VectorsFit(EnhancementRecord(data), Vectors) <=> VectorsFit(data, Vectors)
<1> DEFINE s == {f \in RecordFields : f \in DOMAIN data /\ data[f] # "empty"}
<1>1. DOMAIN Only(data, s) = s \cap DOMAIN data /\ \A x \in s \cap DOMAIN data : Only(data, s)[x] = data[x]
  BY OnlyIs
<1> DEFINE r == EnhancementRecord(data)
<1>2. r = Only(data, s)
  BY DEF EnhancementRecord
<1>3. DOMAIN r = {f \in RecordFields \cap DOMAIN data : data[f] # "empty"}
  BY <1>1, <1>2
<1>4. \A f \in DOMAIN r : r[f] = data[f]
  BY <1>1, <1>2
<1>5. ScalarFields \subseteq RecordFields
  BY DEF ScalarFields, RecordFields
<1>6. \A f \in ScalarFields : f \in DOMAIN r <=> f \in DOMAIN data
  BY <1>3, <1>5 DEF HasScalars
<1> HIDE DEF r
<1>7. Vectors \subseteq ScalarFields /\ "embedding_meta" \in ScalarFields
  BY DEF ScalarFields
<1>8. VectorsFit(r, Vectors) <=> VectorsFit(data, Vectors)
  BY <1>4, <1>6, <1>7 DEF VectorsFit
<1> QED
  BY <1>3, <1>4, <1>6, <1>8 DEF r

\* What becomes of the enhancements is sound if the vectors fit and the event has a time.
LEMMA MigratedIs ==
  ASSUME NEW data, HasScalars(data), NEW t \in Int
  PROVE  /\ Migrated(data, t) = [append |-> TRUE, latest |-> Migrated(data, t).latest,
                                 versions |-> Migrated(data, t).versions]
         /\ LET v == Migrated(data, t).versions IN
              /\ v \in Seq({v[i] : i \in DOMAIN v})
              /\ \A i \in DOMAIN v : IsSnapshot(v[i])
         /\ t >= 0 => (EnhancementsValid(Migrated(data, t)) <=> VectorsFit(data, Vectors))
<1> DEFINE r == EnhancementRecord(data)
           s == [version |-> 1, created |-> t, data |-> r]
           m == Migrated(data, t)
<1>1. CASE DOMAIN r = {}
  <2>1. m = [append |-> TRUE, latest |-> 0, versions |-> <<>>]
    BY <1>1 DEF Migrated, NoEnhancements
  <2>2. VectorsFit(data, Vectors)
    BY <1>1, RecordIs DEF VectorsFit, ScalarFields
  <2>3. EnhancementsValid(m)
    BY <2>1 DEF EnhancementsValid, Rising
  <2> QED
    BY <2>1, <2>2, <2>3
<1>2. CASE DOMAIN r # {}
  <2>1. m = [append |-> TRUE, latest |-> 1, versions |-> <<s>>]
    BY <1>2 DEF Migrated
  <2>2. DOMAIN r \subseteq RecordFields /\ HasScalars(r)
    BY RecordIs DEF HasScalars
  <2>3. IsSnapshot(s)
    BY <2>2 DEF IsSnapshot, IsRecord
  <2>4. t >= 0 => (SnapshotValid(s) <=> VectorsFit(data, Vectors))
    BY RecordIs DEF SnapshotValid
  <2> DEFINE v == <<s>>
  <2>5. Len(v) = 1 /\ v[1] = s /\ DOMAIN v = {1} /\ v \in Seq({v[i] : i \in DOMAIN v}) /\ s.version = 1
    OBVIOUS
  <2>6. m.versions = v /\ m.append = TRUE /\ m.latest = 1
    BY <2>1
  <2>7. m = [append |-> TRUE, latest |-> m.latest, versions |-> m.versions]
    BY <2>1
  <2> HIDE DEF m, v, s
  <2>8. v # <<>>
    <3>1. v = <<>> => Len(v) = 0
      OBVIOUS
    <3> QED
      BY <2>5, <3>1
  <2>9. EnhancementsValid(m) <=> SnapshotValid(s)
    <3>1. Rising(v)
      BY <2>5 DEF Rising
    <3>2. \A i \in 1..Len(v) : i = 1
      BY <2>5
    <3>3. 1 \in 1..Len(v)
      BY <2>5
    <3>4. EnhancementsValid(m) <=> /\ \A i \in 1..Len(v) : v[i].version >= 1 /\ SnapshotValid(v[i])
                                   /\ 1 = v[Len(v)].version
      BY <2>6, <2>8, <3>1 DEF EnhancementsValid
    <3>5. v[Len(v)].version = 1 /\ \A i \in 1..Len(v) : v[i] = s
      BY <2>5
    <3> QED
      BY <2>5, <3>3, <3>4, <3>5
  <2>10. \A i \in DOMAIN v : IsSnapshot(v[i])
    BY <2>3, <2>5
  <2> QED
    BY <2>4, <2>5, <2>6, <2>7, <2>9, <2>10 DEF m
<1> QED
  BY <1>1, <1>2

\* What a legacy event turns into.
LEMMA UpgradeIs ==
  ASSUME NEW e, IsLegacy(e)
  PROVE  IsV2(FromLegacy(e))
<1> DEFINE g == FromLegacy(e)
<1>1. g = [form |-> "v2", base |-> g.base, extra |-> g.extra, payload |-> g.payload,
            enhancements |-> g.enhancements, metadata |-> g.metadata]
      /\ g.base = e.base /\ g.enhancements = Migrated(e.data, e.base.timestamp)
  BY DEF FromLegacy
<1>2. IsBase(e.base) /\ HasScalars(e.data) /\ e.base.timestamp \in Int
  BY DEF IsLegacy, IsBase
<1> HIDE DEF g
<1> DEFINE m == Migrated(e.data, e.base.timestamp)
<1>3. /\ m = [append |-> m.append, latest |-> m.latest, versions |-> m.versions]
      /\ m.versions \in Seq({m.versions[i] : i \in DOMAIN m.versions})
      /\ \A i \in DOMAIN m.versions : IsSnapshot(m.versions[i])
  <2>1. m = [append |-> TRUE, latest |-> m.latest, versions |-> m.versions]
    BY <1>2, MigratedIs
  <2>2. m.append = TRUE
    BY <2>1
  <2> QED
    BY <1>2, <2>1, <2>2, MigratedIs
<1> HIDE DEF m
<1> QED
  BY <1>1, <1>2, <1>3 DEF g, m, IsV2

-----------------------------------------------------------------------------
(* DialogueEvents: from v2 to legacy                                        *)

\* The last snapshot of an event has a record's fields.
LEMMA LastIs ==
  ASSUME NEW v, IsV2(v)
  PROVE  LET n == v.enhancements.versions IN
         /\ n # <<>> => /\ Len(n) \in DOMAIN n /\ Len(n) \in Nat \ {0} /\ DOMAIN n = 1..Len(n)
                        /\ IsSnapshot(n[Len(n)]) /\ Downgraded(v.enhancements) = n[Len(n)].data
         /\ IsRecord(Downgraded(v.enhancements))
<1> DEFINE n == v.enhancements.versions
<1>1. n \in Seq({n[i] : i \in DOMAIN n}) /\ \A i \in DOMAIN n : IsSnapshot(n[i])
  BY DEF IsV2
<1>2. n # <<>> => Len(n) \in DOMAIN n /\ Len(n) \in Nat \ {0} /\ DOMAIN n = 1..Len(n)
  <2> HIDE DEF n
  <2> DEFINE S == {n[i] : i \in DOMAIN n}
  <2>1. n \in Seq(S)
    BY <1>1
  <2> HIDE DEF S
  <2> QED
    BY <2>1
<1>3. n # <<>> => Downgraded(v.enhancements) = n[Len(n)].data
  BY DEF Downgraded
<1>4. n = <<>> => IsRecord(Downgraded(v.enhancements))
  <2>1. n = <<>> => DOMAIN Downgraded(v.enhancements) = {}
    BY DEF Downgraded
  <2> QED
    BY <2>1 DEF IsRecord, HasScalars
<1>5. n # <<>> => IsRecord(Downgraded(v.enhancements))
  BY <1>1, <1>2, <1>3 DEF IsSnapshot
<1> QED
  BY <1>1, <1>2, <1>3, <1>4, <1>5

\* What is carried is not of the record.
LEMMA CarriedApart ==
  ASSUME NEW domain
  PROVE  CarriedFields(domain) \cap RecordFields = {}
BY DEF CarriedFields, RecordFields, ContentFields, Vectors, LegacyVectors

\* A legacy event has the last record's fields, and of others what is carried.
LEMMA BackData ==
  ASSUME NEW v, IsV2(v), NEW x
  PROVE  LET data == ToLegacy(v).data
             last == Downgraded(v.enhancements)
             carried == CarriedFields(v.payload.domain) IN
         /\ x \in RecordFields => /\ x \in DOMAIN data <=> x \in DOMAIN last
                                  /\ x \in DOMAIN last => data[x] = last[x]
         /\ x \notin RecordFields =>
              /\ x \in DOMAIN data <=> x \in carried /\ x \in DOMAIN v.payload.data
              /\ x \in DOMAIN data => data[x] = v.payload.data[x]
<1> DEFINE last == Downgraded(v.enhancements)
           carried == CarriedFields(v.payload.domain)
           p == v.payload.data
           o == Only(p, carried)
<1>1. ToLegacy(v).data = o ++ last
  BY DEF ToLegacy
<1>2. DOMAIN last \subseteq RecordFields
  BY LastIs DEF IsRecord
<1>3. carried \cap RecordFields = {}
  BY CarriedApart
<1>4. DOMAIN o = carried \cap DOMAIN p /\ \A y \in carried \cap DOMAIN p : o[y] = p[y]
  BY OnlyIs
<1> HIDE DEF o, last, carried, p
<1> DEFINE j == o ++ last
<1>5. /\ DOMAIN j = DOMAIN o \cup DOMAIN last
      /\ \A y \in DOMAIN o \cup DOMAIN last : j[y] = IF y \in DOMAIN o THEN o[y] ELSE last[y]
  BY DEF ++
<1> HIDE DEF j
<1>6. CASE x \in RecordFields
  <2>1. x \notin DOMAIN o
    BY <1>3, <1>4, <1>6
  <2>2. x \in DOMAIN j <=> x \in DOMAIN last
    BY <1>5, <2>1
  <2>3. x \in DOMAIN last => j[x] = last[x]
    BY <1>5, <2>1
  <2> QED
    BY <1>1, <1>6, <2>2, <2>3 DEF j, last
<1>7. CASE x \notin RecordFields
  <2>1. x \notin DOMAIN last
    BY <1>2, <1>7
  <2>2. x \in DOMAIN j <=> x \in DOMAIN o
    BY <1>5, <2>1
  <2>3. x \in DOMAIN j => j[x] = p[x]
    BY <1>4, <1>5, <2>1
  <2> QED
    BY <1>1, <1>4, <1>7, <2>2, <2>3 DEF j, p, carried
<1> QED
  BY <1>6, <1>7

\* The parts of the event that a v2 event turns into.
LEMMA BackParts ==
  ASSUME NEW v
  PROVE  ToLegacy(v).form = "legacy" /\ ToLegacy(v).base = v.base
BY DEF ToLegacy

\* What a v2 event turns into.
LEMMA BackIs ==
  ASSUME NEW v, IsV2(v)
  PROVE  IsLegacy(ToLegacy(v))
<1> DEFINE data == ToLegacy(v).data
           last == Downgraded(v.enhancements)
<1>1. HasScalars(last)
  BY LastIs DEF IsRecord
<1>2. \A x \in RecordFields : /\ x \in DOMAIN data <=> x \in DOMAIN last
                              /\ x \in DOMAIN last => data[x] = last[x]
  BY BackData
<1>3. ScalarFields \subseteq RecordFields
  BY DEF ScalarFields, RecordFields
<1> HIDE DEF data, last
<1>4. HasScalars(data)
  BY <1>1, <1>2, <1>3 DEF HasScalars
<1>5. IsBase(v.base)
  BY DEF IsV2
<1> QED
  BY <1>4, <1>5, BackParts DEF IsLegacy, data

-----------------------------------------------------------------------------
(* DialogueEvents: the payloads that legacy events turn into                *)

\* A field that a payload is built with, given or not.
Filled(data, field) == IF field \in DOMAIN data THEN data[field] ELSE "placeholder"

\* The payload of a message.
LEMMA MessagePayload ==
  ASSUME NEW e, e.base.type = "Message"
  PROVE  LET p == LegacyPayload(e)
             some == (ContentFields \cup {"message_ref"}) \cap DOMAIN e.data # {} IN
         /\ p = [domain |-> "Message", kind |-> "Primary", data |-> p.data]
         /\ DOMAIN p.data = {"message_ref"} \cup (ContentFields \cap DOMAIN e.data)
                            \cup {f \in {"content_ref"} : some}
         /\ p.data["message_ref"] = Filled(e.data, "message_ref")
         /\ \A f \in ContentFields \cap DOMAIN e.data : p.data[f] = e.data[f]
         /\ some => p.data["content_ref"] =
                      IF "message_ref" \in DOMAIN e.data THEN e.data["message_ref"] ELSE "none"
<1> DEFINE d == e.data
           a == One("message_ref", Filled(d, "message_ref"))
           b == Only(d, ContentFields)
           some == (ContentFields \cup {"message_ref"}) \cap DOMAIN d # {}
           last == IF "message_ref" \in DOMAIN d THEN d["message_ref"] ELSE "none"
           c == IF some THEN One("content_ref", last) ELSE <<>>
           p == LegacyPayload(e)
<1>1. p = [domain |-> "Message", kind |-> "Primary", data |-> a ++ (b ++ c)]
  BY DEF LegacyPayload, OrPlaceholder, ContentRef, Filled
<1>2. DOMAIN a = {"message_ref"} /\ a["message_ref"] = Filled(d, "message_ref")
  BY OneIs
<1>3. DOMAIN b = ContentFields \cap DOMAIN d /\ \A f \in ContentFields \cap DOMAIN d : b[f] = d[f]
  BY OnlyIs
<1>4. DOMAIN c = {f \in {"content_ref"} : some} /\ (some => c["content_ref"] = last)
  <2>1. CASE some
    BY <2>1, OneIs
  <2>2. CASE ~some
    BY <2>2
  <2> QED
    BY <2>1, <2>2
<1>5. "message_ref" \notin ContentFields /\ "content_ref" \notin ContentFields \cup {"message_ref"}
  BY DEF ContentFields
<1> HIDE DEF a, b, c, last, some, p
<1> DEFINE bc == b ++ c
           abc == a ++ bc
<1>6. /\ DOMAIN bc = DOMAIN b \cup DOMAIN c
      /\ \A x \in DOMAIN b \cup DOMAIN c : bc[x] = IF x \in DOMAIN b THEN b[x] ELSE c[x]
  BY DEF ++
<1> HIDE DEF bc
<1>7. /\ DOMAIN abc = DOMAIN a \cup DOMAIN bc
      /\ \A x \in DOMAIN a \cup DOMAIN bc : abc[x] = IF x \in DOMAIN a THEN a[x] ELSE bc[x]
  BY DEF ++
<1>8. p.data = abc /\ p = [domain |-> "Message", kind |-> "Primary", data |-> p.data]
  BY <1>1 DEF bc
<1> HIDE DEF abc
<1>9. DOMAIN abc = {"message_ref"} \cup (ContentFields \cap DOMAIN d) \cup {f \in {"content_ref"} : some}
  BY <1>2, <1>3, <1>4, <1>6, <1>7
<1>10. abc["message_ref"] = Filled(d, "message_ref")
  BY <1>2, <1>7
<1>11. \A f \in ContentFields \cap DOMAIN d : abc[f] = d[f]
  BY <1>2, <1>3, <1>5, <1>6, <1>7
<1>12. some => abc["content_ref"] = last
  BY <1>2, <1>3, <1>4, <1>5, <1>6, <1>7
<1> QED
  BY <1>8, <1>9, <1>10, <1>11, <1>12 DEF p, some, last

\* The field that a tool's payload is built with.
ToolField(type) == IF type = "ToolCall" THEN "tool_invocation" ELSE "tool_result"

\* The payload of a tool's call or result.
LEMMA ToolPayload ==
  ASSUME NEW e, e.base.type \in {"ToolCall", "ToolResult"}
  PROVE  LET p == LegacyPayload(e) IN
         /\ p = [domain |-> "Tooling", data |-> p.data,
                 kind |-> IF e.base.type = "ToolCall" THEN "InvocationDispatched" ELSE "ResultRecorded"]
         /\ DOMAIN p.data = {ToolField(e.base.type)} \cup (ContentFields \cap DOMAIN e.data)
         /\ p.data[ToolField(e.base.type)] = Filled(e.data, ToolField(e.base.type))
         /\ \A f \in ContentFields \cap DOMAIN e.data : p.data[f] = e.data[f]
<1> DEFINE d == e.data
           field == ToolField(e.base.type)
           a == One(field, Filled(d, field))
           b == Only(d, ContentFields)
           p == LegacyPayload(e)
<1>1. p = [domain |-> "Tooling", data |-> a ++ b,
           kind |-> IF e.base.type = "ToolCall" THEN "InvocationDispatched" ELSE "ResultRecorded"]
  BY DEF LegacyPayload, OrPlaceholder, Filled, ToolField
<1>2. DOMAIN a = {field} /\ a[field] = Filled(d, field)
  BY OneIs
<1>3. DOMAIN b = ContentFields \cap DOMAIN d /\ \A f \in ContentFields \cap DOMAIN d : b[f] = d[f]
  BY OnlyIs
<1>4. field \notin ContentFields
  BY DEF ContentFields, ToolField
<1> HIDE DEF a, b, p, field
<1> DEFINE ab == a ++ b
<1>5. /\ DOMAIN ab = DOMAIN a \cup DOMAIN b
      /\ \A x \in DOMAIN a \cup DOMAIN b : ab[x] = IF x \in DOMAIN a THEN a[x] ELSE b[x]
  BY DEF ++
<1>6. p.data = ab /\ p = [domain |-> "Tooling", data |-> p.data,
           kind |-> IF e.base.type = "ToolCall" THEN "InvocationDispatched" ELSE "ResultRecorded"]
  BY <1>1
<1> HIDE DEF ab
<1>7. DOMAIN ab = {field} \cup (ContentFields \cap DOMAIN d) /\ ab[field] = Filled(d, field)
  BY <1>2, <1>3, <1>5
<1>8. \A f \in ContentFields \cap DOMAIN d : ab[f] = d[f]
  BY <1>2, <1>3, <1>4, <1>5
<1> QED
  BY <1>6, <1>7, <1>8 DEF p, field

\* The payload of a reflection.
LEMMA ReflectionPayload ==
  ASSUME NEW e, e.base.type = "SelfReflection"
  PROVE  LET p == LegacyPayload(e) IN
         /\ p = [domain |-> "SelfReflection", kind |-> "Logged", data |-> p.data]
         /\ DOMAIN p.data = {"self_reflection"} \cup ({"digest"} \cap DOMAIN e.data)
                            \cup {f \in {"related_event_id"} : e.base.trigger # "none"}
         /\ p.data["self_reflection"] = Filled(e.data, "self_reflection")
         /\ "digest" \in DOMAIN e.data => p.data["digest"] = e.data["digest"]
         /\ e.base.trigger # "none" => p.data["related_event_id"] = e.base.trigger
<1> DEFINE d == e.data
           t == e.base.trigger
           a == One("self_reflection", Filled(d, "self_reflection"))
           b == Only(d, {"digest"})
           c == IF t = "none" THEN <<>> ELSE One("related_event_id", t)
           p == LegacyPayload(e)
<1>1. p = [domain |-> "SelfReflection", kind |-> "Logged", data |-> (a ++ b) ++ c]
  BY DEF LegacyPayload, OrPlaceholder, Filled
<1>2. DOMAIN a = {"self_reflection"} /\ a["self_reflection"] = Filled(d, "self_reflection")
  BY OneIs
<1>3. DOMAIN b = {"digest"} \cap DOMAIN d /\ ("digest" \in DOMAIN d => b["digest"] = d["digest"])
  BY DEF Only
<1>4. DOMAIN c = {f \in {"related_event_id"} : t # "none"} /\ (t # "none" => c["related_event_id"] = t)
  <2>1. CASE t = "none"
    BY <2>1
  <2>2. CASE t # "none"
    BY <2>2, OneIs
  <2> QED
    BY <2>1, <2>2
<1> HIDE DEF a, b, c, p, t
<1> DEFINE ab == a ++ b
           abc == ab ++ c
<1>5. /\ DOMAIN ab = DOMAIN a \cup DOMAIN b
      /\ \A x \in DOMAIN a \cup DOMAIN b : ab[x] = IF x \in DOMAIN a THEN a[x] ELSE b[x]
  BY DEF ++
<1> HIDE DEF ab
<1>6. /\ DOMAIN abc = DOMAIN ab \cup DOMAIN c
      /\ \A x \in DOMAIN ab \cup DOMAIN c : abc[x] = IF x \in DOMAIN ab THEN ab[x] ELSE c[x]
  BY DEF ++
<1>7. p.data = abc /\ p = [domain |-> "SelfReflection", kind |-> "Logged", data |-> p.data]
  BY <1>1 DEF ab
<1> HIDE DEF abc
<1>8. DOMAIN abc = {"self_reflection"} \cup ({"digest"} \cap DOMAIN d)
                     \cup {f \in {"related_event_id"} : t # "none"}
  BY <1>2, <1>3, <1>4, <1>5, <1>6
<1>9. abc["self_reflection"] = Filled(d, "self_reflection")
  BY <1>2, <1>5, <1>6
<1>10. "digest" \in DOMAIN d => abc["digest"] = d["digest"]
  BY <1>2, <1>3, <1>5, <1>6
<1>11. t # "none" => abc["related_event_id"] = t
  BY <1>2, <1>3, <1>4, <1>5, <1>6
<1> QED
  BY <1>7, <1>8, <1>9, <1>10, <1>11 DEF p, t

\* What a decision says of its reasoning.
Reasoning == {"reasoning_trace", "reasoning_confidence", "reasoning_strategy"}

\* The payload of a decision.
LEMMA DecisionPayload ==
  ASSUME NEW e, e.base.type = "Decision"
  PROVE  LET p == LegacyPayload(e) IN
         /\ p = [domain |-> "Awareness", kind |-> "DecisionRouted", data |-> p.data]
         /\ DOMAIN p.data = {"event_type"} \cup (Reasoning \cap DOMAIN e.data)
         /\ p.data["event_type"] = "DecisionRouted"
         /\ \A f \in Reasoning \cap DOMAIN e.data : p.data[f] = e.data[f]
<1> DEFINE d == e.data
           a == One("event_type", "DecisionRouted")
           b == Only(d, Reasoning)
           p == LegacyPayload(e)
<1>1. p = [domain |-> "Awareness", kind |-> "DecisionRouted", data |-> a ++ b]
  BY DEF LegacyPayload, Reasoning
<1>2. DOMAIN a = {"event_type"} /\ a["event_type"] = "DecisionRouted"
  BY OneIs
<1>3. DOMAIN b = Reasoning \cap DOMAIN d /\ \A f \in Reasoning \cap DOMAIN d : b[f] = d[f]
  BY OnlyIs
<1>4. "event_type" \notin Reasoning
  BY DEF Reasoning
<1> HIDE DEF a, b, p
<1> DEFINE ab == a ++ b
<1>5. /\ DOMAIN ab = DOMAIN a \cup DOMAIN b
      /\ \A x \in DOMAIN a \cup DOMAIN b : ab[x] = IF x \in DOMAIN a THEN a[x] ELSE b[x]
  BY DEF ++
<1>6. p.data = ab /\ p = [domain |-> "Awareness", kind |-> "DecisionRouted", data |-> p.data]
  BY <1>1
<1> HIDE DEF ab
<1>7. DOMAIN ab = {"event_type"} \cup (Reasoning \cap DOMAIN d) /\ ab["event_type"] = "DecisionRouted"
  BY <1>2, <1>3, <1>5
<1>8. \A f \in Reasoning \cap DOMAIN d : ab[f] = d[f]
  BY <1>2, <1>3, <1>4, <1>5
<1> QED
  BY <1>6, <1>7, <1>8 DEF p

\* The payload of a lifecycle event, and that of a system event.
LEMMA OtherPayload ==
  ASSUME NEW e, e.base.type \in {"Lifecycle", "System"}
  PROVE  LET p == LegacyPayload(e) IN
         /\ e.base.type = "Lifecycle" =>
              /\ p = [domain |-> "Lifecycle", kind |-> "StageEntered", data |-> p.data]
              /\ DOMAIN p.data = {f \in {"stage"} : "time_window" \in DOMAIN e.data}
              /\ "time_window" \in DOMAIN e.data => p.data["stage"] = e.data["time_window"]
         /\ e.base.type = "System" =>
              /\ p = [domain |-> "System", kind |-> "NotificationDispatched", data |-> p.data]
              /\ DOMAIN p.data = {"category"} /\ p.data["category"] = "legacy_system"
<1>1. CASE e.base.type = "Lifecycle" /\ "time_window" \in DOMAIN e.data
  BY <1>1, OneIs DEF LegacyPayload
<1>2. CASE e.base.type = "Lifecycle" /\ "time_window" \notin DOMAIN e.data
  <2>1. LegacyPayload(e) = [domain |-> "Lifecycle", kind |-> "StageEntered", data |-> <<>>]
    BY <1>2 DEF LegacyPayload
  <2>2. LegacyPayload(e).data = <<>>
    BY <2>1
  <2> QED
    BY <1>2, <2>1, <2>2, NoFields
<1>3. CASE e.base.type = "System"
  BY <1>3, OneIs DEF LegacyPayload
<1> QED
  BY <1>1, <1>2, <1>3

-----------------------------------------------------------------------------
(* DialogueEvents: passages through the legacy form                         *)

\* Two records have the same of these fields.
Same(f, g, s) == \A x \in s : /\ x \in DOMAIN f <=> x \in DOMAIN g
                              /\ x \in DOMAIN f => f[x] = g[x]

\* Then nothing else is left of them either.
LEMMA SameOnly ==
  ASSUME NEW f, NEW g, NEW s, Same(f, g, s)
  PROVE  Only(f, s) = Only(g, s)
<1>1. s \cap DOMAIN f = s \cap DOMAIN g /\ \A x \in s \cap DOMAIN f : f[x] = g[x]
  BY DEF Same
<1> QED
  BY <1>1 DEF Only

\* Two legacy events are the same in what a payload reads of them.
ReadAlike(e, g) ==
    /\ e.base = g.base /\ e.base.type \in EventTypes
    /\ e.base.type = "Message" => Same(e.data, g.data, ContentFields \cup {"message_ref"})
    /\ e.base.type \in {"ToolCall", "ToolResult"} =>
          /\ Filled(e.data, ToolField(e.base.type)) = Filled(g.data, ToolField(e.base.type))
          /\ Same(e.data, g.data, ContentFields)
    /\ e.base.type = "SelfReflection" =>
          /\ Filled(e.data, "self_reflection") = Filled(g.data, "self_reflection")
          /\ Same(e.data, g.data, {"digest"})
    /\ e.base.type = "Decision" => Same(e.data, g.data, Reasoning)
    /\ e.base.type = "Lifecycle" => Same(e.data, g.data, {"time_window"})

\* Then they have the same payload.
LEMMA PayloadReads ==
  ASSUME NEW e, NEW g, ReadAlike(e, g)
  PROVE  LegacyPayload(e) = LegacyPayload(g)
<1> USE DEF ReadAlike
<1>1. CASE e.base.type = "Message"
  <2>1. Same(e.data, g.data, ContentFields)
    BY <1>1 DEF Same
  <2>2. Only(e.data, ContentFields) = Only(g.data, ContentFields)
    BY <2>1, SameOnly
  <2>3. (ContentFields \cup {"message_ref"}) \cap DOMAIN e.data = {}
          <=> (ContentFields \cup {"message_ref"}) \cap DOMAIN g.data = {}
    BY <1>1 DEF Same
  <2>4. /\ "message_ref" \in DOMAIN e.data <=> "message_ref" \in DOMAIN g.data
        /\ "message_ref" \in DOMAIN e.data => e.data["message_ref"] = g.data["message_ref"]
    BY <1>1 DEF Same
  <2>5. ContentRef(e.data) = ContentRef(g.data)
    BY <2>2, <2>3, <2>4 DEF ContentRef
  <2>6. OrPlaceholder(e.data, "message_ref") = OrPlaceholder(g.data, "message_ref")
    BY <2>4 DEF OrPlaceholder
  <2> QED
    BY <1>1, <2>5, <2>6 DEF LegacyPayload
<1>2. CASE e.base.type \in {"ToolCall", "ToolResult"}
  <2>1. Only(e.data, ContentFields) = Only(g.data, ContentFields)
    BY <1>2, SameOnly
  <2>2. OrPlaceholder(e.data, ToolField(e.base.type)) = OrPlaceholder(g.data, ToolField(e.base.type))
    BY <1>2 DEF OrPlaceholder, Filled
  <2> QED
    BY <1>2, <2>1, <2>2 DEF LegacyPayload, ToolField
<1>3. CASE e.base.type = "SelfReflection"
  <2>1. Only(e.data, {"digest"}) = Only(g.data, {"digest"})
    BY <1>3, SameOnly
  <2>2. OrPlaceholder(e.data, "self_reflection") = OrPlaceholder(g.data, "self_reflection")
    BY <1>3 DEF OrPlaceholder, Filled
  <2> QED
    BY <1>3, <2>1, <2>2 DEF LegacyPayload
<1>4. CASE e.base.type = "Decision"
  <2>1. Only(e.data, Reasoning) = Only(g.data, Reasoning)
    BY <1>4, SameOnly
  <2> QED
    BY <1>4, <2>1 DEF LegacyPayload, Reasoning
<1>5. CASE e.base.type = "Lifecycle"
  <2>1. /\ "time_window" \in DOMAIN e.data <=> "time_window" \in DOMAIN g.data
        /\ "time_window" \in DOMAIN e.data => e.data["time_window"] = g.data["time_window"]
    BY <1>5 DEF Same
  <2> QED
    BY <1>5, <2>1 DEF LegacyPayload
<1>6. CASE e.base.type = "System"
  BY <1>6 DEF LegacyPayload
<1> QED
  BY <1>1, <1>2, <1>3, <1>4, <1>5, <1>6 DEF EventTypes

\* The snapshot a legacy event turns into goes back to its record.
LEMMA DownIs ==
  ASSUME NEW data, NEW t
  PROVE  LET last == Downgraded(Migrated(data, t))
             r == EnhancementRecord(data) IN
         DOMAIN last = DOMAIN r /\ \A f \in DOMAIN r : last[f] = r[f]
<1> DEFINE r == EnhancementRecord(data)
           s == [version |-> 1, created |-> t, data |-> r]
<1>1. CASE DOMAIN r = {}
  <2>1. Migrated(data, t).versions = <<>>
    BY <1>1 DEF Migrated, NoEnhancements
  <2>2. Downgraded(Migrated(data, t)) = <<>>
    BY <2>1 DEF Downgraded
  <2> QED
    BY <1>1, <2>2, NoFields
<1>2. CASE DOMAIN r # {}
  <2>1. Migrated(data, t).versions = <<s>>
    BY <1>2 DEF Migrated
  <2> DEFINE v == <<s>>
  <2>2. Len(v) = 1 /\ v[1] = s /\ v # <<>>
    OBVIOUS
  <2>3. v[Len(v)].data = r
    BY <2>2
  <2> HIDE DEF v, r, s
  <2>4. Downgraded(Migrated(data, t)) = r
    BY <2>1, <2>2, <2>3 DEF Downgraded, v
  <2> QED
    BY <2>4 DEF r
<1> QED
  BY <1>1, <1>2

\* The parts of the event that a legacy event turns into.
LEMMA UpgradeParts ==
  ASSUME NEW e
  PROVE  LET v == FromLegacy(e) IN
         /\ v.form = "v2" /\ v.base = e.base /\ v.payload = LegacyPayload(e)
         /\ v.enhancements = Migrated(e.data, e.base.timestamp) /\ v.metadata = e.metadata
         /\ v.extra = IF "time_window" \in DOMAIN e.data THEN One("stage_hint", e.data["time_window"]) ELSE <<>>
         /\ v = [form |-> "v2", base |-> v.base, extra |-> v.extra, payload |-> v.payload,
                 enhancements |-> v.enhancements, metadata |-> v.metadata]
BY DEF FromLegacy

\* A passage through the legacy form keeps the record of enhancements.
LEMMA RecordPasses ==
  ASSUME NEW l, IsLegacy(l)
  PROVE  LET g == ToLegacy(FromLegacy(l)) IN
         /\ \A x \in RecordFields : x \in DOMAIN g.data <=> x \in DOMAIN EnhancementRecord(l.data)
         /\ EnhancementRecord(g.data) = EnhancementRecord(l.data)
         /\ Same(l.data, g.data, {"time_window"})
<1> DEFINE v == FromLegacy(l)
           d == ToLegacy(v).data
           last == Downgraded(v.enhancements)
           r == EnhancementRecord(l.data)
<1>1. IsV2(v) /\ v.enhancements = Migrated(l.data, l.base.timestamp) /\ HasScalars(l.data)
  BY UpgradeIs, UpgradeParts DEF IsLegacy
<1>2. DOMAIN last = DOMAIN r /\ \A f \in DOMAIN r : last[f] = r[f]
  BY <1>1, DownIs
<1>3. \A x \in RecordFields : /\ x \in DOMAIN d <=> x \in DOMAIN last
                              /\ x \in DOMAIN last => d[x] = last[x]
  BY <1>1, BackData
<1>4. /\ DOMAIN r = {f \in RecordFields \cap DOMAIN l.data : l.data[f] # "empty"}
      /\ \A f \in DOMAIN r : r[f] = l.data[f]
      /\ \A f \in ScalarFields : f \in DOMAIN r <=> f \in DOMAIN l.data
  BY <1>1, RecordIs
<1>5. r = [x \in DOMAIN r |-> r[x]]
  <2> DEFINE s == {f \in RecordFields : f \in DOMAIN l.data /\ l.data[f] # "empty"}
             o == Only(l.data, s)
  <2>1. o = [x \in s \cap DOMAIN l.data |-> l.data[x]]
    BY DEF Only
  <2> HIDE DEF s
  <2>2. o = [x \in DOMAIN o |-> o[x]]
    BY <2>1
  <2> QED
    BY <2>2 DEF EnhancementRecord, s
<1> HIDE DEF v, d, last, r
<1> DEFINE s == {f \in RecordFields : f \in DOMAIN d /\ d[f] # "empty"}
<1>6. s \cap DOMAIN d = DOMAIN r
  BY <1>2, <1>3, <1>4
<1>7. \A x \in DOMAIN r : d[x] = r[x]
  BY <1>2, <1>3, <1>4
<1>8. Only(d, s) = r
  BY <1>5, <1>6, <1>7 DEF Only
<1>9. EnhancementRecord(d) = r
  BY <1>8 DEF EnhancementRecord
<1>10. Same(l.data, d, {"time_window"})
  <2>1. "time_window" \in ScalarFields /\ "time_window" \in RecordFields
    BY DEF ScalarFields, RecordFields
  <2> QED
    BY <1>2, <1>3, <1>4, <2>1 DEF Same
<1>11. \A x \in RecordFields : x \in DOMAIN d <=> x \in DOMAIN r
  BY <1>2, <1>3
<1> QED
  BY <1>9, <1>10, <1>11 DEF v, d, r

\* It keeps the payload, but for a message without its reference.
LEMMA PayloadPasses ==
  ASSUME NEW l, IsLegacy(l), l.base.type = "Message" => "message_ref" \in DOMAIN l.data
  PROVE  LegacyPayload(ToLegacy(FromLegacy(l))) = LegacyPayload(l)
<1> DEFINE v == FromLegacy(l)
           g == ToLegacy(v)
           p == LegacyPayload(l)
<1>1. IsV2(v) /\ v.payload = p /\ v.base = l.base /\ g.base = l.base /\ l.base.type \in EventTypes
  BY UpgradeIs, UpgradeParts, BackParts DEF IsLegacy, IsBase
<1>2. Same(l.data, g.data, {"time_window"})
  BY RecordPasses
<1>3. ASSUME NEW x, x \notin RecordFields
      PROVE  /\ x \in DOMAIN g.data <=> x \in CarriedFields(p.domain) /\ x \in DOMAIN p.data
             /\ x \in DOMAIN g.data => g.data[x] = p.data[x]
  BY <1>1, <1>3, BackData
<1> DEFINE Other == ContentFields \cup Reasoning
                    \cup {"message_ref", "tool_invocation", "tool_result", "self_reflection"}
<1>4. \A x \in Other : x \notin RecordFields
  BY DEF ContentFields, Reasoning, RecordFields, Vectors, LegacyVectors
<1> HIDE DEF v, g, p
<1>5. \A x \in Other : /\ x \in DOMAIN g.data <=> x \in CarriedFields(p.domain) /\ x \in DOMAIN p.data
                       /\ x \in DOMAIN g.data => g.data[x] = p.data[x]
  BY <1>3, <1>4
<1> SUFFICES ReadAlike(l, g)
  <2>1. ReadAlike(l, g) => LegacyPayload(l) = LegacyPayload(g)
    BY PayloadReads
  <2> QED
    BY <2>1 DEF g, v, p
<1>6. CASE l.base.type = "Message"
  <2>1. /\ p.domain = "Message" /\ "message_ref" \in DOMAIN p.data
        /\ p.data["message_ref"] = l.data["message_ref"]
        /\ \A f \in ContentFields : f \in DOMAIN p.data <=> f \in DOMAIN l.data
        /\ \A f \in ContentFields \cap DOMAIN l.data : p.data[f] = l.data[f]
    <3>1. "message_ref" \notin ContentFields /\ "content_ref" \notin ContentFields
      BY DEF ContentFields
    <3>2. p.domain = "Message"
      BY <1>6, MessagePayload DEF p
    <3>3. p.data["message_ref"] = l.data["message_ref"]
      BY <1>6, MessagePayload DEF p, Filled
    <3> QED
      BY <1>6, <3>1, <3>2, <3>3, MessagePayload DEF p
  <2>2. CarriedFields(p.domain) = {"message_ref"} \cup ContentFields
    BY <2>1 DEF CarriedFields
  <2>3. Same(l.data, g.data, ContentFields \cup {"message_ref"})
    BY <1>5, <1>6, <2>1, <2>2 DEF Same
  <2> QED
    BY <1>1, <1>6, <2>3 DEF ReadAlike
<1>7. CASE l.base.type \in {"ToolCall", "ToolResult"}
  <2> DEFINE field == ToolField(l.base.type)
  <2>1. /\ p.domain = "Tooling" /\ DOMAIN p.data = {field} \cup (ContentFields \cap DOMAIN l.data)
        /\ p.data[field] = Filled(l.data, field)
        /\ \A f \in ContentFields \cap DOMAIN l.data : p.data[f] = l.data[f]
    BY <1>7, ToolPayload DEF p
  <2>2. CarriedFields(p.domain) = {"tool_invocation", "tool_result"} \cup ContentFields
    BY <2>1 DEF CarriedFields
  <2>3. field \in {"tool_invocation", "tool_result"} /\ field \notin ContentFields
    BY DEF ToolField, ContentFields
  <2> HIDE DEF field
  <2>4. Same(l.data, g.data, ContentFields)
    BY <1>5, <2>1, <2>2, <2>3 DEF Same
  <2>5. Filled(l.data, field) = Filled(g.data, field)
    BY <1>5, <2>1, <2>2, <2>3 DEF Filled
  <2> QED
    BY <1>1, <1>7, <2>4, <2>5 DEF ReadAlike, field
<1>8. CASE l.base.type = "SelfReflection"
  <2>1. /\ p.domain = "SelfReflection" /\ "self_reflection" \in DOMAIN p.data
        /\ p.data["self_reflection"] = Filled(l.data, "self_reflection")
        /\ "digest" \in DOMAIN p.data <=> "digest" \in DOMAIN l.data
        /\ "digest" \in DOMAIN l.data => p.data["digest"] = l.data["digest"]
    BY <1>8, ReflectionPayload DEF p
  <2>2. CarriedFields(p.domain) = {"self_reflection", "digest"} /\ "digest" \in Other
    BY <2>1 DEF CarriedFields, ContentFields
  <2>3. Same(l.data, g.data, {"digest"})
    BY <1>5, <2>1, <2>2 DEF Same
  <2>4. Filled(l.data, "self_reflection") = Filled(g.data, "self_reflection")
    BY <1>5, <2>1, <2>2 DEF Filled
  <2> QED
    BY <1>1, <1>8, <2>3, <2>4 DEF ReadAlike
<1>9. CASE l.base.type = "Decision"
  <2>1. /\ p.domain = "Awareness" /\ DOMAIN p.data = {"event_type"} \cup (Reasoning \cap DOMAIN l.data)
        /\ \A f \in Reasoning \cap DOMAIN l.data : p.data[f] = l.data[f]
    BY <1>9, DecisionPayload DEF p
  <2>2. CarriedFields(p.domain) = Reasoning /\ "event_type" \notin Reasoning
    BY <2>1 DEF CarriedFields, Reasoning
  <2>3. Same(l.data, g.data, Reasoning)
    BY <1>5, <2>1, <2>2 DEF Same
  <2> QED
    BY <1>1, <1>9, <2>3 DEF ReadAlike
<1>10. CASE l.base.type = "Lifecycle"
  BY <1>1, <1>2, <1>10 DEF ReadAlike
<1>11. CASE l.base.type = "System"
  BY <1>1, <1>11 DEF ReadAlike
<1> QED
  BY <1>1, <1>6, <1>7, <1>8, <1>9, <1>10, <1>11 DEF EventTypes

\* A message has a reference once it went through the legacy form, if only a placeholder.
LEMMA MessagePasses ==
  ASSUME NEW l, IsLegacy(l), l.base.type = "Message"
  PROVE  LET g == ToLegacy(FromLegacy(l)) IN
         /\ "message_ref" \in DOMAIN g.data
         /\ "message_ref" \notin DOMAIN l.data => Is(FromLegacy(g).payload, "message_ref", "placeholder")
<1> DEFINE v == FromLegacy(l)
           g == ToLegacy(v)
           p == LegacyPayload(l)
           q == LegacyPayload(g)
<1>1. IsV2(v) /\ v.payload = p /\ v.base = l.base /\ g.base = l.base /\ FromLegacy(g).payload = q
  BY UpgradeIs, UpgradeParts, BackParts
<1>2. "message_ref" \notin RecordFields
  BY DEF RecordFields, Vectors, LegacyVectors
<1>3. /\ p.domain = "Message" /\ "message_ref" \in DOMAIN p.data
      /\ p.data["message_ref"] = Filled(l.data, "message_ref")
  <2>1. p.domain = "Message"
    BY MessagePayload
  <2>2. p.data["message_ref"] = Filled(l.data, "message_ref")
    BY MessagePayload
  <2>3. "message_ref" \in DOMAIN p.data
    BY MessagePayload
  <2> QED
    BY <2>1, <2>2, <2>3
<1>4. /\ "message_ref" \in DOMAIN g.data
               <=> "message_ref" \in CarriedFields(p.domain) /\ "message_ref" \in DOMAIN p.data
      /\ "message_ref" \in DOMAIN g.data => g.data["message_ref"] = p.data["message_ref"]
  BY <1>1, <1>2, BackData
<1>5. /\ "message_ref" \in DOMAIN q.data /\ q.data["message_ref"] = Filled(g.data, "message_ref")
  <2>1. g.base.type = "Message"
    BY <1>1
  <2> HIDE DEF g
  <2>2. q.data["message_ref"] = Filled(g.data, "message_ref")
    BY <2>1, MessagePayload
  <2>3. "message_ref" \in DOMAIN q.data
    BY <2>1, MessagePayload
  <2> QED
    BY <2>2, <2>3
<1> HIDE DEF g, p, q, v
<1>6. "message_ref" \in CarriedFields(p.domain)
  BY <1>3 DEF CarriedFields
<1>7. "message_ref" \in DOMAIN g.data
  BY <1>3, <1>4, <1>6
<1>8. "message_ref" \notin DOMAIN l.data => q.data["message_ref"] = "placeholder"
  BY <1>3, <1>4, <1>5, <1>7 DEF Filled
<1>9. FromLegacy(g).payload = q
  BY <1>1 DEF g
<1>10. "message_ref" \notin DOMAIN l.data => Is(FromLegacy(g).payload, "message_ref", "placeholder")
  BY <1>5, <1>8, <1>9 DEF Is, Has
<1> QED
  BY <1>7, <1>10 DEF g, v

\* A second passage changes nothing but the metadata.
LEMMA PassageSettles ==
  ASSUME NEW l, IsLegacy(l), l.base.type = "Message" => "message_ref" \in DOMAIN l.data
  PROVE  LET v == FromLegacy(l) IN
         [FromLegacy(ToLegacy(v)) EXCEPT !.metadata = v.metadata] = v
<1> DEFINE v == FromLegacy(l)
           g == ToLegacy(v)
           w == FromLegacy(g)
<1>1. /\ v.form = "v2" /\ v.base = l.base /\ v.payload = LegacyPayload(l)
      /\ v.enhancements = Migrated(l.data, l.base.timestamp)
      /\ v.extra = IF "time_window" \in DOMAIN l.data THEN One("stage_hint", l.data["time_window"]) ELSE <<>>
      /\ v = [form |-> "v2", base |-> v.base, extra |-> v.extra, payload |-> v.payload,
              enhancements |-> v.enhancements, metadata |-> v.metadata]
  BY UpgradeParts
<1>2. g.base = l.base
  BY <1>1, BackParts
<1>3. EnhancementRecord(g.data) = EnhancementRecord(l.data) /\ Same(l.data, g.data, {"time_window"})
  BY RecordPasses
<1>4. LegacyPayload(g) = LegacyPayload(l)
  BY PayloadPasses
<1> HIDE DEF v, g
<1>5. /\ w.form = "v2" /\ w.base = g.base /\ w.payload = LegacyPayload(g)
      /\ w.enhancements = Migrated(g.data, g.base.timestamp)
      /\ w.extra = IF "time_window" \in DOMAIN g.data THEN One("stage_hint", g.data["time_window"]) ELSE <<>>
      /\ w = [form |-> "v2", base |-> w.base, extra |-> w.extra, payload |-> w.payload,
              enhancements |-> w.enhancements, metadata |-> w.metadata]
  BY UpgradeParts
<1> HIDE DEF w
<1>6. w.enhancements = v.enhancements
  BY <1>1, <1>2, <1>3, <1>5 DEF Migrated
<1>7. w.extra = v.extra
  BY <1>1, <1>3, <1>5 DEF Same
<1>8. w.base = v.base /\ w.payload = v.payload
  BY <1>1, <1>2, <1>4, <1>5
<1>9. [w EXCEPT !.metadata = v.metadata] =
        [form |-> "v2", base |-> w.base, extra |-> w.extra, payload |-> w.payload,
         enhancements |-> w.enhancements, metadata |-> v.metadata]
  BY <1>5
<1>10. [w EXCEPT !.metadata = v.metadata] = v
  BY <1>1, <1>6, <1>7, <1>8, <1>9
<1> QED
  BY <1>10 DEF w, g, v

-----------------------------------------------------------------------------
(* DialogueEvents: what the validators accept                               *)

\* A payload is valid by the fields that are asked for.
LEMMA ValidBy ==
  ASSUME NEW p, p.domain # "Awareness"
  PROVE  PayloadValid(p) <=>
           /\ Required(p.domain, p.kind) \subseteq DOMAIN p.data
           /\ \A f \in NotBlank(p.domain, p.kind) : ~Is(p, f, "blank")
           /\ \A f \in InBounds(p.domain, p.kind) : ~Is(p, f, "off")
BY DEF PayloadValid

\* Only what v2 refuses of a legacy event's payload is not valid.
LEMMA PayloadUpgraded ==
  ASSUME NEW e, IsLegacy(e)
  PROVE  LET p == LegacyPayload(e) IN
         /\ e.base.type \in TypesOf(p.domain)
         /\ PayloadValid(p) <=>
              ~(\/ e.base.type = "Lifecycle"
                     /\ ("time_window" \in DOMAIN e.data => e.data["time_window"] = "blank")
                \/ e.base.type = "SelfReflection" /\ Is(e, "digest", "blank")
                \/ e.base.type = "Decision" /\ Is(e, "reasoning_confidence", "off"))
<1> DEFINE p == LegacyPayload(e)
<1>1. e.base.type \in EventTypes
  BY DEF IsLegacy, IsBase
<1>2. CASE e.base.type = "Message"
  <2>1. /\ p.domain = "Message" /\ p.kind = "Primary"
        /\ DOMAIN p.data \subseteq {"message_ref", "content_ref"} \cup ContentFields
    <3>1. p.domain = "Message" /\ p.kind = "Primary"
      BY <1>2, MessagePayload
    <3> QED
      BY <1>2, <3>1, MessagePayload
  <2> HIDE DEF p
  <2>2. Required(p.domain, p.kind) = {} /\ InBounds(p.domain, p.kind) = {}
        /\ NotBlank(p.domain, p.kind) = {"channel", "language", "sentiment"}
    BY <2>1 DEF Required, RequiredOfMessage, InBounds, NotBlank
  <2>3. \A f \in {"channel", "language", "sentiment"} : f \notin DOMAIN p.data
    BY <2>1 DEF ContentFields
  <2>4. PayloadValid(p)
    BY <2>1, <2>2, <2>3, ValidBy DEF Is, Has
  <2>5. e.base.type \in TypesOf(p.domain)
    BY <1>2, <2>1 DEF TypesOf
  <2> QED
    BY <1>2, <2>4, <2>5 DEF p
<1>3. CASE e.base.type \in {"ToolCall", "ToolResult"}
  <2>1. /\ p.domain = "Tooling"
        /\ p.kind = IF e.base.type = "ToolCall" THEN "InvocationDispatched" ELSE "ResultRecorded"
        /\ DOMAIN p.data = {ToolField(e.base.type)} \cup (ContentFields \cap DOMAIN e.data)
    <3>1. p.domain = "Tooling"
          /\ p.kind = IF e.base.type = "ToolCall" THEN "InvocationDispatched" ELSE "ResultRecorded"
      BY <1>3, ToolPayload
    <3> QED
      BY <1>3, <3>1, ToolPayload
  <2> HIDE DEF p
  <2>2. Required(p.domain, p.kind) = {ToolField(e.base.type)}
    BY <1>3, <2>1 DEF Required, RequiredOfTool, ToolField, PlanKinds, CallKinds, ResultKinds, BarrierKinds
  <2>3. InBounds(p.domain, p.kind) = {} /\ NotBlank(p.domain, p.kind) = {"route_id", "barrier_id"}
    BY <2>1 DEF InBounds, NotBlank
  <2>4. \A f \in {"route_id", "barrier_id"} : f \notin DOMAIN p.data
    BY <2>1 DEF ContentFields, ToolField
  <2>5. PayloadValid(p)
    BY <2>1, <2>2, <2>3, <2>4, ValidBy DEF Is, Has
  <2>6. e.base.type \in TypesOf(p.domain)
    BY <1>3, <2>1 DEF TypesOf
  <2> QED
    BY <1>3, <2>5, <2>6 DEF p
<1>4. CASE e.base.type = "SelfReflection"
  <2>1. /\ p.domain = "SelfReflection" /\ p.kind = "Logged"
        /\ "digest" \in DOMAIN p.data <=> "digest" \in DOMAIN e.data
        /\ "digest" \in DOMAIN e.data => p.data["digest"] = e.data["digest"]
    <3>1. p.domain = "SelfReflection" /\ p.kind = "Logged"
      BY <1>4, ReflectionPayload
    <3> QED
      BY <1>4, <3>1, ReflectionPayload
  <2> HIDE DEF p
  <2>2. Required(p.domain, p.kind) = {} /\ InBounds(p.domain, p.kind) = {}
        /\ NotBlank(p.domain, p.kind) = {"digest"}
    BY <2>1 DEF Required, InBounds, NotBlank
  <2>3. PayloadValid(p) <=> ~Is(e, "digest", "blank")
    BY <2>1, <2>2, ValidBy DEF Is, Has
  <2>4. e.base.type \in TypesOf(p.domain)
    BY <1>4, <2>1 DEF TypesOf
  <2> QED
    BY <1>4, <2>3, <2>4 DEF p
<1>5. CASE e.base.type = "Decision"
  <2>1. /\ p.domain = "Awareness" /\ p.kind = "DecisionRouted" /\ p.data["event_type"] = p.kind
        /\ "reasoning_confidence" \in DOMAIN p.data <=> "reasoning_confidence" \in DOMAIN e.data
        /\ "reasoning_confidence" \in DOMAIN e.data =>
             p.data["reasoning_confidence"] = e.data["reasoning_confidence"]
    <3>1. p.domain = "Awareness" /\ p.kind = "DecisionRouted"
      BY <1>5, DecisionPayload
    <3>2. "reasoning_confidence" \in Reasoning
      BY DEF Reasoning
    <3> QED
      BY <1>5, <3>1, <3>2, DecisionPayload
  <2> HIDE DEF p
  <2>2. Required(p.domain, p.kind) = {} /\ InBounds(p.domain, p.kind) = {"reasoning_confidence"}
        /\ NotBlank(p.domain, p.kind) = {}
    BY <2>1 DEF Required, InBounds, NotBlank
  <2>3. PayloadValid(p) <=> ~Is(e, "reasoning_confidence", "off")
    BY <2>1, <2>2 DEF Is, Has, PayloadValid
  <2>4. e.base.type \in TypesOf(p.domain)
    BY <1>5, <2>1 DEF TypesOf
  <2> QED
    BY <1>5, <2>3, <2>4 DEF p
<1>6. CASE e.base.type = "Lifecycle"
  <2>1. /\ p.domain = "Lifecycle" /\ p.kind = "StageEntered"
        /\ DOMAIN p.data = {f \in {"stage"} : "time_window" \in DOMAIN e.data}
        /\ "time_window" \in DOMAIN e.data => p.data["stage"] = e.data["time_window"]
    <3>1. p.domain = "Lifecycle" /\ p.kind = "StageEntered"
      BY <1>6, OtherPayload
    <3> QED
      BY <1>6, <3>1, OtherPayload
  <2> HIDE DEF p
  <2>2. Required(p.domain, p.kind) = {"stage"} /\ InBounds(p.domain, p.kind) = {}
        /\ NotBlank(p.domain, p.kind) = {"stage"}
    BY <2>1 DEF Required, RequiredOfLifecycle, InBounds, NotBlank
  <2>3. PayloadValid(p) <=> "time_window" \in DOMAIN e.data /\ e.data["time_window"] # "blank"
    BY <2>1, <2>2, ValidBy DEF Is, Has
  <2>4. e.base.type \in TypesOf(p.domain)
    BY <1>6, <2>1 DEF TypesOf
  <2> QED
    BY <1>6, <2>3, <2>4 DEF p
<1>7. CASE e.base.type = "System"
  <2>1. /\ p.domain = "System" /\ p.kind = "NotificationDispatched"
        /\ DOMAIN p.data = {"category"} /\ p.data["category"] = "legacy_system"
    <3>1. p.domain = "System" /\ p.kind = "NotificationDispatched"
      BY <1>7, OtherPayload
    <3> QED
      BY <1>7, <3>1, OtherPayload
  <2> HIDE DEF p
  <2>2. Required(p.domain, p.kind) = {} /\ InBounds(p.domain, p.kind) = {}
        /\ NotBlank(p.domain, p.kind) = {"category"}
    BY <2>1 DEF Required, InBounds, NotBlank, MainField
  <2>3. PayloadValid(p)
    BY <2>1, <2>2, ValidBy DEF Is, Has
  <2>4. e.base.type \in TypesOf(p.domain)
    BY <1>7, <2>1 DEF TypesOf
  <2> QED
    BY <1>7, <2>3, <2>4 DEF p
<1> QED
  BY <1>1, <1>2, <1>3, <1>4, <1>5, <1>6, <1>7 DEF EventTypes

\* A legacy event that is valid becomes a valid v2 event unless v2 refuses what it has.
LEMMA UpgradeValid ==
  ASSUME NEW e, IsLegacy(e), LegacyValid(e)
  PROVE  V2Valid(FromLegacy(e)) <=> ~RefusedLater(e)
<1> DEFINE v == FromLegacy(e)
           p == LegacyPayload(e)
           m == Migrated(e.data, e.base.timestamp)
<1>1. v.base = e.base /\ v.payload = p /\ v.enhancements = m
      /\ v.extra = IF "time_window" \in DOMAIN e.data THEN One("stage_hint", e.data["time_window"]) ELSE <<>>
  BY UpgradeParts
<1>2. BaseValid(e.base) /\ e.base.timestamp \in Int /\ e.base.timestamp >= 0 /\ HasScalars(e.data)
  BY DEF LegacyValid, BaseValid, IsLegacy, IsBase
<1>3. ExtraValid(v.extra)
  <2>1. DOMAIN v.extra \subseteq {"stage_hint"}
    <3>1. CASE "time_window" \in DOMAIN e.data
      <4>1. v.extra = One("stage_hint", e.data["time_window"])
        BY <1>1, <3>1
      <4> QED
        BY <4>1, OneIs
    <3>2. CASE "time_window" \notin DOMAIN e.data
      <4>1. v.extra = <<>>
        BY <1>1, <3>2
      <4> QED
        BY <4>1, NoFields
    <3> QED
      BY <3>1, <3>2
  <2> QED
    BY <2>1 DEF ExtraValid
<1>4. EnhancementsValid(m) <=> VectorsFit(e.data, Vectors)
  BY <1>2, MigratedIs
<1>5. /\ e.base.type \in TypesOf(p.domain)
      /\ PayloadValid(p) <=>
           ~(\/ e.base.type = "Lifecycle"
                  /\ ("time_window" \in DOMAIN e.data => e.data["time_window"] = "blank")
             \/ e.base.type = "SelfReflection" /\ Is(e, "digest", "blank")
             \/ e.base.type = "Decision" /\ Is(e, "reasoning_confidence", "off"))
  BY PayloadUpgraded
<1> HIDE DEF v, p, m
<1>6. V2Valid(v) <=> PayloadValid(p) /\ EnhancementsValid(m)
  BY <1>1, <1>2, <1>3, <1>5 DEF V2Valid
<1>7. V2Valid(v) <=> ~RefusedLater(e)
  BY <1>4, <1>5, <1>6 DEF RefusedLater
<1> QED
  BY <1>7 DEF v

\* A valid event's last record has vectors that fit.
LEMMA LastFits ==
  ASSUME NEW v, IsV2(v),
         \A i \in 1..Len(v.enhancements.versions) : SnapshotValid(v.enhancements.versions[i])
  PROVE  VectorsFit(Downgraded(v.enhancements), Vectors)
<1> DEFINE n == v.enhancements.versions
<1>1. CASE n = <<>>
  <2>1. Downgraded(v.enhancements) = <<>>
    BY <1>1 DEF Downgraded
  <2> QED
    BY <2>1, NoFields DEF VectorsFit
<1>2. CASE n # <<>>
  <2>1. Len(n) \in Nat \ {0} /\ Downgraded(v.enhancements) = n[Len(n)].data
    BY <1>2, LastIs
  <2> HIDE DEF n
  <2>2. SnapshotValid(n[Len(n)])
    BY <2>1 DEF n
  <2> QED
    BY <2>1, <2>2 DEF SnapshotValid
<1> QED
  BY <1>1, <1>2

\* And so has the legacy event it turns into.
LEMMA BackFits ==
  ASSUME NEW v, IsV2(v), VectorsFit(Downgraded(v.enhancements), Vectors)
  PROVE  VectorsFit(ToLegacy(v).data, Vectors)
<1> DEFINE data == ToLegacy(v).data
           last == Downgraded(v.enhancements)
<1>1. \A x \in RecordFields : /\ x \in DOMAIN data <=> x \in DOMAIN last
                              /\ x \in DOMAIN last => data[x] = last[x]
  BY BackData
<1>2. Vectors \subseteq RecordFields /\ "embedding_meta" \in RecordFields
  BY DEF RecordFields
<1> HIDE DEF data, last
<1>3. VectorsFit(last, Vectors)
  BY DEF last
<1>4. VectorsFit(data, Vectors)
  BY <1>1, <1>2, <1>3 DEF VectorsFit
<1> QED
  BY <1>4 DEF data

\* A valid v2 event becomes a valid legacy event if its payload carried the type's content.
LEMMA DowngradeValid ==
  ASSUME NEW v, IsV2(v), V2Valid(v)
  PROVE  LegacyValid(ToLegacy(v)) <=>
           ContentOf(v.base.type) \subseteq DOMAIN Only(v.payload.data, CarriedFields(v.payload.domain))
<1> DEFINE g == ToLegacy(v)
           type == v.base.type
           o == Only(v.payload.data, CarriedFields(v.payload.domain))
<1>1. g.base = v.base /\ BaseValid(v.base)
  BY BackParts DEF V2Valid
<1>2. VectorsFit(g.data, LegacyVectors)
  <2>1. \A i \in 1..Len(v.enhancements.versions) : SnapshotValid(v.enhancements.versions[i])
    BY DEF V2Valid, EnhancementsValid
  <2>2. VectorsFit(g.data, Vectors)
    BY <2>1, LastFits, BackFits
  <2> QED
    BY <2>2 DEF VectorsFit, Vectors
<1>3. \A x \in ContentOf(type) : x \notin RecordFields
  BY DEF ContentOf, RecordFields, Vectors, LegacyVectors
<1>4. ASSUME NEW x \in ContentOf(type) PROVE x \in DOMAIN g.data <=> x \in DOMAIN o
  <2>1. x \in DOMAIN g.data <=> x \in CarriedFields(v.payload.domain) /\ x \in DOMAIN v.payload.data
    BY <1>3, BackData
  <2>2. DOMAIN o = CarriedFields(v.payload.domain) \cap DOMAIN v.payload.data
    BY OnlyIs
  <2> QED
    BY <2>1, <2>2
<1> HIDE DEF g, o
<1>5. LegacyValid(g) <=> ContentOf(type) \subseteq DOMAIN o
  BY <1>1, <1>2, <1>4 DEF LegacyValid
<1> QED
  BY <1>5 DEF g, o

\* What an event's accessors tell is what is carried, and what its kind must have they tell.
LEMMA AccessorsAgree ==
  ASSUME NEW p
  PROVE  LET told    == Accessed(p)
             carried == Only(p.data, CarriedFields(p.domain)) IN
         /\ \A f \in DOMAIN told : f \in DOMAIN carried /\ told[f] = carried[f]
         /\ p.domain # "Awareness" => DOMAIN carried \ DOMAIN told \subseteq {"tool_result"}
         /\ PayloadValid(p) =>
               Required(p.domain, p.kind) \cap {"tool_invocation", "tool_result"} \subseteq DOMAIN told
<1> DEFINE told == Accessed(p)
           C == CarriedFields(p.domain)
           carried == Only(p.data, C)
           results == IF p.kind \in ResultKinds \cup BarrierKinds \cup {"RouteSwitched"}
                      THEN {"tool_result"} ELSE {}
           S == CASE p.domain = "Message" -> {"message_ref"} \cup ContentFields
                  [] p.domain = "Tooling" -> {"tool_invocation"} \cup ContentFields \cup results
                  [] p.domain = "SelfReflection" -> {"self_reflection", "digest"}
                  [] OTHER -> {}
<1>1. DOMAIN carried = C \cap DOMAIN p.data /\ \A f \in C \cap DOMAIN p.data : carried[f] = p.data[f]
  BY OnlyIs
<1>2. DOMAIN told = S \cap DOMAIN p.data /\ \A f \in S \cap DOMAIN p.data : told[f] = p.data[f]
  <2>1. CASE p.domain = "Message"
    <3>1. told = Only(p.data, {"message_ref"} \cup ContentFields) /\ S = {"message_ref"} \cup ContentFields
      BY <2>1 DEF Accessed
    <3>2. told = Only(p.data, S)
      BY <3>1
    <3> HIDE DEF told, S
    <3> QED
      BY <3>2, OnlyIs
  <2>2. CASE p.domain = "Tooling"
    <3>1. told = Only(p.data, {"tool_invocation"} \cup ContentFields \cup results)
          /\ S = {"tool_invocation"} \cup ContentFields \cup results
      BY <2>2 DEF Accessed
    <3>2. told = Only(p.data, S)
      BY <3>1
    <3> HIDE DEF told, S
    <3> QED
      BY <3>2, OnlyIs
  <2>3. CASE p.domain = "SelfReflection"
    <3>1. told = Only(p.data, {"self_reflection", "digest"}) /\ S = {"self_reflection", "digest"}
      BY <2>3 DEF Accessed
    <3>2. told = Only(p.data, S)
      BY <3>1
    <3> HIDE DEF told, S
    <3> QED
      BY <3>2, OnlyIs
  <2>4. CASE p.domain \notin {"Message", "Tooling", "SelfReflection"}
    <3>1. told = <<>> /\ S = {}
      BY <2>4 DEF Accessed
    <3> QED
      BY <3>1, NoFields
  <2> QED
    BY <2>1, <2>2, <2>3, <2>4
<1>3. S \subseteq C /\ (p.domain # "Awareness" => C \ S \subseteq {"tool_result"})
  BY DEF CarriedFields
<1>4. PayloadValid(p) => Required(p.domain, p.kind) \subseteq DOMAIN p.data
  BY DEF PayloadValid
<1>5. Required(p.domain, p.kind) \cap {"tool_invocation", "tool_result"} \subseteq S
  <2> DEFINE asked == {"tool_invocation", "tool_result"}
  <2>1. RequiredOfMessage(p.kind) \cap asked = {} /\ RequiredOfClarification(p.kind) \cap asked = {}
    BY DEF RequiredOfMessage, RequiredOfClarification
  <2>2. RequiredOfCollab(p.kind) \cap asked = {} /\ RequiredOfHitl(p.kind) \cap asked = {}
    BY DEF RequiredOfCollab, RequiredOfHitl
  <2>3. RequiredOfSync(p.kind) \cap asked = {} /\ RequiredOfLifecycle(p.kind) \cap asked = {}
    BY DEF RequiredOfSync, RequiredOfLifecycle
  <2>4. RequiredOfEvolution(p.domain, p.kind) \cap asked = {}
    BY DEF RequiredOfEvolution
  <2>5. CASE p.domain = "Tooling"
    <3>1. S = {"tool_invocation"} \cup ContentFields \cup results
      BY <2>5
    <3>2. RequiredOfTool(p.kind) \cap asked \subseteq {"tool_invocation"} \cup results
      BY DEF RequiredOfTool
    <3>3. Required(p.domain, p.kind) = RequiredOfTool(p.kind)
      BY <2>5 DEF Required
    <3> QED
      BY <3>1, <3>2, <3>3
  <2>6. CASE p.domain # "Tooling"
    <3>1. Required(p.domain, p.kind) \cap asked = {}
      BY <2>1, <2>2, <2>3, <2>4, <2>6 DEF Required
    <3> QED
      BY <3>1
  <2> QED
    BY <2>5, <2>6
<1> HIDE DEF told, carried, S, C
<1>6. \A f \in DOMAIN told : f \in DOMAIN carried /\ told[f] = carried[f]
  BY <1>1, <1>2, <1>3
<1>7. p.domain # "Awareness" => DOMAIN carried \ DOMAIN told \subseteq {"tool_result"}
  BY <1>1, <1>2, <1>3
<1>8. PayloadValid(p) => Required(p.domain, p.kind) \cap {"tool_invocation", "tool_result"} \subseteq DOMAIN told
  BY <1>2, <1>4, <1>5
<1> QED
  BY <1>6, <1>7, <1>8 DEF told, carried, C

\* The graph store accepts what the v2 validator does.
LEMMA GraphAgrees ==
  ASSUME NEW v, IsV2(v), V2Valid(v)
  PROVE  GraphAccepts(v)
<1> DEFINE n == v.enhancements.versions
<1>1. BaseValid(v.base) /\ EnhancementsValid(v.enhancements)
  BY DEF V2Valid
<1>2. /\ v.enhancements.append
      /\ \A i \in 1..Len(n) : n[i].version >= 1 /\ SnapshotValid(n[i])
      /\ Rising(n) /\ v.enhancements.latest = IF n = <<>> THEN 0 ELSE n[Len(n)].version
  BY <1>1 DEF EnhancementsValid
<1>3. n # <<>> => Len(n) \in Nat \ {0} /\ IsSnapshot(n[Len(n)])
  BY LastIs
<1> HIDE DEF n
<1>4. n # <<>> => VectorsFit(n[Len(n)].data, Vectors)
  BY <1>2, <1>3 DEF SnapshotValid
<1>5. v.enhancements.latest = 0 => n = <<>>
  BY <1>2, <1>3 DEF IsSnapshot
<1>6. \A i \in 1..(Len(n) - 1) : n[i].version < n[i + 1].version
  <2>1. Len(n) \in Nat
    <3>1. Len(<<>>) = 0
      OBVIOUS
    <3> QED
      BY <1>3, <3>1
  <2> QED
    BY <1>2, <2>1 DEF Rising
<1> QED
  BY <1>1, <1>2, <1>4, <1>5, <1>6 DEF GraphAccepts, n

-----------------------------------------------------------------------------
(* DialogueEvents: snapshots                                                *)

\* What an append-only event's enhancements are.
Ordered(n) ==
    /\ \A i \in 1..Len(n.versions) : n.versions[i].version >= 1 /\ SnapshotValid(n.versions[i])
    /\ Rising(n.versions)
    /\ n.latest = IF n.versions = <<>> THEN 0 ELSE n.versions[Len(n.versions)].version

LEMMA OrderedIs ==
  ASSUME NEW v, IsV2(v)
  PROVE  /\ EnhancementsValid(v.enhancements) <=> v.enhancements.append /\ Ordered(v.enhancements)
         /\ Sound(v) <=> v.base.timestamp >= 0 /\ Ordered(v.enhancements)
<1> DEFINE n == v.enhancements
           w == [n EXCEPT !.append = TRUE]
<1>1. n = [append |-> n.append, latest |-> n.latest, versions |-> n.versions]
  BY DEF IsV2
<1> HIDE DEF n
<1>2. w.append = TRUE /\ w.latest = n.latest /\ w.versions = n.versions
  BY <1>1
<1> HIDE DEF w
<1>3. EnhancementsValid(w) <=> Ordered(n)
  BY <1>2 DEF EnhancementsValid, Ordered
<1>4. EnhancementsValid(n) <=> n.append /\ Ordered(n)
  BY DEF EnhancementsValid, Ordered
<1>5. Sound(v) <=> v.base.timestamp >= 0 /\ EnhancementsValid(w)
  BY DEF Sound, w, n
<1> QED
  BY <1>3, <1>4, <1>5 DEF n

\* A snapshot that is recorded leaves the event sound.
LEMMA NoteKeeps ==
  ASSUME NEW v, IsV2(v), NEW s, IsSnapshot(s)
  PROVE  LET w == [v EXCEPT !.enhancements = WithSnapshot(v.enhancements, s)] IN
         IsV2(w) /\ (Sound(v) => Sound(w))
<1> DEFINE n == v.enhancements
           x == n.versions
           m == WithSnapshot(n, s)
           w == [v EXCEPT !.enhancements = m]
           S == {x[i] : i \in DOMAIN x}
           y == Append(x, s)
<1>1. /\ v = [form |-> "v2", base |-> v.base, extra |-> v.extra, payload |-> v.payload,
              enhancements |-> n, metadata |-> v.metadata]
      /\ n = [append |-> n.append, latest |-> n.latest, versions |-> x]
      /\ x \in Seq(S) /\ IsBase(v.base)
      /\ \A i \in DOMAIN x : IsSnapshot(x[i])
  BY DEF IsV2
<1>2. /\ w = [form |-> "v2", base |-> w.base, extra |-> w.extra, payload |-> w.payload,
              enhancements |-> w.enhancements, metadata |-> w.metadata]
      /\ w.base = v.base /\ w.enhancements = m
  BY <1>1
<1>3. CASE m = n
  <2>1. w = v
    BY <1>1, <1>3
  <2> QED
    BY <2>1
<1>4. CASE m # n
  <2>1. /\ s.version # 0 /\ (x # <<>> => ~(s.version <= x[Len(x)].version)) /\ n.append /\ SnapshotValid(s)
        /\ m = [n EXCEPT !.latest = s.version, !.versions = y]
    BY <1>4 DEF WithSnapshot
  <2>2. m = [append |-> n.append, latest |-> s.version, versions |-> y]
    BY <1>1, <2>1
  <2>3. /\ Len(x) \in Nat /\ DOMAIN x = 1..Len(x) /\ Len(y) = Len(x) + 1 /\ DOMAIN y = 1..Len(y)
        /\ \A i \in 1..Len(x) : y[i] = x[i]
        /\ y[Len(y)] = s
    <3> HIDE DEF S
    <3> QED
      BY <1>1
  <2>4. y \in Seq({y[i] : i \in DOMAIN y})
    <3>1. \A i \in 1..Len(y) : y[i] \in {y[j] : j \in DOMAIN y}
      BY <2>3
    <3>2. y = [i \in 1..Len(y) |-> y[i]]
      <4> DEFINE T == S \cup {s}
      <4>1. y \in Seq(T)
        <5> HIDE DEF S
        <5> QED
          BY <1>1
      <4> HIDE DEF T, y
      <4> QED
        BY <4>1
    <3> DEFINE T == {y[j] : j \in DOMAIN y}
    <3> HIDE DEF y, T
    <3>3. Len(y) \in Nat
      BY <2>3
    <3>4. \A i \in 1..Len(y) : y[i] \in T
      BY <3>1 DEF T
    <3>5. [i \in 1..Len(y) |-> y[i]] \in Seq(T)
      BY <3>3, <3>4
    <3> QED
      BY <3>2, <3>5 DEF T
  <2> HIDE DEF y, S
  <2>5. \A i \in DOMAIN y : i \in 1..Len(x) \/ i = Len(y)
    BY <2>3
  <2>6. \A i \in DOMAIN y : IsSnapshot(y[i])
    BY <1>1, <2>3, <2>5
  <2>7. m.append = n.append /\ m.latest = s.version /\ m.versions = y
        /\ m = [append |-> m.append, latest |-> m.latest, versions |-> m.versions]
    BY <2>2
  <2> HIDE DEF m, n, x, w
  <2>8. IsV2(w)
    BY <1>1, <1>2, <2>4, <2>6, <2>7 DEF IsV2
  <2>9. ASSUME Ordered(n) PROVE Ordered(m)
    <3>1. /\ \A i \in 1..Len(x) : x[i].version >= 1 /\ SnapshotValid(x[i])
          /\ Rising(x) /\ n.latest = IF x = <<>> THEN 0 ELSE x[Len(x)].version
      BY <2>9 DEF Ordered, x
    <3>2. s.version \in Nat
      BY DEF IsSnapshot
    <3>3. \A i \in 1..Len(y) : y[i].version >= 1 /\ SnapshotValid(y[i])
      BY <2>1, <2>3, <2>5, <3>1, <3>2
    <3>4. \A i \in 1..Len(x) : x[i].version < s.version
      <4> SUFFICES ASSUME NEW i \in 1..Len(x) PROVE x[i].version < s.version
        OBVIOUS
      <4>1. Len(x) \in 1..Len(x)
        BY <2>3
      <4>2. x # <<>>
        <5>1. Len(<<>>) = 0
          OBVIOUS
        <5> QED
          BY <2>3, <4>1, <5>1
      <4>3. x[Len(x)].version < s.version
        <5>1. x[Len(x)].version \in Nat
          BY <1>1, <2>3, <4>1 DEF IsSnapshot
        <5> QED
          BY <2>1, <3>2, <4>2, <5>1
      <4>4. i < Len(x) => x[i].version < x[Len(x)].version
        BY <3>1, <4>1 DEF Rising
      <4>5. x[i].version \in Nat /\ x[Len(x)].version \in Nat
        BY <1>1, <2>3, <4>1 DEF IsSnapshot
      <4>6. i < Len(x) \/ i = Len(x)
        <5> DEFINE k == Len(x)
        <5>1. k \in Nat /\ i \in 1..k
          BY <2>3
        <5> HIDE DEF k
        <5>2. i < k \/ i = k
          BY <5>1
        <5> QED
          BY <5>2 DEF k
      <4> QED
        BY <3>2, <4>3, <4>4, <4>5, <4>6
    <3>5. Rising(y)
      <4> SUFFICES ASSUME NEW i \in 1..Len(y), NEW j \in 1..Len(y), i < j
                   PROVE  y[i].version < y[j].version
        BY DEF Rising
      <4>1. i \in 1..Len(x)
        <5>1. Len(y) = Len(x) + 1 /\ Len(x) \in Nat /\ i \in 1..Len(y) /\ j \in 1..Len(y)
          BY <2>3
        <5> HIDE DEF y
        <5> QED
          BY <5>1
      <4>2. CASE j = Len(y)
        BY <2>3, <3>4, <4>1, <4>2
      <4>3. CASE j # Len(y)
        <5>1. j \in 1..Len(x)
          BY <2>3, <4>3
        <5> QED
          BY <2>3, <3>1, <4>1, <5>1 DEF Rising
      <4> QED
        BY <4>2, <4>3
    <3>6. y # <<>>
      <4>1. Len(<<>>) = 0
        OBVIOUS
      <4> QED
        BY <2>3, <4>1
    <3>7. m.latest = IF m.versions = <<>> THEN 0 ELSE m.versions[Len(m.versions)].version
      BY <2>3, <2>7, <3>6
    <3> QED
      BY <2>7, <3>3, <3>5, <3>7 DEF Ordered
  <2>10. Sound(v) => Sound(w)
    <3>1. Sound(v) <=> v.base.timestamp >= 0 /\ Ordered(n)
      BY OrderedIs DEF n
    <3>2. Sound(w) <=> w.base.timestamp >= 0 /\ Ordered(w.enhancements)
      BY <2>8, OrderedIs
    <3> QED
      BY <1>2, <2>9, <3>1, <3>2
  <2> QED
    BY <2>8, <2>10 DEF w, m, n
<1> QED
  BY <1>3, <1>4

-----------------------------------------------------------------------------
(* DialogueEvents: the invariant                                            *)

\* A v2 event that a legacy one turned into, and one whose message had its reference.
Upgraded(v) == \E l : IsLegacy(l) /\ v = FromLegacy(l)
WithReference(l)  == IsLegacy(l) /\ (l.base.type = "Message" => "message_ref" \in DOMAIN l.data)
Again(v)    == \E l : WithReference(l) /\ v = FromLegacy(l)

\* The last two conversions.
Convertings ==
    /\ event = NoEvent \/ IsLegacy(event) \/ IsV2(event)
    /\ before = NoEvent \/ (IsLegacy(before) /\ event = FromLegacy(before))
                        \/ (IsV2(before) /\ event = ToLegacy(before))
    /\ settled = NoEvent \/ IsV2(settled)
    /\ event = NoEvent => conversions = 0
    /\ conversions = 0 <=> before = NoEvent
    /\ conversions = 0 => settled = NoEvent
    /\ settled.form = "v2" /\ event.form = "v2" => event = FromLegacy(ToLegacy(settled))

\* What became of the event after so many.
Passages ==
    /\ conversions >= 2 /\ event.form = "legacy" => Upgraded(before)
    /\ conversions >= 3 /\ event.form = "v2" => Upgraded(settled) /\ Again(event)
    /\ conversions >= 4 /\ event.form = "legacy" => Again(before)
    /\ conversions >= 5 /\ event.form = "v2" => Again(settled)

ConvertInv == conversions \in Nat /\ notes \in Nat /\ Convertings /\ Passages

\* A sound event's other form is sound.
SoundLegacy(e) == e.base.timestamp >= 0 /\ VectorsFit(e.data, Vectors)

SoundInv == /\ event.form = "v2" => Sound(event)
            /\ event.form = "legacy" => SoundLegacy(event)

\* The forms are told apart.
LEMMA FormsApart ==
  /\ NoEvent.form = "none"
  /\ \A e : IsLegacy(e) => e.form = "legacy"
  /\ \A e : IsV2(e) => e.form = "v2"
<1>1. NoEvent.form = "none"
  BY DEF NoEvent
<1>2. \A e : IsLegacy(e) => e.form = "legacy"
  BY DEF IsLegacy
<1>3. ASSUME NEW e, IsV2(e) PROVE e.form = "v2"
  <2>1. e = [form |-> "v2", base |-> e.base, extra |-> e.extra, payload |-> e.payload,
             enhancements |-> e.enhancements, metadata |-> e.metadata]
    BY <1>3 DEF IsV2
  <2> QED
    BY <2>1
<1> QED
  BY <1>1, <1>2, <1>3

\* Nothing is converted at first.
LEMMA EventInitial == EventInit => ConvertInv /\ SoundInv /\ notes = 0
BY FormsApart DEF EventInit, ConvertInv, Convertings, Passages, SoundInv

\* What is taken has not been converted.
LEMMA TakeStep ==
  ASSUME NEW inputs, \A e \in inputs : IsLegacy(e) \/ IsV2(e), ConvertInv, Take(inputs)
  PROVE  ConvertInv' /\ event' \in inputs /\ notes' = notes
<1>1. /\ event = NoEvent /\ event' \in inputs
      /\ before' = before /\ settled' = settled /\ conversions' = conversions /\ notes' = notes
  BY DEF Take
<1>2. conversions = 0 /\ before = NoEvent /\ settled = NoEvent
  BY <1>1 DEF ConvertInv, Convertings
<1>3. IsLegacy(event') \/ IsV2(event')
  BY <1>1
<1>4. event' # NoEvent
  BY <1>3, FormsApart
<1> QED
  BY <1>1, <1>2, <1>3, <1>4, FormsApart DEF ConvertInv, Convertings, Passages

\* A snapshot that is recorded begins anew.
LEMMA NoteStep ==
  ASSUME ConvertInv, Note
  PROVE  ConvertInv' /\ (SoundInv => SoundInv')
<1>1. PICK s \in Snapshots : event' = [event EXCEPT !.enhancements = WithSnapshot(event.enhancements, s)]
  BY DEF Note
<1>2. /\ event.form = "v2" /\ notes' = notes + 1
      /\ before' = NoEvent /\ settled' = NoEvent /\ conversions' = 0
  BY DEF Note
<1>3. IsSnapshot(s) /\ IsV2(event)
  BY <1>2, EventAssumption, FormsApart DEF ConvertInv, Convertings
<1>4. IsV2(event') /\ (Sound(event) => Sound(event'))
  BY <1>1, <1>3, NoteKeeps
<1>5. event'.form = "v2" /\ event' # NoEvent
  BY <1>4, FormsApart
<1>6. ConvertInv'
  BY <1>2, <1>4, <1>5, FormsApart DEF ConvertInv, Convertings, Passages
<1>7. SoundInv => SoundInv'
  BY <1>2, <1>4, <1>5 DEF SoundInv
<1> QED
  BY <1>6, <1>7

\* The legacy form of an event that came from one has its reference.
LEMMA AgainIs ==
  ASSUME NEW v, Upgraded(v)
  PROVE  WithReference(ToLegacy(v)) /\ Again(FromLegacy(ToLegacy(v)))
<1>1. PICK l : IsLegacy(l) /\ v = FromLegacy(l)
  BY DEF Upgraded
<1>2. IsV2(v) /\ v.base = l.base
  BY <1>1, UpgradeIs, UpgradeParts
<1>3. IsLegacy(ToLegacy(v)) /\ ToLegacy(v).base = l.base
  BY <1>2, BackIs, BackParts
<1>4. l.base.type = "Message" => "message_ref" \in DOMAIN ToLegacy(v).data
  BY <1>1, MessagePasses
<1>5. WithReference(ToLegacy(v))
  BY <1>3, <1>4 DEF WithReference
<1> QED
  BY <1>5 DEF Again

\* A conversion to v2.
LEMMA UpgradeStep ==
  ASSUME ConvertInv, Convert, event.form = "legacy"
  PROVE  ConvertInv' /\ (SoundInv => SoundInv')
<1>1. /\ event # NoEvent /\ event' = FromLegacy(event) /\ before' = event
      /\ settled' = (IF before.form = "v2" THEN before ELSE settled)
      /\ conversions' = conversions + 1 /\ notes' = notes
  BY DEF Convert
<1>2. IsLegacy(event) /\ conversions \in Nat /\ notes \in Nat
  BY <1>1, FormsApart DEF ConvertInv, Convertings
<1>3. IsV2(event') /\ event'.form = "v2" /\ event' # NoEvent
  BY <1>1, <1>2, UpgradeIs, FormsApart
<1>4. conversions' \in Nat /\ notes' \in Nat
  BY <1>1, <1>2
<1>5. ASSUME conversions = 0 PROVE ConvertInv'
  <2>1. before = NoEvent /\ settled = NoEvent
    BY <1>5 DEF ConvertInv, Convertings
  <2>2. settled' = NoEvent /\ conversions' = 1
    BY <1>1, <1>5, <2>1, FormsApart
  <2>3. Convertings' /\ Passages'
    BY <1>1, <1>2, <1>3, <2>2, FormsApart DEF Convertings, Passages
  <2> QED
    BY <1>4, <2>3 DEF ConvertInv
<1>6. ASSUME conversions # 0 PROVE ConvertInv'
  <2>1. before # NoEvent
    BY <1>6 DEF ConvertInv, Convertings
  <2>2. (IsLegacy(before) /\ event = FromLegacy(before)) \/ (IsV2(before) /\ event = ToLegacy(before))
    BY <2>1 DEF ConvertInv, Convertings
  <2>3. \A l : IsLegacy(l) => FromLegacy(l).form = "v2"
    BY UpgradeParts
  <2>4. IsV2(before) /\ event = ToLegacy(before) /\ before.form = "v2"
    BY <2>2, <2>3, FormsApart
  <2>5. settled' = before /\ event' = FromLegacy(ToLegacy(settled'))
    BY <1>1, <2>4
  <2>6. Convertings'
    BY <1>1, <1>2, <1>3, <2>4, <2>5, FormsApart DEF Convertings
  <2>7. conversions >= 2 => Upgraded(settled') /\ Again(event')
    <3>1. conversions >= 2 => Upgraded(before)
      BY DEF ConvertInv, Passages
    <3> QED
      BY <2>5, <3>1, AgainIs
  <2>8. conversions >= 4 => Again(settled')
    BY <2>5 DEF ConvertInv, Passages
  <2>9. Passages'
    <3>1. conversions' >= 3 => conversions >= 2
      BY <1>1, <1>2
    <3>2. conversions' >= 5 => conversions >= 4
      BY <1>1, <1>2
    <3> QED
      BY <1>3, <2>7, <2>8, <3>1, <3>2 DEF Passages
  <2> QED
    BY <1>4, <2>6, <2>9 DEF ConvertInv
<1>7. ASSUME SoundInv PROVE SoundInv'
  <2>1. event.base.timestamp >= 0 /\ VectorsFit(event.data, Vectors)
    BY <1>7 DEF SoundInv, SoundLegacy
  <2>2. event.base.timestamp \in Int /\ HasScalars(event.data)
    BY <1>2 DEF IsLegacy, IsBase
  <2>3. event'.base = event.base /\ event'.enhancements = Migrated(event.data, event.base.timestamp)
    BY <1>1, UpgradeParts
  <2>4. EnhancementsValid(event'.enhancements)
    BY <2>1, <2>2, <2>3, MigratedIs
  <2>5. Sound(event')
    <3>1. EnhancementsValid(event'.enhancements) =>
            Ordered(event'.enhancements)
      BY <1>3, OrderedIs
    <3>2. Sound(event') <=> event'.base.timestamp >= 0 /\ Ordered(event'.enhancements)
      BY <1>3, OrderedIs
    <3> QED
      BY <2>1, <2>3, <2>4, <3>1, <3>2
  <2> QED
    BY <1>3, <2>5 DEF SoundInv
<1> QED
  BY <1>5, <1>6, <1>7

\* A conversion to the legacy form.
LEMMA DowngradeStep ==
  ASSUME ConvertInv, Convert, event.form # "legacy"
  PROVE  ConvertInv' /\ (SoundInv => SoundInv')
<1>1. /\ event # NoEvent /\ event' = ToLegacy(event) /\ before' = event
      /\ settled' = (IF before.form = "v2" THEN before ELSE settled)
      /\ conversions' = conversions + 1 /\ notes' = notes
  BY DEF Convert
<1>2. IsV2(event) /\ event.form = "v2" /\ conversions \in Nat /\ notes \in Nat
  BY <1>1, FormsApart DEF ConvertInv, Convertings
<1>3. IsLegacy(event') /\ event'.form = "legacy" /\ event' # NoEvent
  BY <1>1, <1>2, BackIs, FormsApart
<1>4. \A v : ToLegacy(v).form = "legacy"
  BY BackParts
<1>5. before = NoEvent \/ (IsLegacy(before) /\ event = FromLegacy(before))
  BY <1>2, <1>4 DEF ConvertInv, Convertings
<1>6. settled' = settled /\ (settled = NoEvent \/ IsV2(settled))
  BY <1>1, <1>5, FormsApart DEF ConvertInv, Convertings
<1>7. Convertings'
  BY <1>1, <1>2, <1>3, <1>6, FormsApart DEF Convertings
<1>8. conversions >= 1 => Upgraded(event)
  <2>1. conversions >= 1 => before # NoEvent
    BY DEF ConvertInv, Convertings
  <2> QED
    BY <1>5, <2>1 DEF Upgraded
<1>9. conversions >= 3 => Again(event)
  BY <1>2 DEF ConvertInv, Passages
<1>10. Passages'
  <2>1. conversions' >= 2 => conversions >= 1
    BY <1>1, <1>2
  <2>2. conversions' >= 4 => conversions >= 3
    BY <1>1, <1>2
  <2> QED
    BY <1>1, <1>3, <1>8, <1>9, <2>1, <2>2 DEF Passages
<1>11. ConvertInv'
  BY <1>1, <1>2, <1>7, <1>10 DEF ConvertInv
<1>12. ASSUME SoundInv PROVE SoundInv'
  <2>1. event.base.timestamp >= 0 /\ Ordered(event.enhancements)
    BY <1>2, <1>12, OrderedIs DEF SoundInv
  <2>2. \A i \in 1..Len(event.enhancements.versions) : SnapshotValid(event.enhancements.versions[i])
    BY <2>1 DEF Ordered
  <2>3. VectorsFit(event'.data, Vectors)
    BY <1>1, <1>2, <2>2, LastFits, BackFits
  <2>4. event'.base = event.base
    BY <1>1, BackParts
  <2> QED
    BY <1>3, <2>1, <2>3, <2>4 DEF SoundInv, SoundLegacy
<1> QED
  BY <1>11, <1>12

\* What the invariant says of conversions.
LEMMA ConvertingsTell ==
  ASSUME ConvertInv
  PROVE  UpgradesStayValid /\ DowngradesStayValid /\ PassagesSettle /\ AccessorsTell
<1>1. \A l : FromLegacy(l).form = "v2"
  BY UpgradeParts
<1>2. \A v : ToLegacy(v).form = "legacy" /\ ToLegacy(v).base = v.base
  BY BackParts
<1>3. UpgradesStayValid
  <2> SUFFICES ASSUME event.form = "v2", before.form = "legacy", LegacyValid(before)
               PROVE  V2Valid(event) <=> ~RefusedLater(before)
    BY DEF UpgradesStayValid
  <2>1. IsLegacy(before) /\ event = FromLegacy(before)
    BY FormsApart DEF ConvertInv, Convertings
  <2> QED
    BY <2>1, UpgradeValid
<1>4. DowngradesStayValid
  <2> SUFFICES ASSUME event.form = "legacy", before.form = "v2", V2Valid(before)
               PROVE  LegacyValid(event) <=> ContentOf(event.base.type) \subseteq
                        DOMAIN Only(before.payload.data, CarriedFields(before.payload.domain))
    BY DEF DowngradesStayValid
  <2>1. IsV2(before) /\ event = ToLegacy(before)
    BY FormsApart DEF ConvertInv, Convertings
  <2>2. event.base = before.base
    BY <1>2, <2>1
  <2> QED
    BY <2>1, <2>2, DowngradeValid
<1>5. PassagesSettle
  <2> SUFFICES ASSUME event.form = "v2", settled.form = "v2", conversions > 2
               PROVE  \/ [event EXCEPT !.metadata = settled.metadata] = settled
                      \/ conversions < 5 /\ Is(event.payload, "message_ref", "placeholder")
    BY DEF PassagesSettle
  <2>1. event = FromLegacy(ToLegacy(settled)) /\ conversions \in Nat
    BY DEF ConvertInv, Convertings
  <2>2. conversions >= 3
    BY <2>1
  <2>3. Upgraded(settled) /\ (conversions >= 5 => Again(settled))
    BY <2>2 DEF ConvertInv, Passages
  <2>4. CASE Again(settled)
    <3>1. PICK l : WithReference(l) /\ settled = FromLegacy(l)
      BY <2>4 DEF Again
    <3> QED
      BY <2>1, <3>1, PassageSettles DEF WithReference
  <2>5. CASE ~Again(settled)
    <3>1. PICK l : IsLegacy(l) /\ settled = FromLegacy(l)
      BY <2>3 DEF Upgraded
    <3>2. ~WithReference(l)
      BY <2>5, <3>1 DEF Again
    <3>3. l.base.type = "Message" /\ "message_ref" \notin DOMAIN l.data
      BY <3>1, <3>2 DEF WithReference
    <3>4. Is(event.payload, "message_ref", "placeholder")
      BY <2>1, <3>1, <3>3, MessagePasses
    <3>5. conversions < 5
      BY <2>1, <2>3, <2>5
    <3> QED
      BY <3>4, <3>5
  <2> QED
    BY <2>4, <2>5
<1>6. AccessorsTell
  <2>1. event.form = "v2" => AccessorsTell
    BY AccessorsAgree DEF AccessorsTell
  <2> QED
    BY <2>1 DEF AccessorsTell
<1> QED
  BY <1>3, <1>4, <1>5, <1>6

\* And of snapshots.
LEMMA EnhancementsTell ==
  ASSUME ConvertInv, SoundInv \/ notes = 0
  PROVE  EnhancementsStaySound
<1> SUFFICES ASSUME event.form = "v2"
             PROVE  /\ notes > 0 /\ event.enhancements.append => EnhancementsValid(event.enhancements)
                    /\ V2Valid(event) => GraphAccepts(event)
  BY DEF EnhancementsStaySound
<1>1. IsV2(event)
  BY FormsApart DEF ConvertInv, Convertings
<1>2. V2Valid(event) => GraphAccepts(event)
  BY <1>1, GraphAgrees
<1>3. notes > 0 => Sound(event)
  BY DEF SoundInv
<1>4. notes > 0 => Ordered(event.enhancements)
  BY <1>1, <1>3, OrderedIs
<1>5. notes > 0 /\ event.enhancements.append => EnhancementsValid(event.enhancements)
  BY <1>1, <1>4, OrderedIs
<1> QED
  BY <1>2, <1>5

\* Events that are only converted, however often: what is valid stays valid but for the named gaps,
\* a second passage changes nothing, and accessors tell what is carried.
THEOREM ConversionsHold == ConvertSpec => []EventsConvert
<1> DEFINE Inv == ConvertInv /\ notes = 0
<1>1. EventInit => Inv
  BY EventInitial
<1>2. Inv /\ [ConvertNext]_eventVars => Inv'
  <2> SUFFICES ASSUME Inv, [ConvertNext]_eventVars PROVE Inv'
    OBVIOUS
  <2>1. CASE Take(LegacyEvents \cup V2Events)
    <3>1. \A e \in LegacyEvents \cup V2Events : IsLegacy(e) \/ IsV2(e)
      BY EventAssumption
    <3> QED
      BY <2>1, <3>1, TakeStep
  <2>2. CASE Convert
    <3>1. notes' = notes
      BY <2>2 DEF Convert
    <3> QED
      BY <2>2, <3>1, UpgradeStep, DowngradeStep
  <2>3. CASE UNCHANGED eventVars
    BY <2>3 DEF eventVars, ConvertInv, Convertings, Passages
  <2> QED
    BY <2>1, <2>2, <2>3 DEF ConvertNext
<1>3. Inv => EventsConvert
  BY ConvertingsTell, EnhancementsTell DEF EventsConvert
<1> QED
  BY <1>1, <1>2, <1>3, PTL DEF ConvertSpec

\* Events that snapshots are recorded on and that are converted between, in any order: also what an
\* append-only event has recorded stays in order and within its bounds.
THEOREM SnapshotsHold == NoteSpec => []EventsConvert
<1> DEFINE Inv == ConvertInv /\ SoundInv
<1>1. EventInit => Inv
  BY EventInitial
<1>2. Inv /\ [NoteNext]_eventVars => Inv'
  <2> SUFFICES ASSUME Inv, [NoteNext]_eventVars PROVE Inv'
    OBVIOUS
  <2>1. CASE Take(NotedEvents)
    <3>1. \A e \in NotedEvents : (IsLegacy(e) \/ IsV2(e)) /\ IsV2(e) /\ Sound(e)
      BY EventAssumption
    <3>2. ConvertInv' /\ event' \in NotedEvents
      BY <2>1, <3>1, TakeStep
    <3>3. SoundInv'
      BY <3>1, <3>2, FormsApart DEF SoundInv
    <3> QED
      BY <3>2, <3>3
  <2>2. CASE Convert
    BY <2>2, UpgradeStep, DowngradeStep
  <2>3. CASE Note
    BY <2>3, NoteStep
  <2>4. CASE UNCHANGED eventVars
    BY <2>4 DEF eventVars, ConvertInv, Convertings, Passages, SoundInv
  <2> QED
    BY <2>1, <2>2, <2>3, <2>4 DEF NoteNext
<1>3. Inv => EventsConvert
  BY ConvertingsTell, EnhancementsTell DEF EventsConvert
<1> QED
  BY <1>1, <1>2, <1>3, PTL DEF NoteSpec

-----------------------------------------------------------------------------
(* Sums                                                                     *)

\* What a sum says of one set, given those of smaller ones.
SumStep(f, g, s) ==
    IF s = {} THEN 0 ELSE f[CHOOSE x \in s : TRUE] + g[s \ {CHOOSE x \in s : TRUE}]

IsSum(f, S, g) == g = [s \in SUBSET S |-> SumStep(f, g, s)]

\* The sum is the last value of a function that satisfies the recursion, if there is one.
LEMMA SumIs ==
    ASSUME NEW f, NEW S, \E g : IsSum(f, S, g)
    PROVE  \E g : IsSum(f, S, g) /\ SumFunctionOnSet(f, S) = g[S]
<1> DEFINE F == CHOOSE g : g = [s \in SUBSET S |-> SumStep(f, g, s)]
<1>1. F = [s \in SUBSET S |-> SumStep(f, F, s)]
  BY DEF IsSum
<1>2. SumFunctionOnSet(f, S) = F[S]
  BY DEF SumFunctionOnSet, FoldFunctionOnSet, MapThenFoldSet, SumStep
<1> QED
  BY <1>1, <1>2 DEF IsSum

\* Without the chosen element a set is smaller.
LEMMA ChosenLeaves ==
    ASSUME NEW S, IsFiniteSet(S), NEW s \in SUBSET S, s # {}, NEW x \in s
    PROVE  /\ IsFiniteSet(s) /\ Cardinality(s) \in Nat /\ Cardinality(s) > 0
           /\ s \ {x} \in SUBSET S /\ Cardinality(s \ {x}) = Cardinality(s) - 1
           /\ (CHOOSE y \in s : TRUE) \in s
<1>1. IsFiniteSet(s)
  BY FS_Subset
<1>2. Cardinality(s) \in Nat /\ Cardinality(s) # 0
  BY <1>1, FS_CardinalityType, FS_EmptySet
<1>3. Cardinality(s \ {x}) = Cardinality(s) - 1
  BY <1>1, FS_RemoveElement
<1>4. (CHOOSE y \in s : TRUE) \in s
  OBVIOUS
<1> QED
  BY <1>1, <1>2, <1>3, <1>4

Summable(f, S) == IsFiniteSet(S) /\ \A x \in S : f[x] \in Int

\* A function that satisfies the recursion exists, and its values are numbers.
LEMMA SumExists ==
    ASSUME NEW f, NEW S, Summable(f, S)
    PROVE  \E g \in [SUBSET S -> Int] : IsSum(f, S, g)
<1> DEFINE k == Cardinality(S)
           Fits(g, n) == \A s \in SUBSET S : Cardinality(s) <= n => g[s] = SumStep(f, g, s)
           T == {n \in 0..k : \E g \in [SUBSET S -> Int] : Fits(g, n)}
<1>1. k \in Nat /\ IsFiniteSet(S) /\ \A x \in S : f[x] \in Int
  BY FS_CardinalityType DEF Summable
<1>2. \A s \in SUBSET S : Cardinality(s) \in Nat /\ Cardinality(s) <= k /\ (Cardinality(s) = 0 => s = {})
  <2> SUFFICES ASSUME NEW s \in SUBSET S
               PROVE  Cardinality(s) \in Nat /\ Cardinality(s) <= k /\ (Cardinality(s) = 0 => s = {})
    OBVIOUS
  <2>1. IsFiniteSet(s) /\ Cardinality(s) <= k
    BY <1>1, FS_Subset
  <2> QED
    BY <2>1, FS_CardinalityType, FS_EmptySet
<1> HIDE DEF k
<1>3. 0 \in T
  <2> DEFINE g == [s \in SUBSET S |-> 0]
  <2>1. g \in [SUBSET S -> Int]
    OBVIOUS
  <2>2. Fits(g, 0)
    BY <1>2 DEF SumStep
  <2> HIDE DEF g
  <2> QED
    BY <1>1, <2>1, <2>2
<1>4. ASSUME NEW n \in 0..(k - 1), n \in T PROVE n + 1 \in T
  <2>1. n + 1 \in 0..k /\ n \in Nat
    BY <1>1
  <2>2. PICK g \in [SUBSET S -> Int] : Fits(g, n)
    BY <1>4
  <2> DEFINE h == [s \in SUBSET S |-> IF Cardinality(s) = n + 1 THEN SumStep(f, g, s) ELSE g[s]]
  <2>3. ASSUME NEW s \in SUBSET S, s # {}
        PROVE  /\ SumStep(f, g, s) \in Int
               /\ Cardinality(s) <= n + 1 => SumStep(f, h, s) = SumStep(f, g, s)
    <3> DEFINE c == CHOOSE x \in s : TRUE
    <3>1. c \in s
      BY <2>3, Zenon
    <3> HIDE DEF c
    <3>2. s \ {c} \in SUBSET S /\ Cardinality(s \ {c}) = Cardinality(s) - 1 /\ Cardinality(s) \in Nat
      BY <1>1, <2>3, <3>1, ChosenLeaves
    <3>3. f[c] \in Int /\ g[s \ {c}] \in Int
      BY <1>1, <3>1, <3>2
    <3>4. Cardinality(s) <= n + 1 => h[s \ {c}] = g[s \ {c}]
      BY <2>1, <3>2
    <3> HIDE DEF h
    <3>5. SumStep(f, g, s) = f[c] + g[s \ {c}] /\ SumStep(f, h, s) = f[c] + h[s \ {c}]
      BY <2>3 DEF SumStep, c
    <3> QED
      BY <3>3, <3>4, <3>5
  <2>4. SumStep(f, g, {}) = 0 /\ SumStep(f, h, {}) = 0
    BY DEF SumStep
  <2>5. h \in [SUBSET S -> Int]
    <3> SUFFICES ASSUME NEW s \in SUBSET S PROVE (IF Cardinality(s) = n + 1 THEN SumStep(f, g, s) ELSE g[s]) \in Int
      OBVIOUS
    <3>1. CASE s = {}
      BY <2>4, <3>1
    <3>2. CASE s # {}
      BY <2>3, <3>2
    <3> QED
      BY <3>1, <3>2
  <2>6. Fits(h, n + 1)
    <3> SUFFICES ASSUME NEW s \in SUBSET S, Cardinality(s) <= n + 1 PROVE h[s] = SumStep(f, h, s)
      OBVIOUS
    <3>1. SumStep(f, h, s) = SumStep(f, g, s)
      BY <2>3, <2>4
    <3>2. Cardinality(s) # n + 1 => Cardinality(s) <= n
      BY <1>2, <2>1
    <3>3. h[s] = IF Cardinality(s) = n + 1 THEN SumStep(f, g, s) ELSE g[s]
      OBVIOUS
    <3> QED
      BY <2>2, <3>1, <3>2, <3>3
  <2> HIDE DEF h, Fits
  <2> QED
    BY <2>1, <2>5, <2>6
<1> HIDE DEF T
<1>5. k \in T
  <2>1. \A n \in 0..k : n \in T
    BY <1>1, <1>3, <1>4, NumbersUpTo
  <2> QED
    BY <1>1, <2>1
<1>6. PICK g \in [SUBSET S -> Int] : Fits(g, k)
  BY <1>5 DEF T
<1>7. \A s \in SUBSET S : g[s] = SumStep(f, g, s)
  BY <1>2, <1>6
<1>8. g = [s \in SUBSET S |-> g[s]]
  BY <1>6
<1>9. IsSum(f, S, g)
  BY <1>7, <1>8 DEF IsSum
<1> QED
  BY <1>6, <1>9

\* Two of them, for sets that contain s and functions that are the same there, agree on s.
LEMMA SumsAgree ==
    ASSUME NEW f, NEW S, Summable(f, S), NEW g, IsSum(f, S, g),
           NEW d, NEW R, IsFiniteSet(R), NEW h, IsSum(d, R, h), NEW s \in SUBSET S, s \in SUBSET R,
           \A x \in s : f[x] = d[x]
    PROVE  g[s] = h[s]
<1> DEFINE k == Cardinality(s)
           T == {n \in 0..k : \A r \in SUBSET s : Cardinality(r) <= n => g[r] = h[r]}
<1>1. IsFiniteSet(s) /\ k \in Nat
  BY FS_Subset, FS_CardinalityType DEF Summable
<1>2. \A r \in SUBSET s : Cardinality(r) \in Nat /\ Cardinality(r) <= k /\ (Cardinality(r) = 0 => r = {})
  <2> SUFFICES ASSUME NEW r \in SUBSET s
               PROVE  Cardinality(r) \in Nat /\ Cardinality(r) <= k /\ (Cardinality(r) = 0 => r = {})
    OBVIOUS
  <2>1. IsFiniteSet(r) /\ Cardinality(r) <= k
    BY <1>1, FS_Subset
  <2> QED
    BY <2>1, FS_CardinalityType, FS_EmptySet
<1> HIDE DEF k
<1>3. \A r \in SUBSET s : g[r] = SumStep(f, g, r) /\ h[r] = SumStep(d, h, r)
  <2>1. \A r \in SUBSET s : r \in SUBSET S /\ r \in SUBSET R
    OBVIOUS
  <2>2. \A r \in SUBSET S : g[r] = SumStep(f, g, r)
    BY Zenon DEF IsSum
  <2>3. \A r \in SUBSET R : h[r] = SumStep(d, h, r)
    BY Zenon DEF IsSum
  <2> QED
    BY <2>1, <2>2, <2>3
<1>4. 0 \in T
  <2>1. g[{}] = h[{}]
    BY <1>3 DEF SumStep
  <2> QED
    BY <1>1, <1>2, <2>1
<1>5. ASSUME NEW n \in 0..(k - 1), n \in T PROVE n + 1 \in T
  <2>1. n + 1 \in 0..k /\ n \in Nat
    BY <1>1
  <2>2. ASSUME NEW r \in SUBSET s, Cardinality(r) <= n + 1, r # {} PROVE g[r] = h[r]
    <3> DEFINE c == CHOOSE x \in r : TRUE
    <3>1. c \in r
      BY <2>2
    <3> HIDE DEF c
    <3>2. r \ {c} \in SUBSET s /\ Cardinality(r \ {c}) = Cardinality(r) - 1 /\ Cardinality(r) \in Nat
      BY <1>1, <2>2, <3>1, ChosenLeaves
    <3>3. Cardinality(r \ {c}) <= n
      BY <2>1, <2>2, <3>2
    <3>4. g[r \ {c}] = h[r \ {c}]
      BY <1>5, <3>2, <3>3
    <3>5. g[r] = f[c] + g[r \ {c}] /\ h[r] = d[c] + h[r \ {c}]
      BY <1>3, <2>2 DEF SumStep, c
    <3>6. f[c] = d[c]
      BY <3>1
    <3> QED
      BY <3>4, <3>5, <3>6
  <2>3. g[{}] = h[{}]
    BY <1>3 DEF SumStep
  <2>4. \A r \in SUBSET s : Cardinality(r) <= n + 1 => g[r] = h[r]
    BY <2>2, <2>3
  <2> QED
    BY <2>1, <2>4
<1> HIDE DEF T
<1>6. \A n \in 0..k : n \in T
  BY <1>1, <1>4, <1>5, NumbersUpTo
<1>7. k \in T /\ s \in SUBSET s
  BY <1>1, <1>6
<1> QED
  BY <1>2, <1>7 DEF T

\* A sum is what its function gives, of whichever larger set that was.
LEMMA SumWithin ==
    ASSUME NEW f, NEW S, Summable(f, S)
    PROVE  \E g \in [SUBSET S -> Int] :
              /\ \A s \in SUBSET S : g[s] = SumStep(f, g, s)
              /\ \A s \in SUBSET S : SumFunctionOnSet(f, s) = g[s]
<1>1. PICK g \in [SUBSET S -> Int] : IsSum(f, S, g)
  BY SumExists
<1>2. ASSUME NEW s \in SUBSET S PROVE SumFunctionOnSet(f, s) = g[s]
  <2>1. Summable(f, s)
    BY FS_Subset DEF Summable
  <2>2. \E h : IsSum(f, s, h)
    BY <2>1, SumExists
  <2>3. PICK h : IsSum(f, s, h) /\ SumFunctionOnSet(f, s) = h[s]
    BY <2>2, SumIs
  <2>4. IsFiniteSet(s) /\ s \in SUBSET s
    BY <2>1 DEF Summable
  <2>5. g[s] = h[s]
    BY <1>1, <2>3, <2>4, SumsAgree
  <2> QED
    BY <2>3, <2>5
<1>3. \A s \in SUBSET S : g[s] = SumStep(f, g, s)
  BY <1>1, Zenon DEF IsSum
<1> QED
  BY <1>2, <1>3

\* A sum of numbers is a number.
LEMMA SumType ==
    ASSUME NEW f, NEW S, Summable(f, S)
    PROVE  SumFunctionOnSet(f, S) \in Int
<1>1. PICK g \in [SUBSET S -> Int] :
        /\ \A s \in SUBSET S : g[s] = SumStep(f, g, s)
        /\ \A s \in SUBSET S : SumFunctionOnSet(f, s) = g[s]
  BY SumWithin
<1> QED
  BY <1>1

\* The sum over nothing is nothing.
LEMMA SumEmpty ==
    ASSUME NEW f
    PROVE  SumFunctionOnSet(f, {}) = 0
<1>1. Summable(f, {})
  BY FS_EmptySet DEF Summable
<1>2. \E g : IsSum(f, {}, g)
  BY <1>1, SumExists
<1>3. PICK g : IsSum(f, {}, g) /\ SumFunctionOnSet(f, {}) = g[{}]
  BY <1>2, SumIs
<1>4. g[{}] = SumStep(f, g, {}) /\ SumStep(f, g, {}) = 0
  BY <1>3, Zenon DEF IsSum, SumStep
<1> QED
  BY <1>3, <1>4

\* Functions that agree on a set have the same sum over it.
LEMMA SumSame ==
    ASSUME NEW f, NEW d, NEW S, Summable(f, S), \A x \in S : f[x] = d[x]
    PROVE  SumFunctionOnSet(f, S) = SumFunctionOnSet(d, S)
<1>1. Summable(d, S) /\ IsFiniteSet(S) /\ S \in SUBSET S
  BY DEF Summable
<1>2. (\E g : IsSum(f, S, g)) /\ \E h : IsSum(d, S, h)
  BY <1>1, SumExists
<1>3. PICK g : IsSum(f, S, g) /\ SumFunctionOnSet(f, S) = g[S]
  BY <1>2, SumIs
<1>4. PICK h : IsSum(d, S, h) /\ SumFunctionOnSet(d, S) = h[S]
  BY <1>2, SumIs
<1>5. g[S] = h[S]
  BY <1>1, <1>3, <1>4, SumsAgree
<1> QED
  BY <1>3, <1>4, <1>5

\* Any element may be taken out of a sum.
LEMMA SumTake ==
    ASSUME NEW f, NEW S, Summable(f, S), NEW x \in S
    PROVE  SumFunctionOnSet(f, S) = f[x] + SumFunctionOnSet(f, S \ {x})
<1>1. PICK g \in [SUBSET S -> Int] :
        /\ \A s \in SUBSET S : g[s] = SumStep(f, g, s)
        /\ \A s \in SUBSET S : SumFunctionOnSet(f, s) = g[s]
  BY SumWithin
<1> DEFINE k == Cardinality(S)
           T == {n \in 0..k : \A s \in SUBSET S : Cardinality(s) <= n =>
                                \A y \in s : g[s] = f[y] + g[s \ {y}]}
<1>2. k \in Nat /\ IsFiniteSet(S) /\ \A y \in S : f[y] \in Int
  BY FS_CardinalityType DEF Summable
<1> HIDE DEF k
<1>3. 0 \in T
  <2>1. ASSUME NEW s \in SUBSET S, Cardinality(s) <= 0, NEW y \in s PROVE FALSE
    <3>1. s # {} /\ IsFiniteSet(S)
      BY <1>2
    <3>2. Cardinality(s) \in Nat /\ Cardinality(s) > 0
      BY <3>1, ChosenLeaves
    <3> QED
      BY <2>1, <3>2
  <2> QED
    BY <1>2, <2>1
<1>4. ASSUME NEW n \in 0..(k - 1), n \in T PROVE n + 1 \in T
  <2>1. n + 1 \in 0..k /\ n \in Nat
    BY <1>2
  <2>2. ASSUME NEW s \in SUBSET S, Cardinality(s) <= n + 1, NEW y \in s
        PROVE  g[s] = f[y] + g[s \ {y}]
    <3> DEFINE c == CHOOSE z \in s : TRUE
    <3>1. c \in s
      BY <2>2, Zenon
    <3>2. g[s] = f[c] + g[s \ {c}]
      BY <1>1, <2>2 DEF SumStep
    <3> HIDE DEF c
    <3>3. CASE y = c
      BY <3>2, <3>3
    <3>4. CASE y # c
      <4>1. /\ s \ {c} \in SUBSET S /\ Cardinality(s \ {c}) <= n
            /\ s \ {y} \in SUBSET S /\ Cardinality(s \ {y}) <= n
        BY <1>2, <2>1, <2>2, <3>1, ChosenLeaves
      <4>2. y \in s \ {c} /\ c \in s \ {y} /\ (s \ {c}) \ {y} = (s \ {y}) \ {c}
        BY <3>1, <3>4
      <4>3. g[s \ {c}] = f[y] + g[(s \ {c}) \ {y}]
        BY <1>4, <4>1, <4>2
      <4>4. g[s \ {y}] = f[c] + g[(s \ {y}) \ {c}]
        BY <1>4, <4>1, <4>2
      <4>5. f[c] \in Int /\ f[y] \in Int /\ g[(s \ {y}) \ {c}] \in Int
        BY <1>1, <1>2, <3>1, <4>1
      <4>6. g[s \ {c}] = f[y] + g[(s \ {y}) \ {c}]
        BY <4>2, <4>3, Zenon
      <4> QED
        BY <3>2, <4>4, <4>5, <4>6
    <3> QED
      BY <3>3, <3>4
  <2> QED
    BY <2>1, <2>2
<1> HIDE DEF T
<1>5. k \in T
  BY <1>2, <1>3, <1>4, NumbersUpTo
<1>6. g[S] = f[x] + g[S \ {x}]
  BY <1>2, <1>5 DEF T, k
<1> QED
  BY <1>1, <1>6

\* An element outside of a set adds to its sum.
LEMMA SumAdd ==
    ASSUME NEW f, NEW S, NEW x, x \notin S, Summable(f, S \cup {x})
    PROVE  SumFunctionOnSet(f, S \cup {x}) = f[x] + SumFunctionOnSet(f, S)
<1>1. (S \cup {x}) \ {x} = S
  OBVIOUS
<1> QED
  BY <1>1, SumTake

\* What holds of the empty set and of one element more holds of every finite set.
LEMMA SetsByAdding ==
    ASSUME NEW S, IsFiniteSet(S), NEW T, {} \in T,
           \A s \in SUBSET S : \A x \in S \ s : s \in T => s \cup {x} \in T
    PROVE  S \in T
<1> DEFINE k == Cardinality(S)
           U == {n \in 0..k : \A s \in SUBSET S : Cardinality(s) <= n => s \in T}
<1>1. k \in Nat /\ \A s \in SUBSET S : IsFiniteSet(s) /\ Cardinality(s) \in Nat
  BY FS_CardinalityType, FS_Subset
<1> HIDE DEF k
<1>2. \A s \in SUBSET S : Cardinality(s) = 0 => s = {}
  BY <1>1, FS_EmptySet
<1>3. 0 \in U
  BY <1>1, <1>2
<1>4. ASSUME NEW n \in 0..(k - 1), n \in U PROVE n + 1 \in U
  <2>1. n + 1 \in 0..k /\ n \in Nat
    BY <1>1
  <2>2. ASSUME NEW s \in SUBSET S, Cardinality(s) <= n + 1, s # {} PROVE s \in T
    <3>1. PICK x : x \in s
      BY <2>2
    <3>2. s \ {x} \in SUBSET S /\ Cardinality(s \ {x}) <= n
      BY <1>1, <2>1, <2>2, <3>1, ChosenLeaves
    <3>3. s \ {x} \in T
      BY <1>4, <3>2
    <3>4. x \in S \ (s \ {x}) /\ (s \ {x}) \cup {x} = s
      BY <3>1
    <3> QED
      BY <3>2, <3>3, <3>4
  <2> QED
    BY <2>1, <2>2
<1> HIDE DEF U
<1>5. k \in U
  BY <1>1, <1>3, <1>4, NumbersUpTo
<1> QED
  BY <1>1, <1>5 DEF U, k

\* What is nowhere more sums up to no more.
LEMMA SumLess ==
    ASSUME NEW f, NEW d, NEW S, Summable(f, S), Summable(d, S), \A x \in S : f[x] <= d[x]
    PROVE  SumFunctionOnSet(f, S) <= SumFunctionOnSet(d, S)
<1> DEFINE T == {s \in SUBSET S : SumFunctionOnSet(f, s) <= SumFunctionOnSet(d, s)}
<1>1. {} \in T
  BY SumEmpty
<1>2. ASSUME NEW s \in SUBSET S, NEW x \in S \ s, s \in T PROVE s \cup {x} \in T
  <2>1. Summable(f, s) /\ Summable(d, s) /\ Summable(f, s \cup {x}) /\ Summable(d, s \cup {x})
    BY FS_Subset DEF Summable
  <2>2. SumFunctionOnSet(f, s) \in Int /\ SumFunctionOnSet(d, s) \in Int
    BY <2>1, SumType
  <2>3. /\ SumFunctionOnSet(f, s \cup {x}) = f[x] + SumFunctionOnSet(f, s)
        /\ SumFunctionOnSet(d, s \cup {x}) = d[x] + SumFunctionOnSet(d, s)
    BY <2>1, SumAdd
  <2>4. f[x] \in Int /\ d[x] \in Int /\ f[x] <= d[x]
    BY DEF Summable
  <2> QED
    BY <1>2, <2>2, <2>3, <2>4
<1> HIDE DEF T
<1>3. S \in T
  BY <1>1, <1>2, SetsByAdding DEF Summable
<1> QED
  BY <1>3 DEF T

\* Of numbers that are not negative a part sums up to no more than the whole.
LEMMA SumPart ==
    ASSUME NEW f, NEW S, NEW R \in SUBSET S, Summable(f, S), \A x \in S : f[x] >= 0
    PROVE  SumFunctionOnSet(f, R) <= SumFunctionOnSet(f, S)
<1> DEFINE left == S \ R
           T == {s \in SUBSET left : SumFunctionOnSet(f, R) <= SumFunctionOnSet(f, R \cup s)}
<1>0. IsFiniteSet(left)
  BY FS_Subset DEF Summable
<1>1. {} \in T
  <2>1. R \cup {} = R /\ Summable(f, R)
    BY FS_Subset DEF Summable
  <2>2. SumFunctionOnSet(f, R) \in Int
    BY <2>1, SumType
  <2> QED
    BY <2>1, <2>2
<1>2. ASSUME NEW s \in SUBSET left, NEW x \in left \ s, s \in T PROVE s \cup {x} \in T
  <2>1. Summable(f, R) /\ Summable(f, R \cup s) /\ Summable(f, (R \cup s) \cup {x})
    <3>1. R \in SUBSET S /\ R \cup s \in SUBSET S /\ (R \cup s) \cup {x} \in SUBSET S
      OBVIOUS
    <3> QED
      BY <3>1, FS_Subset DEF Summable
  <2>2. SumFunctionOnSet(f, R) \in Int /\ SumFunctionOnSet(f, R \cup s) \in Int
    BY <2>1, SumType
  <2>3. SumFunctionOnSet(f, (R \cup s) \cup {x}) = f[x] + SumFunctionOnSet(f, R \cup s)
    BY <2>1, SumAdd
  <2>4. f[x] \in Int /\ f[x] >= 0 /\ (R \cup s) \cup {x} = R \cup (s \cup {x})
    BY DEF Summable
  <2> QED
    BY <1>2, <2>2, <2>3, <2>4
<1> HIDE DEF T
<1>3. left \in T
  BY <1>0, <1>1, <1>2, SetsByAdding
<1>4. R \cup left = S
  OBVIOUS
<1> QED
  BY <1>3, <1>4 DEF T

-----------------------------------------------------------------------------
(* ContextAssembly: actions and their tokens                                *)

Names == {"Keep", "L1", "L2", "L3", "Evict"}

\* What an action leaves of an item's tokens is a share of them.
LEMMA AfterIs ==
    ASSUME NEW t, t \in Nat
    PROVE  /\ TokensAfter(t, "Keep") = t /\ TokensAfter(t, "Evict") = 0
           /\ TokensAfter(t, "L1") = (t * 65 + 99) \div 100
           /\ TokensAfter(t, "L2") = (t * 40 + 99) \div 100
           /\ TokensAfter(t, "L3") = (t * 25 + 99) \div 100
BY DEF TokensAfter, Percent

\* An action leaves no more than there was, and a further one no more than it.
LEMMA AfterShrinks ==
    ASSUME NEW t, t \in Nat, NEW a \in Names, NEW b \in Names
    PROVE  /\ TokensAfter(t, a) \in Nat /\ TokensAfter(t, a) <= t
           /\ ActionOrder[b] <= ActionOrder[a] => TokensAfter(t, a) <= TokensAfter(t, b)
<1> DEFINE k == TokensAfter(t, "Keep")
           l == TokensAfter(t, "L1")
           m == TokensAfter(t, "L2")
           n == TokensAfter(t, "L3")
           o == TokensAfter(t, "Evict")
<1>1. /\ {k, l, m, n, o} \subseteq Nat /\ k = t
      /\ l <= k /\ m <= l /\ n <= m /\ o <= n
  BY AfterIs
<1>2. /\ ActionOrder["Keep"] = 0 /\ ActionOrder["L1"] = 1 /\ ActionOrder["L2"] = 2
      /\ ActionOrder["L3"] = 3 /\ ActionOrder["Evict"] = 4
  BY DEF ActionOrder
<1> DEFINE left(x) == TokensAfter(t, x)
           order(x) == ActionOrder[x]
<1>3. /\ left("Keep") = k /\ left("L1") = l /\ left("L2") = m /\ left("L3") = n /\ left("Evict") = o
      /\ order("Keep") = 0 /\ order("L1") = 1 /\ order("L2") = 2 /\ order("L3") = 3 /\ order("Evict") = 4
  BY <1>2
<1> HIDE DEF k, l, m, n, o, left, order
<1>4. \A x \in Names : /\ left(x) \in Nat /\ left(x) <= t
                       /\ \A y \in Names : order(y) <= order(x) => left(x) <= left(y)
  BY <1>1, <1>3 DEF Names
<1> QED
  BY <1>4 DEF left, order

\* A summary is as long as its action leaves, and has a token.
LEMMA SummaryIs ==
    ASSUME NEW item, item.tokens \in Nat, item.tokens >= 1, NEW a \in Names
    PROVE  SummaryTokens(item, a) \in Nat /\ SummaryTokens(item, a) <= item.tokens
<1>1. TokensAfter(item.tokens, a) \in Nat /\ TokensAfter(item.tokens, a) <= item.tokens
  BY AfterShrinks
<1> QED
  BY <1>1 DEF SummaryTokens, AtLeast

\* A partition allows each action once, and Keep always.
LEMMA AllowedIs ==
    ASSUME NEW p
    PROVE  /\ AllowedActions(p) \in Seq(Names) /\ IsInjective(AllowedActions(p))
           /\ "Keep" \in ToSet(AllowedActions(p))
<1> DEFINE of == {"Keep"} \cup CompressionAllowed[p] \cup IF p \in {"P2", "P3", "P4"} THEN {"Evict"} ELSE {}
<1>1. Actions \in Seq(Names) /\ IsInjective(Actions)
  BY DEF Actions, Names, IsInjective
<1>2. "Keep" \in ToSet(Actions) /\ "Keep" \in of
  <2>1. Actions[1] = "Keep" /\ 1 \in DOMAIN Actions
    BY DEF Actions
  <2> QED
    BY <2>1 DEF ToSet
<1>3. AllowedActions(p) = Retain(Actions, of)
  BY DEF AllowedActions
<1> HIDE DEF of
<1>4. AllowedActions(p) \in Seq(Names) /\ IsInjective(AllowedActions(p))
  BY <1>1, <1>3, RetainType, RetainInjective
<1>5. ToSet(AllowedActions(p)) = ToSet(Actions) \cap of
  BY <1>1, <1>3, RetainElements
<1> QED
  BY <1>2, <1>4, <1>5

\* After an action comes one other, if any.
LEMMA NextIsOne ==
    ASSUME NEW p, NEW a, NEW b \in NextActions(p, a)
    PROVE  b \in Names /\ \A c \in NextActions(p, a) : c = b
<1> DEFINE s == AllowedActions(p)
<1>1. s \in Seq(Names) /\ IsInjective(s)
  BY AllowedIs
<1>2. NextActions(p, a) = {s[i + 1] : i \in {j \in 1..(Len(s) - 1) : s[j] = a}}
  BY DEF NextActions
<1> HIDE DEF s
<1>3. DOMAIN s = 1..Len(s) /\ Len(s) \in Nat
  BY <1>1, LenProperties
<1>4. PICK i \in 1..(Len(s) - 1) : s[i] = a /\ b = s[i + 1]
  BY <1>2
<1>5. ASSUME NEW c \in NextActions(p, a) PROVE c = b
  <2>1. PICK j \in 1..(Len(s) - 1) : s[j] = a /\ c = s[j + 1]
    BY <1>2, <1>5
  <2>2. i \in DOMAIN s /\ j \in DOMAIN s
    BY <1>3
  <2>3. i = j
    BY <1>1, <1>4, <2>1, <2>2 DEF IsInjective
  <2> QED
    BY <1>4, <2>1, <2>3
<1>6. b \in Names
  <2>1. i + 1 \in 1..Len(s)
    BY <1>3
  <2> QED
    BY <1>1, <1>4, <2>1, ElementOfSeq
<1> QED
  BY <1>5, <1>6

\* The first attempt the gate lets pass is there, and is no further than the planned action.
LEMMA PassingIs ==
    ASSUME NEW item, NEW a \in {"L1", "L2", "L3"}
    PROVE  LET level == Attempts(item, a)[FirstPassing(item, a)] IN
           /\ level \in {"Keep", "L1", "L2", "L3"} /\ ActionOrder[level] <= ActionOrder[a]
           /\ level = "Keep" \/ ~GateFails(item, level)
<1> DEFINE fits == {x \in ToSet(Actions) : ActionOrder[x] <= ActionOrder[a]}
           all == AllowedActions(PartitionOf(item))
           r == Retain(all, fits)
           t == Attempts(item, a)
<1>1. all \in Seq(Names) /\ "Keep" \in ToSet(all)
  BY AllowedIs
<1>2. "Keep" \in fits /\ fits \subseteq {"Keep", "L1", "L2", "L3"}
  <2>1. ToSet(Actions) = Names
    <3>1. DOMAIN Actions = 1..5
      BY DEF Actions
    <3> QED
      BY <3>1 DEF ToSet, Actions, Names
  <2>2. /\ ActionOrder["Keep"] = 0 /\ ActionOrder["L1"] = 1 /\ ActionOrder["L2"] = 2
        /\ ActionOrder["L3"] = 3 /\ ActionOrder["Evict"] = 4
    BY DEF ActionOrder
  <2> QED
    BY <2>1, <2>2 DEF Names
<1>3. t = Reverse(r)
  BY DEF Attempts, DowngradeActions
<1>4. \A x \in fits : ActionOrder[x] <= ActionOrder[a]
  OBVIOUS
<1> HIDE DEF fits, all
<1>5. r \in Seq(Names) /\ ToSet(r) = ToSet(all) \cap fits
  BY <1>1, RetainType, RetainElements
<1> HIDE DEF r
<1>6. DOMAIN r = 1..Len(r) /\ Len(r) \in Nat
  BY <1>5, LenProperties
<1>7. DOMAIN t = 1..Len(r) /\ \A k \in 1..Len(r) : t[k] = r[(Len(r) - k) + 1]
  BY <1>3, <1>6 DEF Reverse
<1> HIDE DEF t
<1>8. \A k \in DOMAIN t : t[k] \in fits
  <2> SUFFICES ASSUME NEW k \in DOMAIN t PROVE t[k] \in fits
    OBVIOUS
  <2>1. (Len(r) - k) + 1 \in DOMAIN r
    BY <1>6, <1>7
  <2>2. t[k] \in ToSet(r)
    BY <1>7, <2>1 DEF ToSet
  <2> QED
    BY <1>5, <2>2
<1> DEFINE K == {k \in DOMAIN t : t[k] = "Keep" \/ ~GateFails(item, t[k])}
<1>9. K # {} /\ K \subseteq Nat
  <2>1. PICK i \in DOMAIN r : r[i] = "Keep"
    BY <1>1, <1>2, <1>5 DEF ToSet
  <2> DEFINE k == (Len(r) - i) + 1
  <2>2. k \in 1..Len(r) /\ (Len(r) - k) + 1 = i
    BY <1>6
  <2> HIDE DEF k
  <2>3. t[k] = "Keep" /\ k \in DOMAIN t
    BY <1>7, <2>1, <2>2
  <2> QED
    BY <1>7, <2>3
<1>10. FirstPassing(item, a) = Min(K)
  BY Zenon DEF FirstPassing, t
<1>11. Min(K) \in K
  <2> HIDE DEF K
  <2>1. \E x \in K : \A y \in K : x <= y
    BY <1>9, LeastNatural
  <2> QED
    BY <2>1, Zenon DEF Min
<1>12. t[Min(K)] \in fits /\ (t[Min(K)] = "Keep" \/ ~GateFails(item, t[Min(K)]))
  BY <1>8, <1>11
<1> HIDE DEF K
<1> QED
  BY <1>2, <1>4, <1>10, <1>12 DEF t

-----------------------------------------------------------------------------
(* ContextAssembly: duplicates and what must stay private                   *)

\* The items so far: of each content the best, or the first of equals.
HoldsBest(kept, items, n) ==
    /\ \A a, b \in DOMAIN kept : ContentIn(items, kept[a]) = ContentIn(items, kept[b]) => a = b
    /\ \A j \in 1..n : \E a \in DOMAIN kept :
          ContentIn(items, kept[a]) = ContentIn(items, items[j]) /\ kept[a].score >= items[j].score

\* An admitted item is kept, or one of the same content that is as good.
LEMMA AdmittedIs ==
    ASSUME NEW S, \A x \in S : x.score \in Int, NEW items \in Seq(S), NEW n \in Nat, n + 1 \in DOMAIN items,
           NEW kept \in Seq(S), HoldsBest(kept, items, n)
    PROVE  LET more == Admitted(items, kept, items[n + 1]) IN
           more \in Seq(S) /\ HoldsBest(more, items, n + 1)
<1> DEFINE x == items[n + 1]
           more == Admitted(items, kept, x)
           same == {i \in DOMAIN kept : ContentIn(items, kept[i]) = ContentIn(items, x)}
<1>1. x \in S /\ DOMAIN kept = 1..Len(kept) /\ Len(kept) \in Nat /\ \A j \in 1..n : items[j] \in S
  <2>1. DOMAIN items = 1..Len(items) /\ Len(items) \in Nat
    BY LenProperties
  <2> QED
    BY <2>1, LenProperties, ElementOfSeq
<1>2. /\ \A i \in DOMAIN kept : kept[i] \in S
      /\ \A a, b \in DOMAIN kept : ContentIn(items, kept[a]) = ContentIn(items, kept[b]) => a = b
      /\ \A j \in 1..n : \E a \in DOMAIN kept :
            ContentIn(items, kept[a]) = ContentIn(items, items[j]) /\ kept[a].score >= items[j].score
  BY ElementOfSeq, LenProperties DEF HoldsBest
<1>3. \A j \in 1..(n + 1) : j \in 1..n \/ items[j] = x
  OBVIOUS
<1>4. CASE same = {}
  <2>1. more = Append(kept, x)
    BY <1>4 DEF Admitted
  <2> HIDE DEF x
  <2>2. /\ more \in Seq(S) /\ DOMAIN more = 1..(Len(kept) + 1)
        /\ more[Len(kept) + 1] = x /\ \A i \in DOMAIN kept : more[i] = kept[i]
    BY <1>1, <2>1, AppendProperties, LenProperties
  <2> HIDE DEF more
  <2>3. \A i \in DOMAIN more : i \in DOMAIN kept \/ more[i] = x
    BY <1>1, <2>2
  <2>4. ASSUME NEW a \in DOMAIN more, NEW b \in DOMAIN more, ContentIn(items, more[a]) = ContentIn(items, more[b])
        PROVE  a = b
    <3>1. CASE a \in DOMAIN kept /\ b \in DOMAIN kept
      BY <1>2, <2>2, <2>4, <3>1
    <3>2. CASE a \notin DOMAIN kept /\ b \notin DOMAIN kept
      BY <1>1, <2>2, <3>2
    <3>3. CASE a \in DOMAIN kept /\ b \notin DOMAIN kept
      BY <1>4, <2>2, <2>3, <2>4, <3>3
    <3>4. CASE a \notin DOMAIN kept /\ b \in DOMAIN kept
      BY <1>4, <2>2, <2>3, <2>4, <3>4
    <3> QED
      BY <3>1, <3>2, <3>3, <3>4
  <2>5. ASSUME NEW j \in 1..(n + 1)
        PROVE  \E a \in DOMAIN more : ContentIn(items, more[a]) = ContentIn(items, items[j]) /\ more[a].score >= items[j].score
    <3>1. CASE j \in 1..n
      <4>1. PICK a \in DOMAIN kept : ContentIn(items, kept[a]) = ContentIn(items, items[j]) /\ kept[a].score >= items[j].score
        BY <1>2, <3>1
      <4>2. a \in DOMAIN more /\ more[a] = kept[a]
        BY <1>1, <2>2
      <4> QED
        BY <4>1, <4>2
    <3>2. CASE items[j] = x
      <4>1. Len(kept) + 1 \in DOMAIN more /\ x.score >= x.score
        BY <1>1, <2>2
      <4> QED
        BY <2>2, <3>2, <4>1
    <3> QED
      BY <1>3, <3>1, <3>2
  <2> QED
    BY <2>2, <2>4, <2>5 DEF HoldsBest, more, x
<1>5. CASE same # {}
  <2> DEFINE better(i) == i \in same /\ x.score > kept[i].score
  <2>1. more = [i \in DOMAIN kept |-> IF better(i) THEN x ELSE kept[i]]
    BY <1>5 DEF Admitted
  <2> HIDE DEF x, more
  <2>2. DOMAIN more = DOMAIN kept /\ \A i \in DOMAIN kept : more[i] = IF better(i) THEN x ELSE kept[i]
    BY <2>1
  <2>3. more \in Seq(S)
    BY <1>1, <1>2, <2>2, <2>1
  <2>4. \A i \in DOMAIN kept : /\ ContentIn(items, more[i]) = ContentIn(items, kept[i])
                               /\ more[i].score >= kept[i].score
                               /\ i \in same => more[i].score >= x.score
    <3> SUFFICES ASSUME NEW i \in DOMAIN kept
                 PROVE  /\ ContentIn(items, more[i]) = ContentIn(items, kept[i])
                        /\ more[i].score >= kept[i].score
                        /\ i \in same => more[i].score >= x.score
      OBVIOUS
    <3>1. kept[i].score \in Int /\ x.score \in Int
      BY <1>1, <1>2
    <3>2. CASE better(i)
      BY <2>2, <3>1, <3>2
    <3>3. CASE ~better(i)
      BY <2>2, <3>1, <3>3
    <3> QED
      BY <3>2, <3>3
  <2>5. \A a, b \in DOMAIN more : ContentIn(items, more[a]) = ContentIn(items, more[b]) => a = b
    BY <1>2, <2>2, <2>4
  <2>6. ASSUME NEW j \in 1..(n + 1)
        PROVE  \E a \in DOMAIN more : ContentIn(items, more[a]) = ContentIn(items, items[j]) /\ more[a].score >= items[j].score
    <3>1. CASE j \in 1..n
      <4>1. PICK a \in DOMAIN kept : ContentIn(items, kept[a]) = ContentIn(items, items[j]) /\ kept[a].score >= items[j].score
        BY <1>2, <3>1
      <4>2. kept[a].score \in Int /\ items[j].score \in Int /\ more[a].score \in Int
        BY <1>1, <1>2, <2>2, <3>1
      <4> QED
        BY <2>2, <2>4, <4>1, <4>2
    <3>2. CASE items[j] = x
      <4>1. PICK a \in DOMAIN kept : a \in same
        BY <1>5
      <4> QED
        BY <2>2, <2>4, <3>2, <4>1
    <3> QED
      BY <1>3, <3>1, <3>2
  <2> QED
    BY <2>3, <2>5, <2>6 DEF HoldsBest, more, x
<1> QED
  BY <1>4, <1>5

\* An item is admitted into a sequence of items.
LEMMA AdmittedType ==
    ASSUME NEW S, NEW items, NEW x \in S, NEW kept \in Seq(S)
    PROVE  Admitted(items, kept, x) \in Seq(S)
<1> DEFINE same == {i \in DOMAIN kept : ContentIn(items, kept[i]) = ContentIn(items, x)}
           more == [i \in DOMAIN kept |-> IF i \in same /\ x.score > kept[i].score THEN x ELSE kept[i]]
<1>1. DOMAIN kept = 1..Len(kept) /\ Len(kept) \in Nat /\ \A i \in 1..Len(kept) : kept[i] \in S
  BY LenProperties, ElementOfSeq
<1>2. more \in Seq(S)
  BY <1>1
<1>3. Append(kept, x) \in Seq(S)
  OBVIOUS
<1>4. Admitted(items, kept, x) = IF same = {} THEN Append(kept, x) ELSE more
  BY Zenon DEF Admitted
<1> HIDE DEF same, more
<1> QED
  BY <1>2, <1>3, <1>4

\* What remains of items: of each content the best, or the first of equals.
LEMMA DedupedIs ==
    ASSUME NEW S, \A x \in S : x.score \in Int, NEW items \in Seq(S)
    PROVE  /\ Deduped(items) \in Seq(S)
           /\ HoldsBest(Deduped(items), items, Len(items))
<1> DEFINE k == Len(items)
           F == [n \in 1..k |-> [q \in Seq(S) |-> Admitted(items, q, items[n])]]
           g == CHOOSE h : h = [n \in 0..k |-> IF n = 0 THEN <<>> ELSE Admitted(items, h[n - 1], items[n])]
<1>1. Deduped(items) = g[k]
  BY DEF Deduped
<1>2. k \in Nat /\ DOMAIN items = 1..k /\ \A n \in 1..k : items[n] \in S
  BY LenProperties, ElementOfSeq
<1> HIDE DEF k
<1>3. <<>> \in Seq(S)
  OBVIOUS
<1>4. \A q \in Seq(S) : \A n \in 1..k : Admitted(items, q, items[n]) \in Seq(S)
  BY <1>2, AdmittedType
<1>5. F \in [1..k -> [Seq(S) -> Seq(S)]]
  BY <1>4
<1>6. PICK f \in [0..k -> Seq(S)] : Iterates(f, <<>>, k, F)
  BY <1>2, <1>3, <1>5, FunctionsByRecursion
<1>7. f[0] = <<>> /\ \A n \in 1..k : f[n] = Admitted(items, f[n - 1], items[n])
  <2>1. \A n \in 1..k : f[n - 1] \in Seq(S)
    BY <1>2, <1>6
  <2>2. \A n \in 1..k : F[n][f[n - 1]] = Admitted(items, f[n - 1], items[n])
    BY <2>1
  <2> HIDE DEF F
  <2> QED
    BY <1>6, <2>2 DEF Iterates
<1>8. f = [n \in 0..k |-> IF n = 0 THEN <<>> ELSE Admitted(items, f[n - 1], items[n])]
  <2>1. f = [n \in 0..k |-> f[n]]
    BY <1>6
  <2>2. \A n \in 0..k : n = 0 \/ n \in 1..k
    BY <1>2
  <2>3. \A n \in 0..k : f[n] = IF n = 0 THEN <<>> ELSE Admitted(items, f[n - 1], items[n])
    BY <1>7, <2>2
  <2> QED
    BY <2>1, <2>3
<1>9. g = [n \in 0..k |-> IF n = 0 THEN <<>> ELSE Admitted(items, g[n - 1], items[n])]
  BY <1>8
<1> HIDE DEF g
<1>10. g[0] = <<>> /\ \A n \in 1..k : g[n] = Admitted(items, g[n - 1], items[n])
  BY <1>2, <1>9
<1> DEFINE T == {n \in 0..k : g[n] \in Seq(S) /\ HoldsBest(g[n], items, n)}
<1>11. 0 \in T
  <2>1. DOMAIN <<>> = {} /\ <<>> \in Seq(S)
    OBVIOUS
  <2>2. HoldsBest(<<>>, items, 0)
    BY <2>1 DEF HoldsBest
  <2>3. g[0] \in Seq(S) /\ HoldsBest(g[0], items, 0)
    BY <1>10, <2>1, <2>2, Zenon
  <2> QED
    BY <1>2, <2>3
<1>12. ASSUME NEW n \in 0..(k - 1), n \in T PROVE n + 1 \in T
  <2> DEFINE m == n + 1
  <2>1. n \in Nat /\ n + 1 \in DOMAIN items /\ m \in 0..k /\ m \in 1..k /\ m - 1 = n
    BY <1>2
  <2>2. g[n + 1] = Admitted(items, g[n], items[n + 1])
    BY <1>10, <2>1
  <2>3. g[n + 1] \in Seq(S) /\ HoldsBest(g[n + 1], items, n + 1)
    BY <1>12, <2>1, <2>2, AdmittedIs
  <2> QED
    BY <2>1, <2>3
<1> HIDE DEF T
<1>13. \A n \in 0..k : n \in T
  BY <1>2, <1>11, <1>12, NumbersUpTo
<1>14. k \in T
  BY <1>2, <1>13
<1> QED
  BY <1>1, <1>14 DEF T, k

\* What a call asks for has numbers that are whole.
LEMMA CallIs ==
    ASSUME NEW input, IsCall(input)
    PROVE  LET S == ToSet(input.items) IN
           input.items \in Seq(S) /\ \A x \in S : IsCandidate(x) /\ x.score \in Int /\ x.tokens \in Nat
<1>1. input.items \in Seq(ToSet(input.items)) /\ \A i \in DOMAIN input.items : IsCandidate(input.items[i])
  BY DEF IsCall
<1>2. \A x \in ToSet(input.items) : \E i \in DOMAIN input.items : input.items[i] = x
  BY DEF ToSet
<1>3. \A x : IsCandidate(x) => x.score \in Int /\ x.tokens \in Nat
  BY DEF IsCandidate
<1>4. \A x \in ToSet(input.items) : IsCandidate(x)
  BY <1>1, <1>2
<1> QED
  BY <1>1, <1>3, <1>4

\* The items that remain are items of the call, shareable, and none of them twice.
LEMMA KeptIs ==
    ASSUME NEW input, IsCall(input)
    PROVE  LET S == ToSet(input.items)
               unique == Deduped(input.items)
               kept == Kept(input) IN
           /\ unique \in Seq(S) /\ HoldsBest(unique, input.items, Len(input.items)) /\ ToSet(unique) \subseteq S
           /\ kept \in Seq(S)
           /\ \A a, b \in DOMAIN unique : unique[a].id = unique[b].id => a = b
           /\ ToSet(kept) = {x \in ToSet(unique) : ~Private(input.items, x, input.anchor.restricted)}
           /\ \A i, j \in DOMAIN kept : kept[i].id = kept[j].id => i = j
<1> DEFINE S == ToSet(input.items)
           unique == Deduped(input.items)
           kept == Kept(input)
           open == Shareable(input.items, input.anchor.restricted)
<1>1. input.items \in Seq(S) /\ \A x \in S : x.score \in Int
  BY CallIs
<1>2. kept = Retain(unique, open)
  BY DEF Kept
<1>3. open = {x \in S : ~Private(input.items, x, input.anchor.restricted)}
  BY DEF Shareable
<1> HIDE DEF S, open, kept
<1>4. unique \in Seq(S) /\ HoldsBest(unique, input.items, Len(input.items))
  BY <1>1, DedupedIs
<1>5. /\ IsInjective(unique) /\ ToSet(unique) \subseteq S
      /\ \A a, b \in DOMAIN unique : unique[a].id = unique[b].id => a = b
  <2>1. \A a, b \in DOMAIN unique :
            ContentIn(input.items, unique[a]) = ContentIn(input.items, unique[b]) => a = b
    BY <1>4 DEF HoldsBest
  <2>2. \A x, y : x.id = y.id => ContentIn(input.items, x) = ContentIn(input.items, y)
    BY DEF ContentIn
  <2> HIDE DEF unique
  <2>3. \A a, b \in DOMAIN unique : unique[a].id = unique[b].id => a = b
    BY <2>1, <2>2
  <2> QED
    BY <1>4, <2>3, SeqElements DEF IsInjective
<1> HIDE DEF unique
<1>6. kept \in Seq(S) /\ IsInjective(kept)
  BY <1>2, <1>4, <1>5, RetainType, RetainInjective
<1>7. ToSet(kept) = ToSet(unique) \cap open
  BY <1>2, <1>4, RetainElements
<1>8. \A i, j \in DOMAIN kept : kept[i].id = kept[j].id => i = j
  <2>1. \A i \in DOMAIN kept : \E a \in DOMAIN unique : unique[a] = kept[i]
    <3>1. \A i \in DOMAIN kept : kept[i] \in ToSet(unique)
      BY <1>7 DEF ToSet
    <3> QED
      BY <3>1 DEF ToSet
  <2> QED
    BY <1>5, <1>6, <2>1 DEF IsInjective
<1> QED
  BY <1>3, <1>4, <1>5, <1>6, <1>7, <1>8 DEF S, unique, kept

\* An id has at most one item that remains.
LEMMA OneRemains ==
    ASSUME NEW input, IsCall(input), NEW a \in DOMAIN Deduped(input.items)
    PROVE  Named(Deduped(input.items), Deduped(input.items)[a].id) = {a}
BY KeptIs DEF Named

\* The redaction entries of an id: a private item that remains has one, and so have dropped duplicates.
LEMMA RedactedIs ==
    ASSUME NEW input, IsCall(input), NEW x \in ToSet(input.items)
    PROVE  LET redacted(why) == {r \in Redactions(input) : r.id = x.id /\ r.why = why}
               unique == Deduped(input.items)
               hidden == {u \in ToSet(unique) : Private(input.items, u, input.anchor.restricted)} IN
           /\ (\E u \in hidden : u.id = x.id) => redacted("privacy") = {[id |-> x.id, why |-> "privacy"]}
           /\ ~(\E u \in hidden : u.id = x.id) => redacted("privacy") = {}
           /\ redacted("dedup") # {} <=>
                 Cardinality(Named(unique, x.id)) < Cardinality(Named(input.items, x.id))
<1> DEFINE unique == Deduped(input.items)
           fewer(id) == Cardinality(Named(unique, id)) < Cardinality(Named(input.items, id))
           hidden == {u \in ToSet(unique) : Private(input.items, u, input.anchor.restricted)}
           A == {id \in {i.id : i \in ToSet(input.items)} : fewer(id)}
           B == {u.id : u \in hidden}
           redacted(why) == {r \in Redactions(input) : r.id = x.id /\ r.why = why}
<1>1. Redactions(input) = [id : A, why : {"dedup"}] \cup [id : B, why : {"privacy"}]
  BY DEF Redactions
<1>2. x.id \in A <=> fewer(x.id)
  OBVIOUS
<1>3. x.id \in B <=> \E u \in hidden : u.id = x.id
  OBVIOUS
<1> HIDE DEF A, B, fewer, hidden, unique
<1>4. \A r : r \in redacted("dedup") <=> r = [id |-> x.id, why |-> "dedup"] /\ x.id \in A
  BY <1>1
<1>5. \A r : r \in redacted("privacy") <=> r = [id |-> x.id, why |-> "privacy"] /\ x.id \in B
  BY <1>1
<1> HIDE DEF redacted
<1>6. redacted("dedup") # {} <=> fewer(x.id)
  BY <1>2, <1>4
<1>7. (\E u \in hidden : u.id = x.id) => redacted("privacy") = {[id |-> x.id, why |-> "privacy"]}
  BY <1>3, <1>5
<1>8. ~(\E u \in hidden : u.id = x.id) => redacted("privacy") = {}
  BY <1>3, <1>5
<1> QED
  BY <1>6, <1>7, <1>8 DEF redacted, hidden, fewer, unique

\* Of each content an item as good as any remains, in the plan or redacted as private.
LEMMA KeepersRemain ==
    ASSUME NEW input, IsCall(input), NEW i \in DOMAIN input.items
    PROVE  \E k \in DOMAIN input.items :
              /\ ContentIn(input.items, input.items[k]) = ContentIn(input.items, input.items[i])
              /\ input.items[k].score >= input.items[i].score
              /\ \/ input.items[k] \in ToSet(Kept(input))
                 \/ [id |-> input.items[k].id, why |-> "privacy"] \in Redactions(input)
<1> DEFINE unique == Deduped(input.items)
           shut(x) == Private(input.items, x, input.anchor.restricted)
<1>1. /\ input.items \in Seq(ToSet(input.items)) /\ unique \in Seq(ToSet(input.items))
      /\ HoldsBest(unique, input.items, Len(input.items))
      /\ ToSet(Kept(input)) = {x \in ToSet(unique) : ~shut(x)}
  BY CallIs, KeptIs
<1>2. i \in 1..Len(input.items)
  BY <1>1, LenProperties
<1>3. PICK a \in DOMAIN unique :
        /\ ContentIn(input.items, unique[a]) = ContentIn(input.items, input.items[i])
        /\ unique[a].score >= input.items[i].score
  BY <1>1, <1>2 DEF HoldsBest
<1>4. unique[a] \in ToSet(input.items) /\ unique[a] \in ToSet(unique)
  BY <1>1, ElementOfSeq, LenProperties DEF ToSet
<1>5. PICK k \in DOMAIN input.items : input.items[k] = unique[a]
  BY <1>4 DEF ToSet
<1>6. ~shut(unique[a]) => input.items[k] \in ToSet(Kept(input))
  BY <1>1, <1>4, <1>5
<1>7. shut(unique[a]) => [id |-> input.items[k].id, why |-> "privacy"] \in Redactions(input)
  <2> DEFINE x == input.items[k]
             redacted == {r \in Redactions(input) : r.id = x.id /\ r.why = "privacy"}
  <2>1. ASSUME shut(unique[a])
        PROVE  \E u \in {u \in ToSet(unique) : shut(u)} : u.id = x.id
    BY <1>4, <1>5, <2>1
  <2>2. x \in ToSet(input.items)
    BY <1>4, <1>5
  <2>3. shut(unique[a]) => redacted = {[id |-> x.id, why |-> "privacy"]}
    <3> HIDE DEF x
    <3> QED
      BY <2>1, <2>2, RedactedIs
  <2> QED
    BY <2>3
<1> QED
  BY <1>3, <1>5, <1>6, <1>7

-----------------------------------------------------------------------------
(* ContextAssembly: the planner                                             *)

\* The numbers of items.
Numbered(kept) == kept \in Seq(ToSet(kept)) /\ \A i \in DOMAIN kept : kept[i].tokens \in Nat

\* The tokens of a partition's items as they came, and as the actions leave them.
LEMMA UsageIs ==
    ASSUME NEW kept, Numbered(kept), NEW actions \in [DOMAIN kept -> Names], NEW p
    PROVE  LET came == TokensIn(kept)
               left == [i \in DOMAIN kept |-> TokensAfter(kept[i].tokens, actions[i])]
               M == Members(kept, p) IN
           /\ M \subseteq DOMAIN kept /\ Summable(came, M) /\ Summable(left, M)
           /\ Usage(kept, actions, p) = SumFunctionOnSet(left, M)
           /\ Usage(kept, actions, p) \in Int /\ SumFunctionOnSet(came, M) \in Int
           /\ Usage(kept, actions, p) <= SumFunctionOnSet(came, M)
<1> DEFINE came == TokensIn(kept)
           left == [i \in DOMAIN kept |-> TokensAfter(kept[i].tokens, actions[i])]
           M == Members(kept, p)
<1>1. DOMAIN kept = 1..Len(kept) /\ Len(kept) \in Nat /\ \A i \in DOMAIN kept : kept[i].tokens \in Nat
  BY LenProperties DEF Numbered
<1>2. \A i \in DOMAIN kept : /\ left[i] \in Nat /\ left[i] <= kept[i].tokens /\ came[i] = kept[i].tokens
  BY <1>1, AfterShrinks DEF TokensIn
<1>3. M \subseteq DOMAIN kept /\ IsFiniteSet(M)
  <2>1. M \subseteq DOMAIN kept
    BY DEF Members
  <2> QED
    <3>1. IsFiniteSet(DOMAIN kept)
      BY <1>1, FS_Interval
    <3> QED
      BY <2>1, <3>1, FS_Subset
<1>4. Usage(kept, actions, p) = SumFunctionOnSet(left, M)
  BY DEF Usage, TokensOf
<1> HIDE DEF came, left, M
<1>5. Summable(came, M) /\ Summable(left, M)
  BY <1>1, <1>2, <1>3 DEF Summable
<1>6. SumFunctionOnSet(left, M) \in Int /\ SumFunctionOnSet(came, M) \in Int
  BY <1>5, SumType
<1>7. \A i \in M : left[i] <= came[i]
  BY <1>2, <1>3
<1>8. SumFunctionOnSet(left, M) <= SumFunctionOnSet(came, M)
  BY <1>5, <1>7, SumLess
<1> QED
  BY <1>3, <1>4, <1>5, <1>6, <1>8 DEF came, left, M

\* Actions that differ in one item's at most.
DifferIn(kept, actions, more, i) ==
    /\ actions \in [DOMAIN kept -> Names] /\ more \in [DOMAIN kept -> Names]
    /\ i \in DOMAIN kept /\ \A j \in DOMAIN kept : j # i => more[j] = actions[j]

\* An item's action changes the usage of its own partition, by what the item's tokens change.
LEMMA UsageChanges ==
    ASSUME NEW kept, Numbered(kept), NEW actions, NEW more, NEW i, DifferIn(kept, actions, more, i), NEW p
    PROVE  /\ PartitionOf(kept[i]) # p => Usage(kept, more, p) = Usage(kept, actions, p)
           /\ PartitionOf(kept[i]) = p =>
                Usage(kept, more, p) = Usage(kept, actions, p)
                    - (TokensAfter(kept[i].tokens, actions[i]) - TokensAfter(kept[i].tokens, more[i]))
<1> DEFINE f == [j \in DOMAIN kept |-> TokensAfter(kept[j].tokens, actions[j])]
           g == [j \in DOMAIN kept |-> TokensAfter(kept[j].tokens, more[j])]
           M == Members(kept, p)
<1>1. /\ actions \in [DOMAIN kept -> Names] /\ more \in [DOMAIN kept -> Names]
      /\ i \in DOMAIN kept /\ \A j \in DOMAIN kept : j # i => more[j] = actions[j]
  BY DEF DifferIn
<1>2. f[i] = TokensAfter(kept[i].tokens, actions[i]) /\ g[i] = TokensAfter(kept[i].tokens, more[i])
  BY <1>1
<1>3. \A j \in DOMAIN kept \ {i} : f[j] = g[j]
  BY <1>1
<1>4. /\ M \subseteq DOMAIN kept /\ Summable(f, M) /\ Usage(kept, actions, p) = SumFunctionOnSet(f, M)
  BY <1>1, UsageIs
<1>5. Summable(g, M) /\ Usage(kept, more, p) = SumFunctionOnSet(g, M)
  <2> QED
    BY <1>1, UsageIs
<1>6. i \in M <=> PartitionOf(kept[i]) = p
  BY <1>1 DEF Members
<1> HIDE DEF f, g, M
<1>7. CASE PartitionOf(kept[i]) # p
  <2>1. \A j \in M : f[j] = g[j]
    BY <1>3, <1>4, <1>6, <1>7
  <2>2. SumFunctionOnSet(f, M) = SumFunctionOnSet(g, M)
    BY <1>4, <2>1, SumSame
  <2> QED
    BY <1>1, <1>4, <1>5, <1>7, <2>2
<1>8. CASE PartitionOf(kept[i]) = p
  <2>1. i \in M
    BY <1>6, <1>8
  <2>2. Summable(f, M \ {i}) /\ f[i] \in Int /\ g[i] \in Int
    BY <1>4, <1>5, <2>1, FS_Subset DEF Summable
  <2>3. \A j \in M \ {i} : f[j] = g[j]
    BY <1>3, <1>4
  <2>4. SumFunctionOnSet(f, M \ {i}) = SumFunctionOnSet(g, M \ {i})
    BY <2>2, <2>3, SumSame
  <2>5. SumFunctionOnSet(f, M) = f[i] + SumFunctionOnSet(f, M \ {i})
    BY <1>4, <2>1, SumTake
  <2>6. SumFunctionOnSet(g, M) = g[i] + SumFunctionOnSet(g, M \ {i})
    BY <1>5, <2>1, SumTake
  <2>7. SumFunctionOnSet(f, M \ {i}) \in Int
    BY <2>2, SumType
  <2>8. SumFunctionOnSet(g, M) = SumFunctionOnSet(f, M) - (f[i] - g[i])
    BY <2>2, <2>4, <2>5, <2>6, <2>7
  <2> QED
    BY <1>1, <1>2, <1>4, <1>5, <1>8, <2>8
<1> QED
  BY <1>7, <1>8

\* A partition with one more quota has numbers as before.
LEMMA InsertIs ==
    ASSUME NEW quota, \A p \in DOMAIN quota : IsQuota(quota[p]), NEW x, NEW q, IsQuota(q)
    PROVE  \A p \in DOMAIN Insert(quota, x, q) : IsQuota(Insert(quota, x, q)[p])
BY DEF Insert

\* A scenario's ratios are numbers.
LEMMA RatioIs == ASSUME NEW min \in Nat, NEW max \in Nat PROVE IsQuota(Ratio(min, max))
BY DEF IsQuota, Ratio

\* The minimum of a partition is a number.
LEMMA LimitIs ==
    ASSUME NEW input, IsCall(input), NEW p
    PROVE  Limit(input, p).min \in Int
<1> DEFINE quota == QuotaOf(input)
           Fits(q) == \A x \in DOMAIN q : IsQuota(q[x])
<1>1. Fits(quota)
  <2> DEFINE q == input.quota
             scenario == input.anchor.scenario
  <2>1. Fits(q)
    BY DEF IsCall
  <2>2. ASSUME NEW f, Fits(f), NEW x, NEW min \in Nat, NEW max \in Nat
        PROVE  Fits(Insert(f, x, Ratio(min, max)))
    BY <2>2, RatioIs, InsertIs
  <2>3. quota = ForScenario(q, scenario)
    BY DEF QuotaOf
  <2> HIDE DEF Fits, quota, q, scenario
  <2>4. CASE scenario = "human"
    <3>1. ForScenario(q, scenario) = Insert(Insert(q, "P4", Ratio(24, 45)), "P1", Ratio(20, 32))
      BY <2>4 DEF ForScenario
    <3>2. Fits(Insert(q, "P4", Ratio(24, 45)))
      BY <2>1, <2>2
    <3>3. Fits(Insert(Insert(q, "P4", Ratio(24, 45)), "P1", Ratio(20, 32)))
      BY <2>2, <3>2
    <3> QED
      BY <2>3, <3>1, <3>3
  <2>5. CASE scenario = "self"
    <3>1. ForScenario(q, scenario) = Insert(Insert(q, "P3", Ratio(22, 35)), "P4", Ratio(12, 22))
      BY <2>5 DEF ForScenario
    <3>2. Fits(Insert(q, "P3", Ratio(22, 35)))
      BY <2>1, <2>2
    <3>3. Fits(Insert(Insert(q, "P3", Ratio(22, 35)), "P4", Ratio(12, 22)))
      BY <2>2, <3>2
    <3> QED
      BY <2>3, <3>1, <3>3
  <2>6. CASE scenario = "system"
    <3>1. ForScenario(q, scenario) = Insert(Insert(q, "P1", Ratio(24, 36)), "P0", Ratio(12, 20))
      BY <2>6 DEF ForScenario
    <3>2. Fits(Insert(q, "P1", Ratio(24, 36)))
      BY <2>1, <2>2
    <3>3. Fits(Insert(Insert(q, "P1", Ratio(24, 36)), "P0", Ratio(12, 20)))
      BY <2>2, <3>2
    <3> QED
      BY <2>3, <3>1, <3>3
  <2>7. CASE scenario \notin {"human", "self", "system"}
    <3>1. ForScenario(q, scenario) = q
      BY <2>7 DEF ForScenario
    <3> QED
      BY <2>1, <2>3, <3>1
  <2> QED
    BY <2>4, <2>5, <2>6, <2>7
<1>2. CASE p \notin DOMAIN quota
  BY <1>2 DEF Limit
<1>3. CASE p \in DOMAIN quota
  <2> DEFINE q == quota[p]
             high == Resolved(q.max, q.maxTokens, input.target)
             low == Resolved(q.min, q.minTokens, input.target)
  <2>1. /\ q.min \in Nat \cup {Absent} /\ q.max \in Nat \cup {Absent}
        /\ q.minTokens \in Nat /\ q.maxTokens \in Nat
    BY <1>1, <1>3 DEF IsQuota
  <2>2. input.target \in Nat
    BY DEF IsCall
  <2>3. \A ratio \in Nat : Share(ratio, input.target) \in Int
    BY <2>2 DEF Share, AtMost
  <2>4. high \in Int /\ low \in Int
    <3> HIDE DEF q
    <3>1. \A ratio \in Nat \cup {Absent}, tokens \in Nat : Resolved(ratio, tokens, input.target) \in Int
      BY <2>3 DEF Resolved
    <3> QED
      BY <2>1, <3>1
  <2>5. Limit(input, p).min = AtMost(low, high)
    BY <1>3 DEF Limit
  <2> HIDE DEF high, low
  <2> QED
    BY <2>4, <2>5 DEF AtMost
<1> QED
  BY <1>2, <1>3

\* What may be reduced next can be.
LEMMA ReducibleCan ==
    ASSUME NEW input, NEW kept, NEW actions, NEW i \in Reducible(input, kept, actions)
    PROVE  i \in DOMAIN kept /\ CanReduce(input, kept, actions, i)
BY DEF Reducible, Members

-----------------------------------------------------------------------------
(* ContextAssembly: the run                                                 *)

Active == run.phase \in {"planning", "compressing", "failed", "delivered"}

RunShape ==
    run = [phase |-> run.phase, input |-> run.input, kept |-> run.kept, actions |-> run.actions,
           next |-> run.next, bundle |-> run.bundle, rolled |-> run.rolled, final |-> run.final]

\* A run has items to plan for only after validation; what an action shortens has a token.
PlanInv ==
    /\ RunShape
    /\ Active \/ run.phase \in {"idle", "refused"}
    /\ ~Active => run.bundle = {}
    /\ Active =>
          /\ IsCall(run.input) /\ run.kept = Kept(run.input)
          /\ run.actions \in [DOMAIN run.kept -> Names]
          /\ \A i \in DOMAIN run.kept : run.actions[i] # "Keep" => run.kept[i].tokens >= 1

IsEntry(e) ==
    /\ e = [id |-> e.id, of |-> e.id[1], level |-> e.id[2], partition |-> e.partition,
            tokens |-> e.tokens, score |-> e.score, factors |-> e.factors, content |-> e.content,
            stamp |-> e.stamp, typ |-> e.typ, supersedes |-> e.supersedes, pointer |-> e.pointer,
            how |-> e.how]
    /\ e.tokens \in Nat

\* An entry for an item, which has evidence where it shows a summary.
Shows(e, item) == e.of = item.id /\ (e.how = "summary" => item.pointer \notin {"none", "bad"})

EntriesOf(bundle, item) == {e \in bundle : e.of = item.id}

\* The items the loop has passed are in the bundle once or evicted, and no other is in it.
FateInv ==
    Active =>
        /\ run.next \in Nat /\ run.next <= Len(run.kept) + 1
        /\ run.phase = "planning" => run.next = 0
        /\ run.phase = "compressing" => run.next >= 1
        /\ run.phase = "delivered" => run.next = Len(run.kept) + 1
        /\ \A e \in run.bundle : IsEntry(e) /\ \E i \in DOMAIN run.kept : i < run.next /\ Shows(e, run.kept[i])
        /\ \A i \in DOMAIN run.kept : i < run.next =>
              IF run.actions[i] = "Evict" THEN EntriesOf(run.bundle, run.kept[i]) = {}
              ELSE \E e : EntriesOf(run.bundle, run.kept[i]) = {e}

Sizes(bundle) == [e \in bundle |-> e.tokens]
Passed(kept, next) == {i \in DOMAIN kept : i < next}

\* The running total is the bundle's, and at most that of the items the loop has passed.
TotalInv ==
    Active =>
        /\ IsFiniteSet(run.bundle)
        /\ run.final = SumFunctionOnSet(Sizes(run.bundle), run.bundle)
        /\ run.final <= SumFunctionOnSet(TokensIn(run.kept), Passed(run.kept, run.next))

\* An entry made for an item is one of the item.
LEMMA KeptEntryIs ==
    ASSUME NEW item, item.tokens \in Nat, NEW how, how # "summary"
    PROVE  LET e == KeptEntry(item, how) IN IsEntry(e) /\ Shows(e, item) /\ e.tokens = item.tokens
<1> DEFINE record == RecordOf(run.input.items, item.id)
           id == <<item.id, "L0">>
           content == <<record.content, "L0">>
           typ == <<record.typ, "L0">>
           e == KeptEntry(item, how)
<1>1. e = [id |-> id, of |-> item.id, level |-> "L0", partition |-> PartitionOf(item),
           tokens |-> item.tokens, score |-> record.score, factors |-> record.factors,
           content |-> content, stamp |-> record.seen, typ |-> typ,
           supersedes |-> record.supersedes, pointer |-> record.pointer, how |-> how]
  BY DEF KeptEntry
<1>2. id[1] = item.id /\ id[2] = "L0"
  OBVIOUS
<1> HIDE DEF id, record, content, typ, e
<1>3. e.id = id /\ e.of = item.id /\ e.level = "L0" /\ e.tokens = item.tokens /\ e.how = how
  BY <1>1
<1>4. IsEntry(e)
  BY <1>1, <1>2, <1>3 DEF IsEntry
<1> QED
  BY <1>3, <1>4 DEF Shows, e

LEMMA SummaryEntryIs ==
    ASSUME NEW item, NEW level, SummaryTokens(item, level) \in Nat, item.pointer \notin {"none", "bad"}
    PROVE  LET e == SummaryEntry(item, level) IN
           IsEntry(e) /\ Shows(e, item) /\ e.tokens = SummaryTokens(item, level)
<1> DEFINE id == <<item.id, level>>
           typ == <<"summary", level>>
           e == SummaryEntry(item, level)
<1>1. e = [id |-> id, of |-> item.id, level |-> level, partition |-> PartitionOf(item),
           tokens |-> SummaryTokens(item, level), score |-> item.score, factors |-> item.factors,
           content |-> id, stamp |-> run.input.now, typ |-> typ,
           supersedes |-> item.supersedes, pointer |-> item.pointer, how |-> "summary"]
  BY DEF SummaryEntry
<1>2. id[1] = item.id /\ id[2] = level
  OBVIOUS
<1> HIDE DEF id, typ, e
<1>3. e.id = id /\ e.of = item.id /\ e.level = level /\ e.tokens = SummaryTokens(item, level) /\ e.how = "summary"
  BY <1>1
<1>4. IsEntry(e)
  BY <1>1, <1>2, <1>3 DEF IsEntry
<1> QED
  BY <1>3, <1>4 DEF Shows, e

\* The items that remain have numbers, and may be shown.
LEMMA KeptAre ==
    ASSUME NEW input, IsCall(input)
    PROVE  LET kept == Kept(input) IN
           /\ Numbered(kept) /\ DOMAIN kept = 1..Len(kept) /\ Len(kept) \in Nat
           /\ \A i, j \in DOMAIN kept : kept[i].id = kept[j].id => i = j
           /\ \A i \in DOMAIN kept : /\ kept[i] \in ToSet(input.items) /\ IsCandidate(kept[i])
                                     /\ ~Private(input.items, kept[i], input.anchor.restricted)
<1> DEFINE S == ToSet(input.items)
           kept == Kept(input)
<1>1. \A x \in S : IsCandidate(x) /\ x.tokens \in Nat
  BY CallIs
<1>2. /\ kept \in Seq(S) /\ \A i, j \in DOMAIN kept : kept[i].id = kept[j].id => i = j
      /\ ToSet(kept) = {x \in ToSet(Deduped(input.items)) : ~Private(input.items, x, input.anchor.restricted)}
  BY KeptIs
<1> HIDE DEF S, kept
<1>3. DOMAIN kept = 1..Len(kept) /\ Len(kept) \in Nat /\ \A i \in DOMAIN kept : kept[i] \in S /\ kept[i] \in ToSet(kept)
  BY <1>2, LenProperties, ElementOfSeq DEF ToSet
<1>4. kept \in Seq(ToSet(kept))
  BY <1>2, <1>3
<1>5. \A i \in DOMAIN kept : ~Private(input.items, kept[i], input.anchor.restricted)
  BY <1>2, <1>3
<1>6. Numbered(kept)
  BY <1>1, <1>3, <1>4 DEF Numbered
<1> QED
  BY <1>1, <1>2, <1>3, <1>5, <1>6 DEF S, kept

\* So have those of an active run.
LEMMA ActiveKept ==
    ASSUME PlanInv, Active
    PROVE  /\ Numbered(run.kept) /\ DOMAIN run.kept = 1..Len(run.kept) /\ Len(run.kept) \in Nat
           /\ \A i, j \in DOMAIN run.kept : run.kept[i].id = run.kept[j].id => i = j
           /\ \A i \in DOMAIN run.kept : /\ run.kept[i] \in ToSet(run.input.items)
                                         /\ IsCandidate(run.kept[i])
                                         /\ ~Private(run.input.items, run.kept[i], run.input.anchor.restricted)
BY KeptAre DEF PlanInv

\* The passed items of a run, with one more.
LEMMA PassedIs ==
    ASSUME NEW kept, Numbered(kept), NEW next \in Nat
    PROVE  /\ Summable(TokensIn(kept), Passed(kept, next))
           /\ next \in DOMAIN kept =>
                 /\ Passed(kept, next + 1) = Passed(kept, next) \cup {next} /\ next \notin Passed(kept, next)
                 /\ SumFunctionOnSet(TokensIn(kept), Passed(kept, next + 1))
                       = kept[next].tokens + SumFunctionOnSet(TokensIn(kept), Passed(kept, next))
           /\ SumFunctionOnSet(TokensIn(kept), Passed(kept, next)) \in Int
           /\ SumFunctionOnSet(TokensIn(kept), Passed(kept, next))
                 <= SumFunctionOnSet(TokensIn(kept), Passed(kept, next + 1))
<1> DEFINE f == TokensIn(kept)
           P == Passed(kept, next)
           Q == Passed(kept, next + 1)
<1>1. DOMAIN kept = 1..Len(kept) /\ Len(kept) \in Nat /\ \A i \in DOMAIN kept : kept[i].tokens \in Nat
  BY LenProperties DEF Numbered
<1>2. IsFiniteSet(DOMAIN kept)
  BY <1>1, FS_Interval
<1>3. P \subseteq DOMAIN kept /\ Q \subseteq DOMAIN kept /\ P \subseteq Q
  BY <1>1 DEF Passed
<1>4. IsFiniteSet(P) /\ IsFiniteSet(Q)
  BY <1>2, <1>3, FS_Subset
<1>5. \A i \in DOMAIN kept : f[i] = kept[i].tokens
  BY DEF TokensIn
<1>6. next \in DOMAIN kept => Q = P \cup {next} /\ next \notin P
  BY <1>1 DEF Passed
<1> HIDE DEF f, P, Q
<1>7. Summable(f, P) /\ Summable(f, Q)
  BY <1>1, <1>3, <1>4, <1>5 DEF Summable
<1>8. next \in DOMAIN kept => SumFunctionOnSet(f, Q) = kept[next].tokens + SumFunctionOnSet(f, P)
  BY <1>5, <1>6, <1>7, SumAdd
<1>9. SumFunctionOnSet(f, P) <= SumFunctionOnSet(f, Q) /\ SumFunctionOnSet(f, P) \in Int
  <2>1. \A i \in Q : f[i] >= 0
    BY <1>1, <1>3, <1>5
  <2> QED
    BY <1>3, <1>7, <2>1, SumPart, SumType
<1> QED
  BY <1>6, <1>7, <1>8, <1>9 DEF f, P, Q

\* What a step of the loop does that adds the entry e for the item at hand.
Joins(e, actions) ==
    /\ run.phase = "compressing" /\ run.next \in DOMAIN run.kept
    /\ run'.phase = "compressing" /\ run'.input = run.input /\ run'.kept = run.kept
    /\ run'.next = run.next + 1 /\ run'.final = run.final + e.tokens
    /\ run'.bundle = run.bundle \cup {e} /\ run'.actions = actions
    /\ actions[run.next] # "Evict"
    /\ \A i \in DOMAIN run.kept : i # run.next => actions[i] = run.actions[i]

\* The item at hand has one entry then, the others have the ones they had.
LEMMA EntryJoins ==
    ASSUME PlanInv, FateInv, TotalInv, NEW e, NEW actions, Joins(e, actions),
           IsEntry(e), Shows(e, run.kept[run.next]), e.tokens <= run.kept[run.next].tokens
    PROVE  FateInv' /\ TotalInv'
<1> DEFINE kept == run.kept
           next == run.next
           item == kept[next]
           B == run.bundle
<1>1. Active /\ Active'
  BY DEF Joins, Active
<1>2. /\ Numbered(kept) /\ DOMAIN kept = 1..Len(kept) /\ Len(kept) \in Nat
      /\ \A i, j \in DOMAIN kept : kept[i].id = kept[j].id => i = j
  BY <1>1, ActiveKept
<1>3. /\ next \in DOMAIN kept /\ next \in Nat
      /\ \A x \in B : IsEntry(x) /\ \E i \in DOMAIN kept : i < next /\ Shows(x, kept[i])
      /\ \A i \in DOMAIN kept : i < next =>
            IF run.actions[i] = "Evict" THEN EntriesOf(B, kept[i]) = {}
            ELSE \E x : EntriesOf(B, kept[i]) = {x}
  BY <1>1 DEF FateInv, Joins
<1>4. /\ run'.phase = "compressing" /\ run'.kept = kept /\ run'.next = next + 1
      /\ run'.final = run.final + e.tokens /\ run'.bundle = B \cup {e} /\ run'.actions = actions
      /\ actions[next] # "Evict" /\ \A i \in DOMAIN kept : i # next => actions[i] = run.actions[i]
  BY DEF Joins
<1>5. /\ IsFiniteSet(B) /\ run.final = SumFunctionOnSet(Sizes(B), B)
      /\ run.final <= SumFunctionOnSet(TokensIn(kept), Passed(kept, next))
  BY <1>1 DEF TotalInv
<1>6. e.of = item.id /\ e.tokens \in Nat /\ e.tokens <= item.tokens
  BY DEF Shows, IsEntry
<1>7. \A x \in B : x.of # item.id
  <2> SUFFICES ASSUME NEW x \in B PROVE x.of # item.id
    OBVIOUS
  <2>1. PICK i \in DOMAIN kept : i < next /\ x.of = kept[i].id
    BY <1>3 DEF Shows
  <2>2. i # next
    BY <1>3, <2>1
  <2> QED
    BY <1>2, <1>3, <2>1, <2>2
<1>8. e \notin B
  BY <1>6, <1>7
<1>9. FateInv'
  <2>1. \A x \in B \cup {e} : IsEntry(x) /\ \E i \in DOMAIN kept : i < next + 1 /\ Shows(x, kept[i])
    <3>1. ASSUME NEW x \in B PROVE IsEntry(x) /\ \E i \in DOMAIN kept : i < next + 1 /\ Shows(x, kept[i])
      <4>1. PICK i \in DOMAIN kept : i < next /\ Shows(x, kept[i])
        BY <1>3
      <4>2. i < next + 1
        BY <1>2, <1>3, <4>1
      <4> QED
        BY <1>3, <4>1, <4>2
    <3>2. next < next + 1
      BY <1>3
    <3> QED
      BY <1>3, <3>1, <3>2
  <2>2. ASSUME NEW i \in DOMAIN kept, i < next + 1
        PROVE  IF actions[i] = "Evict" THEN EntriesOf(B \cup {e}, kept[i]) = {}
               ELSE \E x : EntriesOf(B \cup {e}, kept[i]) = {x}
    <3>1. CASE i = next
      <4>1. EntriesOf(B \cup {e}, item) = {e}
        BY <1>6, <1>7 DEF EntriesOf
      <4> QED
        BY <1>4, <3>1, <4>1
    <3>2. CASE i # next
      <4>1. i < next /\ kept[i].id # item.id
        BY <1>2, <1>3, <2>2, <3>2
      <4>2. EntriesOf(B \cup {e}, kept[i]) = EntriesOf(B, kept[i])
        BY <1>6, <4>1 DEF EntriesOf
      <4> QED
        BY <1>3, <1>4, <3>2, <4>1, <4>2
    <3> QED
      BY <3>1, <3>2
  <2>3. next + 1 \in Nat /\ next + 1 <= Len(kept) + 1 /\ next + 1 >= 1
    BY <1>2, <1>3
  <2> HIDE DEF kept, next, item, B
  <2> QED
    BY <1>4, <2>1, <2>2, <2>3 DEF FateInv
<1>10. TotalInv'
  <2> DEFINE C == B \cup {e}
             P == SumFunctionOnSet(TokensIn(kept), Passed(kept, next))
  <2>1. IsFiniteSet(C)
    BY <1>5, FS_AddElement
  <2>2. \A x \in C : x.tokens \in Int
    BY <1>3, <1>6 DEF IsEntry
  <2>3. Summable(Sizes(C), C) /\ Summable(Sizes(C), B) /\ Summable(Sizes(B), B)
    BY <1>5, <2>1, <2>2 DEF Summable, Sizes
  <2>4. SumFunctionOnSet(Sizes(C), C) = e.tokens + SumFunctionOnSet(Sizes(C), B)
    <3>1. Sizes(C)[e] = e.tokens
      BY DEF Sizes
    <3> QED
      BY <1>8, <2>3, <3>1, SumAdd
  <2>5. SumFunctionOnSet(Sizes(B), B) = SumFunctionOnSet(Sizes(C), B)
    <3>1. \A x \in B : Sizes(B)[x] = Sizes(C)[x]
      BY DEF Sizes
    <3> QED
      BY <2>3, <3>1, SumSame
  <2>6. SumFunctionOnSet(Sizes(B), B) \in Int
    BY <2>3, SumType
  <2>7. /\ SumFunctionOnSet(TokensIn(kept), Passed(kept, next + 1)) = item.tokens + P
        /\ P \in Int
    BY <1>2, <1>3, PassedIs
  <2>8. item.tokens \in Nat
    BY <1>2, <1>3 DEF Numbered
  <2> HIDE DEF C, P, item
  <2>9. run'.final = SumFunctionOnSet(Sizes(C), C)
    BY <1>4, <1>5, <1>6, <2>4, <2>5, <2>6
  <2>10. run'.final <= SumFunctionOnSet(TokensIn(kept), Passed(kept, next + 1))
    BY <1>4, <1>5, <1>6, <2>6, <2>7, <2>8 DEF P
  <2> QED
    BY <1>4, <2>1, <2>9, <2>10 DEF TotalInv, C
<1> QED
  BY <1>9, <1>10

\* The item at hand has no entry yet.
LEMMA NoEntryYet ==
    ASSUME PlanInv, FateInv, Active, run.next \in DOMAIN run.kept
    PROVE  EntriesOf(run.bundle, run.kept[run.next]) = {}
<1>1. \A i, j \in DOMAIN run.kept : run.kept[i].id = run.kept[j].id => i = j
  BY ActiveKept
<1>2. /\ run.next \in Nat /\ DOMAIN run.kept = 1..Len(run.kept) /\ Len(run.kept) \in Nat
      /\ \A x \in run.bundle : \E i \in DOMAIN run.kept : i < run.next /\ x.of = run.kept[i].id
  BY ActiveKept DEF FateInv, Shows
<1>3. ASSUME NEW x \in run.bundle, x.of = run.kept[run.next].id PROVE FALSE
  <2>1. PICK i \in DOMAIN run.kept : i < run.next /\ x.of = run.kept[i].id
    BY <1>2
  <2>2. i # run.next
    BY <1>2, <2>1
  <2> QED
    BY <1>1, <1>3, <2>1, <2>2
<1> QED
  BY <1>3 DEF EntriesOf

RunInv == PlanInv /\ FateInv /\ TotalInv /\ MinimumIsKept

\* There is no run at first, nor after a compaction.
LEMMA NoRunIs == ASSUME run = NoRun PROVE RunInv
<1>1. /\ run = [phase |-> "idle", input |-> {}, kept |-> <<>>, actions |-> <<>>, next |-> 0,
                bundle |-> {}, rolled |-> {}, final |-> 0]
  BY DEF NoRun
<1>2. run.phase = "idle" /\ run.bundle = {} /\ RunShape
  BY <1>1 DEF RunShape
<1>3. ~Active
  BY <1>2 DEF Active
<1> QED
  BY <1>2, <1>3 DEF RunInv, PlanInv, FateInv, TotalInv, MinimumIsKept

\* A run that is refused has no items; one that is valid starts with all of them as they came.
LEMMA BeginStep ==
    ASSUME NEW input, IsCall(input), BeginRun(input)
    PROVE  RunInv'
<1>1. CASE ~ValidRun(input)
  <2>1. run' = [phase |-> "refused", input |-> {}, kept |-> <<>>, actions |-> <<>>, next |-> 0,
                bundle |-> {}, rolled |-> {}, final |-> 0]
    BY <1>1 DEF BeginRun, NoRun
  <2>2. run'.phase = "refused" /\ run'.bundle = {} /\ RunShape'
    BY <2>1 DEF RunShape
  <2>3. ~Active'
    BY <2>2 DEF Active
  <2> QED
    BY <2>2, <2>3 DEF RunInv, PlanInv, FateInv, TotalInv, MinimumIsKept
<1>2. CASE ValidRun(input)
  <2> DEFINE kept == Kept(input)
             actions == [i \in DOMAIN kept |-> "Keep"]
  <2>1. run' = [phase |-> "planning", input |-> input, kept |-> kept, actions |-> actions, next |-> 0,
                bundle |-> {}, rolled |-> {}, final |-> 0]
    BY <1>2 DEF BeginRun, NoRun
  <2>2. actions \in [DOMAIN kept -> Names] /\ \A i \in DOMAIN kept : actions[i] = "Keep"
    BY DEF Names
  <2> HIDE DEF kept, actions
  <2>3. /\ run'.phase = "planning" /\ run'.input = input /\ run'.kept = kept /\ run'.actions = actions
        /\ run'.next = 0 /\ run'.bundle = {} /\ run'.final = 0 /\ RunShape'
    BY <2>1 DEF RunShape
  <2>4. Active'
    BY <2>3 DEF Active
  <2>5. PlanInv'
    BY <2>2, <2>3, <2>4 DEF PlanInv, kept
  <2>6. Numbered(kept) /\ DOMAIN kept = 1..Len(kept) /\ Len(kept) \in Nat
    BY KeptAre DEF kept
  <2>7. \A i \in DOMAIN kept : ~(i < 0)
    BY <2>6
  <2>8. FateInv'
    BY <2>3, <2>6, <2>7 DEF FateInv
  <2>9. TotalInv'
    <3>1. Passed(kept, 0) = {}
      BY <2>7 DEF Passed
    <3>2. SumFunctionOnSet(TokensIn(kept), {}) = 0 /\ SumFunctionOnSet(Sizes({}), {}) = 0
      BY SumEmpty
    <3>3. SumFunctionOnSet(TokensIn(kept), Passed(kept, 0)) = 0
      BY <3>1, <3>2, Zenon
    <3> QED
      BY <2>3, <3>2, <3>3, FS_EmptySet DEF TotalInv
  <2>10. MinimumIsKept'
    <3>1. ASSUME NEW p PROVE SumFunctionOnSet(TokensIn(kept), Members(kept, p)) = Usage(kept, actions, p)
      <4> DEFINE left == [i \in DOMAIN kept |-> TokensAfter(kept[i].tokens, actions[i])]
      <4>1. /\ Members(kept, p) \subseteq DOMAIN kept /\ Summable(TokensIn(kept), Members(kept, p))
            /\ Usage(kept, actions, p) = SumFunctionOnSet(left, Members(kept, p))
        BY <2>2, <2>6, UsageIs
      <4>2. \A i \in DOMAIN kept : TokensIn(kept)[i] = kept[i].tokens
        BY DEF TokensIn
      <4>3. \A i \in DOMAIN kept : left[i] = kept[i].tokens
        BY <2>2, <2>6, AfterIs DEF Numbered
      <4> HIDE DEF left
      <4>4. \A i \in Members(kept, p) : TokensIn(kept)[i] = left[i]
        BY <4>1, <4>2, <4>3
      <4> QED
        BY <4>1, <4>4, SumSame
    <3> QED
      BY <2>3, <3>1 DEF MinimumIsKept
  <2> QED
    BY <2>5, <2>8, <2>9, <2>10 DEF RunInv
<1> QED
  BY <1>1, <1>2

\* A turn of the planner's loop takes an item one action further, and its partition not below its minimum.
LEMMA ReduceStep ==
    ASSUME RunInv, Reduce
    PROVE  RunInv'
<1> DEFINE kept == run.kept
           actions == run.actions
<1>1. run.phase = "planning" /\ Active
  BY DEF Reduce, Active
<1>2. PICK i \in Reducible(run.input, kept, actions) :
        \E a \in NextActions(PartitionOf(kept[i]), actions[i]) : run' = [run EXCEPT !.actions[i] = a]
  BY DEF Reduce
<1>3. PICK a \in NextActions(PartitionOf(kept[i]), actions[i]) : run' = [run EXCEPT !.actions[i] = a]
  BY <1>2
<1> DEFINE more == [actions EXCEPT ![i] = a]
<1>4. i \in DOMAIN kept /\ CanReduce(run.input, kept, actions, i)
  BY ReducibleCan
<1>5. a \in Names /\ \A b \in NextActions(PartitionOf(kept[i]), actions[i]) : b = a
  BY NextIsOne
<1>6. /\ TokensAfter(kept[i].tokens, actions[i]) - TokensAfter(kept[i].tokens, a) > 0
      /\ Usage(kept, actions, PartitionOf(kept[i]))
           - (TokensAfter(kept[i].tokens, actions[i]) - TokensAfter(kept[i].tokens, a))
           >= Limit(run.input, PartitionOf(kept[i])).min
  BY <1>4, <1>5 DEF CanReduce
<1>7. /\ IsCall(run.input) /\ kept = Kept(run.input) /\ actions \in [DOMAIN kept -> Names]
      /\ (\A j \in DOMAIN kept : actions[j] # "Keep" => kept[j].tokens >= 1) /\ RunShape
  BY <1>1 DEF RunInv, PlanInv
<1>8. Numbered(kept) /\ DOMAIN kept = 1..Len(kept) /\ Len(kept) \in Nat
  BY <1>1, ActiveKept DEF RunInv
<1>9. /\ run' = [phase |-> run.phase, input |-> run.input, kept |-> kept, actions |-> more,
                 next |-> run.next, bundle |-> run.bundle, rolled |-> run.rolled, final |-> run.final]
  BY <1>3, <1>7 DEF RunShape
<1> HIDE DEF kept, actions, more
<1>10. /\ run'.phase = "planning" /\ run'.input = run.input /\ run'.kept = kept /\ run'.actions = more
       /\ run'.next = run.next /\ run'.bundle = run.bundle /\ run'.final = run.final /\ RunShape'
  BY <1>1, <1>9 DEF RunShape
<1>11. Active'
  BY <1>10 DEF Active
<1>12. more \in [DOMAIN kept -> Names] /\ \A j \in DOMAIN kept : j # i => more[j] = actions[j]
  BY <1>4, <1>5, <1>7 DEF more
<1>13. kept[i].tokens >= 1
  <2>1. kept[i].tokens \in Nat /\ actions[i] \in Names
    BY <1>4, <1>7, <1>8 DEF Numbered
  <2>2. /\ TokensAfter(kept[i].tokens, actions[i]) \in Nat /\ TokensAfter(kept[i].tokens, a) \in Nat
        /\ TokensAfter(kept[i].tokens, actions[i]) <= kept[i].tokens
    BY <1>5, <2>1, AfterShrinks
  <2> QED
    BY <1>6, <2>1, <2>2
<1>14. PlanInv'
  BY <1>7, <1>10, <1>11, <1>12, <1>13 DEF PlanInv
<1>15. run.next = 0 /\ \A j \in DOMAIN kept : ~(j < run.next)
  BY <1>1, <1>8 DEF RunInv, FateInv
<1>16. FateInv' /\ TotalInv'
  BY <1>1, <1>10, <1>11, <1>15 DEF RunInv, FateInv, TotalInv, kept
<1>17. DifferIn(kept, actions, more, i) /\ Numbered(kept) /\ more[i] = a
  BY <1>4, <1>7, <1>8, <1>12 DEF DifferIn, more
<1>18. ASSUME NEW p \in Partitions
       PROVE  \/ Usage(kept, more, p) = SumFunctionOnSet(TokensIn(kept), Members(kept, p))
              \/ Usage(kept, more, p) >= Limit(run.input, p).min
  <2>1. \/ Usage(kept, actions, p) = SumFunctionOnSet(TokensIn(kept), Members(kept, p))
        \/ Usage(kept, actions, p) >= Limit(run.input, p).min
    BY <1>1 DEF RunInv, MinimumIsKept, kept, actions
  <2>2. CASE PartitionOf(kept[i]) = p
    <3>1. Usage(kept, more, p) = Usage(kept, actions, p)
             - (TokensAfter(kept[i].tokens, actions[i]) - TokensAfter(kept[i].tokens, a))
      BY <1>17, <2>2, UsageChanges
    <3> QED
      BY <1>6, <2>2, <3>1
  <2>3. CASE PartitionOf(kept[i]) # p
    <3>1. Usage(kept, more, p) = Usage(kept, actions, p)
      BY <1>17, <2>3, UsageChanges
    <3> QED
      BY <2>1, <3>1
  <2> QED
    BY <2>2, <2>3
<1>19. MinimumIsKept'
  BY <1>10, <1>18 DEF MinimumIsKept
<1> QED
  BY <1>14, <1>16, <1>19 DEF RunInv

\* The plan is recorded: the loop starts with the first item.
LEMMA RecordStep ==
    ASSUME RunInv, RecordPlan
    PROVE  RunInv'
<1>1. run.phase = "planning" /\ Active /\ RunShape
  BY DEF RecordPlan, Active, RunInv, PlanInv
<1>2. run' = [phase |-> "compressing", input |-> run.input, kept |-> run.kept, actions |-> run.actions,
              next |-> 1, bundle |-> run.bundle, rolled |-> run.rolled, final |-> run.final]
  BY <1>1 DEF RecordPlan, RunShape
<1>3. /\ run'.phase = "compressing" /\ run'.input = run.input /\ run'.kept = run.kept
      /\ run'.actions = run.actions /\ run'.next = 1 /\ run'.bundle = run.bundle
      /\ run'.final = run.final /\ RunShape'
  BY <1>2 DEF RunShape
<1>4. Active'
  BY <1>3 DEF Active
<1>5. PlanInv'
  BY <1>1, <1>3, <1>4 DEF RunInv, PlanInv
<1>6. DOMAIN run.kept = 1..Len(run.kept) /\ Len(run.kept) \in Nat
  BY <1>1, ActiveKept DEF RunInv
<1>7. run.next = 0
  BY <1>1 DEF RunInv, FateInv
<1>8. Passed(run.kept, 0) = Passed(run.kept, 1) /\ \A i \in DOMAIN run.kept : ~(i < 0) /\ ~(i < 1)
  BY <1>6 DEF Passed
<1>9. \A e \in run.bundle : FALSE
  BY <1>1, <1>7, <1>8 DEF RunInv, FateInv
<1>10. FateInv'
  <2>1. 1 \in Nat /\ 1 <= Len(run.kept) + 1
    BY <1>6
  <2> QED
    BY <1>3, <1>8, <1>9, <2>1 DEF FateInv
<1>11. TotalInv'
  BY <1>1, <1>3, <1>7, <1>8 DEF RunInv, TotalInv
<1>12. MinimumIsKept'
  BY <1>1, <1>3 DEF RunInv, MinimumIsKept
<1> QED
  BY <1>5, <1>10, <1>11, <1>12 DEF RunInv

\* The loop is at an item of an active run.
LEMMA AtItem ==
    ASSUME RunInv, run.phase = "compressing", run.next <= Len(run.kept)
    PROVE  /\ Active /\ RunShape /\ run.next \in DOMAIN run.kept /\ run.next \in Nat
           /\ run.kept[run.next].tokens \in Nat /\ run.actions \in [DOMAIN run.kept -> Names]
           /\ Numbered(run.kept) /\ DOMAIN run.kept = 1..Len(run.kept) /\ Len(run.kept) \in Nat
           /\ IsCandidate(run.kept[run.next])
<1>1. Active
  BY DEF Active
<1>2. /\ Numbered(run.kept) /\ DOMAIN run.kept = 1..Len(run.kept) /\ Len(run.kept) \in Nat
      /\ \A i \in DOMAIN run.kept : IsCandidate(run.kept[i])
  BY <1>1, ActiveKept DEF RunInv
<1>3. run.next \in Nat /\ run.next >= 1
  BY <1>1 DEF RunInv, FateInv
<1>4. run.next \in DOMAIN run.kept
  BY <1>2, <1>3
<1> QED
  BY <1>1, <1>2, <1>3, <1>4 DEF RunInv, PlanInv, Numbered

\* An item that is kept joins the bundle as it is.
LEMMA KeepStep ==
    ASSUME RunInv, run.phase = "compressing", run.next <= Len(run.kept),
           run.actions[run.next] = "Keep", KeepItem(run.kept[run.next])
    PROVE  RunInv'
<1> DEFINE item == run.kept[run.next]
           e == KeptEntry(item, "kept")
<1>1. /\ Active /\ RunShape /\ run.next \in DOMAIN run.kept /\ item.tokens \in Nat
  BY AtItem
<1>2. IsEntry(e) /\ Shows(e, item) /\ e.tokens = item.tokens /\ e.tokens <= item.tokens
  BY <1>1, KeptEntryIs
<1>3. run' = [phase |-> "compressing", input |-> run.input, kept |-> run.kept, actions |-> run.actions,
              next |-> run.next + 1, bundle |-> run.bundle \cup {e}, rolled |-> run.rolled,
              final |-> run.final + item.tokens]
  <2>1. run' = [run EXCEPT !.next = @ + 1, !.final = @ + item.tokens, !.bundle = @ \cup {e}]
    BY DEF KeepItem
  <2> HIDE DEF item, e
  <2> QED
    BY <1>1, <2>1 DEF RunShape
<1> HIDE DEF e
<1>4. /\ run'.phase = "compressing" /\ run'.input = run.input /\ run'.kept = run.kept
      /\ run'.actions = run.actions /\ RunShape'
      /\ run'.next = run.next + 1 /\ run'.bundle = run.bundle \cup {e} /\ run'.final = run.final + e.tokens
  BY <1>2, <1>3 DEF RunShape
<1>5. Active'
  BY <1>4 DEF Active
<1>6. PlanInv' /\ MinimumIsKept'
  <2>1. PlanInv'
    BY <1>1, <1>4, <1>5 DEF RunInv, PlanInv
  <2>2. MinimumIsKept'
    BY <1>4 DEF RunInv, MinimumIsKept
  <2> QED
    BY <2>1, <2>2
<1>7. Joins(e, run.actions)
  BY <1>1, <1>4 DEF Joins
<1>8. FateInv' /\ TotalInv'
  BY <1>2, <1>7, EntryJoins DEF RunInv
<1> QED
  BY <1>6, <1>8 DEF RunInv

\* An item that is evicted is passed over.
LEMMA EvictStep ==
    ASSUME RunInv, run.phase = "compressing", run.next <= Len(run.kept),
           run.actions[run.next] = "Evict", EvictItem
    PROVE  RunInv'
<1>1. /\ Active /\ RunShape /\ run.next \in DOMAIN run.kept /\ run.next \in Nat /\ Numbered(run.kept)
      /\ DOMAIN run.kept = 1..Len(run.kept) /\ Len(run.kept) \in Nat
  BY AtItem
<1>2. run' = [phase |-> "compressing", input |-> run.input, kept |-> run.kept, actions |-> run.actions,
              next |-> run.next + 1, bundle |-> run.bundle, rolled |-> run.rolled, final |-> run.final]
  BY <1>1 DEF EvictItem, RunShape
<1>3. /\ run'.phase = "compressing" /\ run'.input = run.input /\ run'.kept = run.kept
      /\ run'.actions = run.actions /\ RunShape'
      /\ run'.next = run.next + 1 /\ run'.bundle = run.bundle /\ run'.final = run.final
  BY <1>2 DEF RunShape
<1>4. Active'
  BY <1>3 DEF Active
<1>5. PlanInv' /\ MinimumIsKept'
  <2>1. PlanInv'
    BY <1>1, <1>3, <1>4 DEF RunInv, PlanInv
  <2>2. MinimumIsKept'
    BY <1>3 DEF RunInv, MinimumIsKept
  <2> QED
    BY <2>1, <2>2
<1>6. FateInv'
  <2>1. run.next + 1 \in Nat /\ run.next + 1 <= Len(run.kept) + 1 /\ run.next + 1 >= 1
    BY <1>1
  <2>2. \A e \in run.bundle : IsEntry(e) /\ \E i \in DOMAIN run.kept : i < run.next + 1 /\ Shows(e, run.kept[i])
    <3> SUFFICES ASSUME NEW e \in run.bundle
                 PROVE  IsEntry(e) /\ \E i \in DOMAIN run.kept : i < run.next + 1 /\ Shows(e, run.kept[i])
      OBVIOUS
    <3>1. IsEntry(e) /\ \E i \in DOMAIN run.kept : i < run.next /\ Shows(e, run.kept[i])
      BY <1>1 DEF RunInv, FateInv
    <3>2. PICK i \in DOMAIN run.kept : i < run.next /\ Shows(e, run.kept[i])
      BY <3>1
    <3>3. i < run.next + 1
      BY <1>1, <3>2
    <3> QED
      BY <3>1, <3>2, <3>3
  <2>3. ASSUME NEW i \in DOMAIN run.kept, i < run.next + 1
        PROVE  IF run.actions[i] = "Evict" THEN EntriesOf(run.bundle, run.kept[i]) = {}
               ELSE \E x : EntriesOf(run.bundle, run.kept[i]) = {x}
    <3>1. CASE i = run.next
      <4>1. EntriesOf(run.bundle, run.kept[run.next]) = {}
        BY <1>1, NoEntryYet DEF RunInv
      <4> QED
        BY <3>1, <4>1
    <3>2. CASE i # run.next
      <4>1. i < run.next
        BY <1>1, <2>3, <3>2
      <4> QED
        BY <1>1, <4>1 DEF RunInv, FateInv
    <3> QED
      BY <3>1, <3>2
  <2> QED
    BY <1>3, <2>1, <2>2, <2>3 DEF FateInv
<1>7. TotalInv'
  <2>1. /\ SumFunctionOnSet(TokensIn(run.kept), Passed(run.kept, run.next)) \in Int
        /\ SumFunctionOnSet(TokensIn(run.kept), Passed(run.kept, run.next + 1)) \in Int
        /\ SumFunctionOnSet(TokensIn(run.kept), Passed(run.kept, run.next))
             <= SumFunctionOnSet(TokensIn(run.kept), Passed(run.kept, run.next + 1))
    <3>1. run.next + 1 \in Nat
      BY <1>1
    <3> QED
      BY <1>1, <3>1, PassedIs
  <2>2. /\ IsFiniteSet(run.bundle) /\ run.final = SumFunctionOnSet(Sizes(run.bundle), run.bundle)
        /\ run.final <= SumFunctionOnSet(TokensIn(run.kept), Passed(run.kept, run.next))
    BY <1>1 DEF RunInv, TotalInv
  <2>3. run.final \in Int
    <3>1. \A x \in run.bundle : x.tokens \in Int
      BY <1>1 DEF RunInv, FateInv, IsEntry
    <3>2. Summable(Sizes(run.bundle), run.bundle)
      BY <2>2, <3>1 DEF Summable, Sizes
    <3> QED
      BY <2>2, <3>2, SumType
  <2>4. run.final <= SumFunctionOnSet(TokensIn(run.kept), Passed(run.kept, run.next + 1))
    BY <2>1, <2>2, <2>3
  <2> QED
    BY <1>3, <2>2, <2>4 DEF TotalInv
<1> QED
  BY <1>5, <1>6, <1>7 DEF RunInv

\* An item that is compressed joins the bundle as the summary that passed the gate, or as it is.
LEMMA CompressStep ==
    ASSUME RunInv, run.phase = "compressing", run.next <= Len(run.kept),
           run.actions[run.next] \in {"L1", "L2", "L3"},
           CompressItem(run.kept[run.next], run.actions[run.next])
    PROVE  RunInv'
<1> DEFINE next == run.next
           item == run.kept[next]
           action == run.actions[next]
           level == Attempts(item, action)[FirstPassing(item, action)]
           tokens == IF level = "Keep" THEN item.tokens ELSE SummaryTokens(item, level)
           e == IF level = "Keep" THEN KeptEntry(item, "fallback") ELSE SummaryEntry(item, level)
           more == [run.actions EXCEPT ![next] = level]
<1>1. /\ Active /\ RunShape /\ next \in DOMAIN run.kept /\ item.tokens \in Nat /\ IsCandidate(item)
      /\ run.actions \in [DOMAIN run.kept -> Names] /\ Numbered(run.kept)
  BY AtItem
<1>2. /\ level \in {"Keep", "L1", "L2", "L3"} /\ ActionOrder[level] <= ActionOrder[action]
      /\ level = "Keep" \/ ~GateFails(item, level)
  BY PassingIs
<1>3. item.tokens >= 1
  <2>1. action # "Keep"
    OBVIOUS
  <2> HIDE DEF item, action, level, tokens, e, more
  <2> QED
    BY <1>1, <2>1 DEF RunInv, PlanInv, action, item
<1>4. PICK rolled : run' = [run EXCEPT !.next = @ + 1, !.final = @ + e.tokens, !.actions[run.next] = level,
                                       !.rolled = rolled, !.bundle = @ \cup {e}]
  BY DEF CompressItem
<1>5. item.pointer # "bad"
  BY DEF CompressItem
<1>6. tokens \in Nat /\ tokens <= item.tokens
  <2>1. level \in Names
    BY <1>2 DEF Names
  <2> HIDE DEF item, level
  <2>2. SummaryTokens(item, level) \in Nat /\ SummaryTokens(item, level) <= item.tokens
    BY <1>1, <1>3, <2>1, SummaryIs
  <2> QED
    BY <1>1, <2>2
<1>7. level # "Keep" => item.pointer \notin {"none", "bad"}
  BY <1>2, <1>5 DEF GateFails
<1> HIDE DEF item, action, level, tokens
<1>8. IsEntry(e) /\ Shows(e, item) /\ e.tokens = tokens
  <2>1. CASE level = "Keep"
    <3>1. e = KeptEntry(item, "fallback") /\ tokens = item.tokens
      BY <2>1 DEF tokens
    <3> QED
      BY <1>1, <3>1, KeptEntryIs
  <2>2. CASE level # "Keep"
    <3>1. e = SummaryEntry(item, level) /\ tokens = SummaryTokens(item, level)
      BY <2>2 DEF tokens
    <3>2. item.pointer \notin {"none", "bad"}
      BY <1>7, <2>2
    <3> HIDE DEF e
    <3> QED
      BY <1>6, <3>1, <3>2, SummaryEntryIs
  <2> QED
    BY <2>1, <2>2
<1> HIDE DEF e
<1>9. run' = [phase |-> "compressing", input |-> run.input, kept |-> run.kept, actions |-> more,
              next |-> next + 1, bundle |-> run.bundle \cup {e}, rolled |-> rolled,
              final |-> run.final + tokens]
  BY <1>1, <1>4, <1>8 DEF RunShape
<1>10. /\ more \in [DOMAIN run.kept -> Names] /\ more[next] = level
       /\ \A i \in DOMAIN run.kept : i # next => more[i] = run.actions[i]
  BY <1>1, <1>2 DEF Names
<1> HIDE DEF more
<1>11. /\ run'.phase = "compressing" /\ run'.input = run.input /\ run'.kept = run.kept
       /\ run'.actions = more /\ RunShape'
       /\ run'.next = next + 1 /\ run'.bundle = run.bundle \cup {e} /\ run'.final = run.final + e.tokens
  BY <1>8, <1>9 DEF RunShape
<1>12. Active'
  BY <1>11 DEF Active
<1>13. PlanInv'
  <2>1. /\ IsCall(run.input) /\ run.kept = Kept(run.input)
        /\ \A i \in DOMAIN run.kept : run.actions[i] # "Keep" => run.kept[i].tokens >= 1
    BY <1>1 DEF RunInv, PlanInv
  <2>2. \A i \in DOMAIN run.kept : more[i] # "Keep" => run.kept[i].tokens >= 1
    BY <1>3, <1>10, <2>1 DEF item
  <2> QED
    BY <1>10, <1>11, <1>12, <2>1, <2>2 DEF PlanInv
<1>14. Joins(e, more)
  BY <1>1, <1>2, <1>10, <1>11 DEF Joins
<1>15. FateInv' /\ TotalInv'
  BY <1>6, <1>8, <1>14, EntryJoins DEF RunInv, item
<1>16. DifferIn(run.kept, run.actions, more, next)
  BY <1>1, <1>10 DEF DifferIn
<1>17. /\ TokensAfter(item.tokens, action) \in Nat /\ TokensAfter(item.tokens, level) \in Nat
       /\ TokensAfter(item.tokens, action) <= TokensAfter(item.tokens, level)
  <2>1. level \in Names /\ action \in Names
    BY <1>2 DEF Names, action
  <2> QED
    BY <1>1, <1>2, <2>1, AfterShrinks
<1>18. ASSUME NEW p \in Partitions
       PROVE  \/ Usage(run.kept, more, p) = SumFunctionOnSet(TokensIn(run.kept), Members(run.kept, p))
              \/ Usage(run.kept, more, p) >= Limit(run.input, p).min
  <2> DEFINE came == SumFunctionOnSet(TokensIn(run.kept), Members(run.kept, p))
             was == Usage(run.kept, run.actions, p)
             is == Usage(run.kept, more, p)
             low == Limit(run.input, p).min
  <2>1. was = came \/ was >= low
    BY <1>1 DEF RunInv, MinimumIsKept
  <2>2. was \in Int /\ came \in Int
    BY <1>1, UsageIs
  <2>3. is \in Int /\ is <= came
    BY <1>1, <1>10, UsageIs
  <2>4. low \in Int
    <3>1. IsCall(run.input)
      BY <1>1 DEF RunInv, PlanInv
    <3> QED
      BY <3>1, LimitIs
  <2>5. is >= was
    <3>1. PartitionOf(item) # p => is = was
      BY <1>1, <1>16, UsageChanges DEF item
    <3>2. PartitionOf(item) = p => is = was - (TokensAfter(item.tokens, action) - TokensAfter(item.tokens, level))
      BY <1>1, <1>10, <1>16, UsageChanges DEF item, action
    <3> HIDE DEF is, was
    <3> QED
      BY <1>17, <2>2, <3>1, <3>2
  <2> HIDE DEF is, was, came, low
  <2>6. is = came \/ is >= low
    BY <2>1, <2>2, <2>3, <2>4, <2>5
  <2> QED
    BY <2>6 DEF is, came, low
<1>19. MinimumIsKept'
  BY <1>11, <1>18 DEF MinimumIsKept
<1> QED
  BY <1>13, <1>15, <1>19 DEF RunInv

\* A run that ends keeps what it has; only a delivered one has passed every item.
LEMMA EndStep ==
    ASSUME RunInv, run.phase = "compressing", NEW phase \in {"failed", "delivered"},
           phase = "delivered" => run.next > Len(run.kept), run' = [run EXCEPT !.phase = phase]
    PROVE  RunInv'
<1>1. Active /\ RunShape
  BY DEF RunInv, PlanInv, Active
<1>2. /\ run'.phase = phase /\ run'.input = run.input /\ run'.kept = run.kept
      /\ run'.actions = run.actions /\ run'.next = run.next /\ run'.bundle = run.bundle
      /\ run'.final = run.final /\ RunShape'
  <2>1. run' = [phase |-> phase, input |-> run.input, kept |-> run.kept, actions |-> run.actions,
                next |-> run.next, bundle |-> run.bundle, rolled |-> run.rolled, final |-> run.final]
    BY <1>1 DEF RunShape
  <2> QED
    BY <2>1 DEF RunShape
<1>3. Active'
  BY <1>2 DEF Active
<1>4. PlanInv' /\ TotalInv'
  BY <1>1, <1>2, <1>3 DEF RunInv, PlanInv, TotalInv
<1>5. MinimumIsKept'
  BY <1>2 DEF MinimumIsKept
<1>6. phase = "delivered" => run.next = Len(run.kept) + 1
  <2>1. Len(run.kept) \in Nat
    BY <1>1, ActiveKept DEF RunInv
  <2>2. run.next \in Nat /\ run.next <= Len(run.kept) + 1
    BY <1>1 DEF RunInv, FateInv
  <2> QED
    BY <2>1, <2>2
<1>7. FateInv'
  <2>1. /\ run.next \in Nat /\ run.next <= Len(run.kept) + 1 /\ run.next >= 1
        /\ \A e \in run.bundle :
              IsEntry(e) /\ \E i \in DOMAIN run.kept : i < run.next /\ Shows(e, run.kept[i])
        /\ \A i \in DOMAIN run.kept : i < run.next =>
              IF run.actions[i] = "Evict" THEN EntriesOf(run.bundle, run.kept[i]) = {}
              ELSE \E e : EntriesOf(run.bundle, run.kept[i]) = {e}
    BY <1>1 DEF RunInv, FateInv
  <2>2. run'.phase \notin {"planning", "compressing"}
    BY <1>2
  <2>3. run'.next \in Nat /\ run'.next <= Len(run'.kept) + 1
    BY <1>2, <2>1
  <2>4. run'.phase = "delivered" => run'.next = Len(run'.kept) + 1
    BY <1>2, <1>6
  <2>5. \A e \in run'.bundle :
            IsEntry(e) /\ \E i \in DOMAIN run'.kept : i < run'.next /\ Shows(e, run'.kept[i])
    BY <1>2, <2>1, Zenon
  <2>6. \A i \in DOMAIN run'.kept : i < run'.next =>
            IF run'.actions[i] = "Evict" THEN EntriesOf(run'.bundle, run'.kept[i]) = {}
            ELSE \E e : EntriesOf(run'.bundle, run'.kept[i]) = {e}
    BY <1>2, <2>1, Zenon
  <2> QED
    BY <2>2, <2>3, <2>4, <2>5, <2>6 DEF FateInv
<1> QED
  BY <1>4, <1>5, <1>7 DEF RunInv

-----------------------------------------------------------------------------
(* ContextAssembly: the manifest, its reader and the records                *)

ManifestInv ==
    /\ manifest = [version |-> manifest.version, generation |-> manifest.generation,
                   anchor |-> manifest.anchor, items |-> manifest.items]
    /\ \A k \in DOMAIN manifest.items : IsEntry(manifest.items[k]) /\ manifest.items[k].id = k
    /\ \A k \in DOMAIN replica : IsEntry(replica[k])
    /\ ReplicaFollows

\* What a reader knows that follows the items.
SameEntry(known, item) ==
    /\ known.level = item.level /\ known.partition = item.partition /\ known.score = item.score
    /\ known.stamp = item.stamp /\ known.tokens = item.tokens /\ known.content = item.content
    /\ known.how = item.how /\ known.pointer = item.pointer

Follows(known, items) == DOMAIN known = DOMAIN items /\ \A k \in DOMAIN known : SameEntry(known[k], items[k])

LEMMA FollowsIs == ReplicaFollows <=> Follows(replica, manifest.items)
BY DEF ReplicaFollows, Follows, SameEntry

\* Each record kind is counted; a run in its loop has a plan that no report follows yet.
JournalInv ==
    /\ journal = [plans |-> journal.plans, summaries |-> journal.summaries, reports |-> journal.reports,
                  redactions |-> journal.redactions, events |-> journal.events]
    /\ journal.plans \in Nat /\ journal.reports \in Nat /\ journal.reports = journal.redactions
    /\ journal.reports <= journal.plans
    /\ run.phase = "compressing" => journal.reports < journal.plans
    /\ journal.reports = 0 => manifest.version = 0

\* The map of a bundle has its entries by their ids.
LEMMA ItemMapIs ==
    ASSUME NEW bundle, \A e \in bundle : IsEntry(e)
    PROVE  \A k \in DOMAIN ItemMap(bundle) : IsEntry(ItemMap(bundle)[k]) /\ ItemMap(bundle)[k].id = k
<1> DEFINE pick(k) == CHOOSE e \in bundle : e.id = k
           items == ItemMap(bundle)
<1>1. items = [k \in {e.id : e \in bundle} |-> pick(k)]
  BY DEF ItemMap
<1>2. \A k \in {e.id : e \in bundle} : pick(k) \in bundle /\ pick(k).id = k
  <2> SUFFICES ASSUME NEW x \in bundle PROVE pick(x.id) \in bundle /\ pick(x.id).id = x.id
    OBVIOUS
  <2>1. \E e \in bundle : e.id = x.id
    OBVIOUS
  <2> QED
    BY <2>1, Zenon
<1> HIDE DEF pick, items
<1>3. \A k \in DOMAIN items : k \in {e.id : e \in bundle} /\ items[k] = pick(k)
  BY <1>1
<1>4. \A k \in DOMAIN items : IsEntry(items[k]) /\ items[k].id = k
  BY <1>2, <1>3
<1> QED
  BY <1>4 DEF items

\* An entry that gets the evidence of one with the same signature is as it, but
\* for what neither the signature nor the patch tells.
LEMMA SignatureTells ==
    ASSUME NEW known, IsEntry(known), NEW old, NEW new, IsEntry(old), IsEntry(new), old.id = new.id,
           SameEntry(known, old), Signature(new) = Signature(old)
    PROVE  LET e == [known EXCEPT !.pointer = new.pointer] IN IsEntry(e) /\ SameEntry(e, new)
<1> DEFINE e == [known EXCEPT !.pointer = new.pointer]
<1>1. /\ new.partition = old.partition /\ new.score = old.score /\ new.stamp = old.stamp
      /\ new.tokens = old.tokens /\ new.content = old.content /\ new.how = old.how
  BY DEF Signature
<1>2. new.level = old.level
  <2>1. new.level = new.id[2] /\ old.level = old.id[2]
    <3>1. \A x : IsEntry(x) => x.level = x.id[2]
      BY DEF IsEntry
    <3> QED
      BY <3>1
  <2> QED
    BY <2>1
<1>3. e = [id |-> known.id, of |-> known.id[1], level |-> known.id[2], partition |-> known.partition,
           tokens |-> known.tokens, score |-> known.score, factors |-> known.factors,
           content |-> known.content, stamp |-> known.stamp, typ |-> known.typ,
           supersedes |-> known.supersedes, pointer |-> new.pointer, how |-> known.how]
  BY DEF IsEntry
<1>4. known.tokens \in Nat /\ known.level = known.id[2]
  BY DEF IsEntry
<1> HIDE DEF e
<1>5. /\ e.id = known.id /\ e.of = known.id[1] /\ e.level = known.id[2] /\ e.partition = known.partition
      /\ e.tokens = known.tokens /\ e.score = known.score /\ e.factors = known.factors
      /\ e.content = known.content /\ e.stamp = known.stamp /\ e.typ = known.typ
      /\ e.supersedes = known.supersedes /\ e.pointer = new.pointer /\ e.how = known.how
  BY <1>3
<1>6. IsEntry(e)
  BY <1>3, <1>4, <1>5 DEF IsEntry
<1>7. SameEntry(e, new)
  BY <1>1, <1>2, <1>4, <1>5 DEF SameEntry
<1> QED
  BY <1>6, <1>7 DEF e

\* A reader that follows old and then the patch follows new.
LEMMA ReplayIs ==
    ASSUME NEW known, NEW old, NEW new, Follows(known, old),
           \A k \in DOMAIN known : IsEntry(known[k]),
           \A k \in DOMAIN old : IsEntry(old[k]) /\ old[k].id = k,
           \A k \in DOMAIN new : IsEntry(new[k]) /\ new[k].id = k
    PROVE  LET r == Replayed(known, PatchOf(old, new), new) IN
           Follows(r, new) /\ \A k \in DOMAIN r : IsEntry(r[k])
<1> DEFINE patch == PatchOf(old, new)
           r == Replayed(known, patch, new)
           fresh(k) == k \in patch.added \cup patch.updated \/ k \notin DOMAIN known
<1>1. /\ patch.added = DOMAIN new \ DOMAIN old /\ patch.removed = DOMAIN old \ DOMAIN new
      /\ patch.updated = {k \in DOMAIN new \cap DOMAIN old : Signature(new[k]) # Signature(old[k])}
      /\ patch.pointers = [k \in DOMAIN new |-> new[k].pointer]
  BY DEF PatchOf
<1>2. DOMAIN known = DOMAIN old /\ \A k \in DOMAIN old : SameEntry(known[k], old[k])
  BY DEF Follows
<1>3. (DOMAIN known \ patch.removed) \cup patch.added = DOMAIN new
  BY <1>1, <1>2
<1>4. r = [k \in (DOMAIN known \ patch.removed) \cup patch.added |->
              IF fresh(k) THEN new[k] ELSE [known[k] EXCEPT !.pointer = patch.pointers[k]]]
  BY DEF Replayed
<1>5. \A k \in DOMAIN new : ~fresh(k) => k \in DOMAIN old /\ Signature(new[k]) = Signature(old[k])
  BY <1>1, <1>2
<1>6. \A k \in DOMAIN new : patch.pointers[k] = new[k].pointer
  BY <1>1
<1> HIDE DEF patch, r, fresh
<1>7. DOMAIN r = DOMAIN new
  BY <1>3, <1>4
<1>8. ASSUME NEW k \in DOMAIN new PROVE IsEntry(r[k]) /\ SameEntry(r[k], new[k])
  <2>1. CASE fresh(k)
    <3>1. r[k] = new[k]
      BY <1>3, <1>4, <2>1
    <3> QED
      BY <3>1 DEF SameEntry
  <2>2. CASE ~fresh(k)
    <3>1. r[k] = [known[k] EXCEPT !.pointer = patch.pointers[k]]
      BY <1>3, <1>4, <2>2
    <3>2. r[k] = [known[k] EXCEPT !.pointer = new[k].pointer]
      BY <1>6, <3>1
    <3>3. /\ k \in DOMAIN old /\ IsEntry(known[k]) /\ IsEntry(old[k]) /\ IsEntry(new[k])
          /\ old[k].id = new[k].id /\ SameEntry(known[k], old[k]) /\ Signature(new[k]) = Signature(old[k])
      BY <1>2, <1>5, <2>2
    <3> QED
      BY <3>2, <3>3, SignatureTells
  <2> QED
    BY <2>1, <2>2
<1>9. Follows(r, new) /\ \A k \in DOMAIN r : IsEntry(r[k])
  BY <1>7, <1>8 DEF Follows
<1> QED
  BY <1>9 DEF r, patch

\* A delivery replaces the manifest, and its reader follows the new items.
LEMMA DeliverManifest ==
    ASSUME RunInv, ManifestInv, Deliver
    PROVE  ManifestInv'
<1> DEFINE items == ItemMap(run.bundle)
           old == IF Merges THEN manifest.items ELSE <<>>
           known == IF Merges THEN replica ELSE <<>>
           patch == PatchOf(old, items)
           version == IF Merges THEN manifest.version ELSE 1
           generation == IF Merges THEN manifest.generation + 1 ELSE 0
<1>1. run.phase = "compressing" /\ Active
  BY DEF Deliver, Active
<1>2. \A e \in run.bundle : IsEntry(e)
  BY <1>1 DEF RunInv, FateInv
<1>3. \A k \in DOMAIN items : IsEntry(items[k]) /\ items[k].id = k
  BY <1>2, ItemMapIs
<1>4. /\ Follows(replica, manifest.items) /\ \A k \in DOMAIN replica : IsEntry(replica[k])
      /\ \A k \in DOMAIN manifest.items : IsEntry(manifest.items[k]) /\ manifest.items[k].id = k
  BY FollowsIs DEF ManifestInv
<1>5. /\ manifest' = [version |-> version, generation |-> generation, anchor |-> run.input.anchor, items |-> items]
      /\ replica' = Replayed(known, patch, items)
  BY DEF Deliver
<1> HIDE DEF items, version, generation
<1>6. /\ Follows(known, old) /\ \A k \in DOMAIN known : IsEntry(known[k])
      /\ \A k \in DOMAIN old : IsEntry(old[k]) /\ old[k].id = k
  <2>1. CASE Merges
    BY <1>4, <2>1
  <2>2. CASE ~Merges
    <3>1. old = <<>> /\ known = <<>> /\ DOMAIN <<>> = {}
      BY <2>2
    <3> HIDE DEF old, known
    <3> QED
      BY <3>1 DEF Follows
  <2> QED
    BY <2>1, <2>2
<1> HIDE DEF old, known
<1>7. Follows(replica', items) /\ \A k \in DOMAIN replica' : IsEntry(replica'[k])
  BY <1>3, <1>5, <1>6, ReplayIs
<1>8. manifest'.items = items /\ manifest'.version = version /\ manifest'.generation = generation
      /\ manifest'.anchor = run.input.anchor
  BY <1>5
<1>9. ReplicaFollows'
  BY <1>7, <1>8 DEF ReplicaFollows, Follows, SameEntry
<1> QED
  BY <1>3, <1>5, <1>7, <1>8, <1>9 DEF ManifestInv

\* A compaction drops the same items for both.
LEMMA CompactManifest ==
    ASSUME ManifestInv, Compact
    PROVE  ManifestInv'
<1> DEFINE m == manifest.items
           empty == {k \in DOMAIN m : m[k].tokens = 0}
           less == [k \in DOMAIN m \ empty |-> m[k]]
           left == [k \in DOMAIN replica \ empty |-> replica[k]]
<1>1. manifest' = [manifest EXCEPT !.items = less, !.version = @ + 1, !.generation = 0]
  BY DEF Compact
<1>2. replica' = left /\ Follows(replica, m) /\ \A k \in DOMAIN replica : IsEntry(replica[k])
  BY FollowsIs DEF Compact, ManifestInv
<1>3. Follows(left, less) /\ \A k \in DOMAIN left : IsEntry(left[k])
  BY <1>2 DEF Follows
<1>4. \A k \in DOMAIN less : IsEntry(less[k]) /\ less[k].id = k
  BY DEF ManifestInv
<1> HIDE DEF m, empty, less, left
<1>5. manifest' = [version |-> manifest.version + 1, generation |-> 0, anchor |-> manifest.anchor, items |-> less]
  BY <1>1 DEF ManifestInv
<1>6. manifest'.items = less /\ manifest'.version = manifest.version + 1 /\ manifest'.generation = 0
      /\ manifest'.anchor = manifest.anchor
  BY <1>5
<1>7. ReplicaFollows'
  BY <1>2, <1>3, <1>6 DEF ReplicaFollows, Follows, SameEntry
<1> QED
  BY <1>2, <1>3, <1>4, <1>5, <1>6, <1>7 DEF ManifestInv

\* Records that only grow by one another keep their relation.
LEMMA JournalStep ==
    ASSUME RunInv, JournalInv, ManifestInv, ContextNext, RunInv'
    PROVE  JournalInv'
<1>1. /\ journal = [plans |-> journal.plans, summaries |-> journal.summaries, reports |-> journal.reports,
                    redactions |-> journal.redactions, events |-> journal.events]
      /\ journal.plans \in Nat /\ journal.reports \in Nat /\ journal.reports = journal.redactions
      /\ journal.reports <= journal.plans /\ (run.phase = "compressing" => journal.reports < journal.plans)
      /\ (journal.reports = 0 => manifest.version = 0)
  BY DEF JournalInv
<1>2. RunShape
  BY DEF RunInv, PlanInv
<1>3. ASSUME NEW input, BeginRun(input) PROVE JournalInv'
  <2>1. journal' = journal /\ manifest' = manifest
    BY <1>3 DEF BeginRun
  <2>2. run'.phase # "compressing"
    <3>1. CASE ~ValidRun(input)
      BY <1>3, <3>1 DEF BeginRun, NoRun
    <3>2. CASE ValidRun(input)
      BY <1>3, <3>2 DEF BeginRun, NoRun
    <3> QED
      BY <3>1, <3>2
  <2> QED
    BY <1>1, <2>1, <2>2 DEF JournalInv
<1>4. CASE Reduce
  <2>1. journal' = journal /\ manifest' = manifest /\ run.phase = "planning"
    BY <1>4 DEF Reduce
  <2>2. run'.phase = "planning"
    <3>1. PICK i, a : run' = [run EXCEPT !.actions[i] = a]
      BY <1>4 DEF Reduce
    <3> QED
      BY <1>2, <2>1, <3>1 DEF RunShape
  <2> QED
    BY <1>1, <2>1, <2>2 DEF JournalInv
<1>5. CASE RecordPlan
  <2>1. journal' = [plans |-> journal.plans + 1, summaries |-> journal.summaries, reports |-> journal.reports,
                    redactions |-> journal.redactions, events |-> journal.events]
    BY <1>1, <1>5 DEF RecordPlan
  <2>2. manifest' = manifest
    BY <1>5 DEF RecordPlan
  <2>3. /\ journal'.plans = journal.plans + 1 /\ journal'.summaries = journal.summaries
        /\ journal'.reports = journal.reports /\ journal'.redactions = journal.redactions
        /\ journal'.events = journal.events
    BY <2>1
  <2>4. /\ journal'.plans \in Nat /\ journal'.reports \in Nat /\ journal'.reports < journal'.plans
        /\ journal'.reports <= journal'.plans
    BY <1>1, <2>3
  <2> QED
    BY <1>1, <2>1, <2>2, <2>3, <2>4 DEF JournalInv
<1>6. CASE Compress
  <2>1. run.phase = "compressing" /\ manifest' = manifest
    BY <1>6 DEF Compress
  <2>2. \E n : journal' = [journal EXCEPT !.summaries = n]
    <3>1. CASE \/ KeepItem(run.kept[run.next]) \/ EvictItem \/ RejectPointer(run.kept[run.next])
      <4>1. journal' = journal
        BY <3>1 DEF KeepItem, EvictItem, RejectPointer
      <4>2. journal = [journal EXCEPT !.summaries = journal.summaries]
        BY <1>1
      <4> QED
        BY <4>1, <4>2
    <3>2. CASE CompressItem(run.kept[run.next], run.actions[run.next])
      BY <3>2 DEF CompressItem
    <3> QED
      BY <1>6, <3>1, <3>2 DEF Compress
  <2>3. PICK n : journal' = [journal EXCEPT !.summaries = n]
    BY <2>2
  <2>4. journal' = [plans |-> journal.plans, summaries |-> n, reports |-> journal.reports,
                    redactions |-> journal.redactions, events |-> journal.events]
    BY <1>1, <2>3
  <2>5. /\ journal'.plans = journal.plans /\ journal'.summaries = n
        /\ journal'.reports = journal.reports /\ journal'.redactions = journal.redactions
        /\ journal'.events = journal.events
    BY <2>4
  <2> QED
    BY <1>1, <2>1, <2>4, <2>5 DEF JournalInv
<1>7. CASE Deliver
  <2>1. run.phase = "compressing" /\ run' = [run EXCEPT !.phase = "delivered"]
    BY <1>7 DEF Deliver
  <2>2. run'.phase = "delivered"
    BY <1>2, <2>1 DEF RunShape
  <2>3. PICK n : journal' = [journal EXCEPT !.reports = @ + 1, !.redactions = @ + 1, !.events = n]
    BY <1>7 DEF Deliver
  <2>4. journal' = [plans |-> journal.plans, summaries |-> journal.summaries, reports |-> journal.reports + 1,
                    redactions |-> journal.redactions + 1, events |-> n]
    BY <1>1, <2>3
  <2>5. /\ journal'.plans = journal.plans /\ journal'.summaries = journal.summaries
        /\ journal'.reports = journal.reports + 1 /\ journal'.redactions = journal.redactions + 1
        /\ journal'.events = n
    BY <2>4
  <2>6. /\ journal'.plans \in Nat /\ journal'.reports \in Nat /\ journal'.reports <= journal'.plans
        /\ journal'.reports # 0 /\ journal'.reports = journal'.redactions
    BY <1>1, <2>1, <2>5
  <2> QED
    BY <2>2, <2>4, <2>5, <2>6 DEF JournalInv
<1>8. CASE RefuseDelta
  <2>1. run' = [run EXCEPT !.phase = "failed"] /\ journal' = journal /\ manifest' = manifest
    BY <1>8 DEF RefuseDelta
  <2>2. run'.phase = "failed"
    BY <1>2, <2>1 DEF RunShape
  <2> QED
    BY <1>1, <2>1, <2>2 DEF JournalInv
<1>9. CASE Compact
  <2>1. run' = NoRun /\ journal' = journal /\ manifest.version > 0
    BY <1>9 DEF Compact
  <2>2. run'.phase = "idle"
    BY <2>1 DEF NoRun
  <2>3. journal.reports # 0
    BY <1>1, <2>1
  <2> QED
    BY <1>1, <2>1, <2>2, <2>3 DEF JournalInv
<1> QED
  BY <1>3, <1>4, <1>5, <1>6, <1>7, <1>8, <1>9 DEF ContextNext

\* Every step keeps the run's invariant.
LEMMA RunStep ==
    ASSUME RunInv, [ContextNext]_contextVars
    PROVE  RunInv'
<1>1. ASSUME NEW input, input \in (IF runs + 1 \in DOMAIN RunInputs THEN RunInputs[runs + 1] ELSE {}),
             BeginRun(input)
      PROVE  RunInv'
  <2>1. IsCall(input)
    <3>1. runs + 1 \in DOMAIN RunInputs /\ input \in RunInputs[runs + 1]
      BY <1>1
    <3> QED
      BY <3>1, CallAssumption
  <2> QED
    BY <1>1, <2>1, BeginStep
<1>2. CASE Compress
  <2>1. run.phase = "compressing" /\ run.next <= Len(run.kept)
    BY <1>2 DEF Compress
  <2>2. CASE run.actions[run.next] = "Keep" /\ KeepItem(run.kept[run.next])
    BY <2>1, <2>2, KeepStep
  <2>3. CASE run.actions[run.next] = "Evict" /\ EvictItem
    BY <2>1, <2>3, EvictStep
  <2>4. CASE RejectPointer(run.kept[run.next])
    <3>1. run' = [run EXCEPT !.phase = "failed"]
      BY <2>4 DEF RejectPointer
    <3> QED
      BY <2>1, <3>1, EndStep
  <2>5. CASE /\ run.actions[run.next] \in {"L1", "L2", "L3"}
             /\ CompressItem(run.kept[run.next], run.actions[run.next])
    BY <2>1, <2>5, CompressStep
  <2> QED
    BY <1>2, <2>2, <2>3, <2>4, <2>5 DEF Compress
<1>3. CASE Deliver
  <2>1. run.phase = "compressing" /\ run.next > Len(run.kept) /\ run' = [run EXCEPT !.phase = "delivered"]
    BY <1>3 DEF Deliver
  <2> QED
    BY <2>1, EndStep
<1>4. CASE RefuseDelta
  <2>1. run.phase = "compressing" /\ run' = [run EXCEPT !.phase = "failed"]
    BY <1>4 DEF RefuseDelta
  <2> QED
    BY <2>1, EndStep
<1>5. CASE Compact
  <2>1. run' = NoRun
    BY <1>5 DEF Compact
  <2>2. /\ run'.phase = "idle" /\ run'.bundle = {} /\ RunShape'
    BY <2>1 DEF NoRun, RunShape
  <2>3. ~Active'
    BY <2>2 DEF Active
  <2> QED
    BY <2>2, <2>3 DEF RunInv, PlanInv, FateInv, TotalInv, MinimumIsKept
<1>6. CASE UNCHANGED contextVars
  <2>1. run' = run
    BY <1>6 DEF contextVars
  <2>2. Active' = Active
    BY <2>1 DEF Active
  <2>3. PlanInv' /\ FateInv' /\ TotalInv' /\ MinimumIsKept'
    BY <2>1, <2>2 DEF RunInv, PlanInv, RunShape, FateInv, TotalInv, MinimumIsKept
  <2> QED
    BY <2>3 DEF RunInv
<1>7. CASE Reduce
  BY <1>7, ReduceStep
<1>8. CASE RecordPlan
  BY <1>8, RecordStep
<1> QED
  BY <1>1, <1>2, <1>3, <1>4, <1>5, <1>6, <1>7, <1>8 DEF ContextNext

\* Every step keeps what the manifest, its reader and the records say.
LEMMA DeliveryStep ==
    ASSUME RunInv, ManifestInv, JournalInv, [ContextNext]_contextVars, RunInv'
    PROVE  ManifestInv' /\ JournalInv'
<1>1. CASE UNCHANGED contextVars
  BY <1>1 DEF contextVars, ManifestInv, JournalInv, ReplicaFollows
<1>2. CASE ContextNext
  <2>1. JournalInv'
    BY <1>2, JournalStep
  <2>2. CASE Deliver
    BY <2>1, <2>2, DeliverManifest
  <2>3. CASE Compact
    BY <2>1, <2>3, CompactManifest
  <2>4. CASE UNCHANGED <<manifest, replica>>
    BY <2>1, <2>4 DEF ManifestInv, ReplicaFollows
  <2>5. Deliver \/ Compact \/ UNCHANGED <<manifest, replica>>
    BY <1>2 DEF ContextNext, BeginRun, Reduce, RecordPlan, Compress, RefuseDelta
  <2> QED
    BY <2>2, <2>3, <2>4, <2>5
<1> QED
  BY <1>1, <1>2

-----------------------------------------------------------------------------
(* ContextAssembly: the properties                                          *)

ContextInv == RunInv /\ ManifestInv /\ JournalInv

\* There is no run, no manifest and no record at first.
LEMMA ContextStarts == ContextInit => ContextInv
<1> SUFFICES ASSUME ContextInit PROVE ContextInv
  OBVIOUS
<1>1. /\ run = NoRun /\ manifest = NoManifest /\ replica = <<>>
      /\ journal = [plans |-> 0, summaries |-> 0, reports |-> 0, redactions |-> 0, events |-> 0]
  BY DEF ContextInit
<1>2. RunInv
  BY <1>1, NoRunIs
<1>3. manifest = [version |-> 0, generation |-> 0, anchor |-> {}, items |-> <<>>]
  BY <1>1 DEF NoManifest
<1>4. DOMAIN <<>> = {} /\ <<>> = [k \in DOMAIN <<>> |-> <<>>[k]]
  OBVIOUS
<1>5. manifest.version = 0 /\ manifest.generation = 0 /\ manifest.items = <<>>
  BY <1>3
<1>6. ManifestInv
  BY <1>1, <1>3, <1>4, <1>5, Zenon DEF ManifestInv, ReplicaFollows
<1>7. JournalInv
  <2>1. run.phase = "idle"
    BY <1>1 DEF NoRun
  <2> QED
    BY <1>1, <1>5, <2>1 DEF JournalInv
<1> QED
  BY <1>2, <1>6, <1>7 DEF ContextInv

\* A shared entry is of an item whose record may be shown, with evidence behind a summary.
LEMMA EntriesAreShareable == RunInv => BundleIsShareable
<1> SUFFICES ASSUME RunInv, NEW e \in run.bundle
             PROVE  \E i \in DOMAIN run.kept :
                       LET item == run.kept[i]
                           record == RecordOf(run.input.items, e.of)
                       IN /\ item.id = e.of
                          /\ ~record.risky
                          /\ record.minimal => run.input.anchor.restricted
                          /\ item.declared = "P2" => record.pointer # "none"
                          /\ e.how = "summary" => item.pointer \notin {"none", "bad"}
  BY DEF BundleIsShareable
<1>1. PlanInv /\ FateInv /\ Active
  BY DEF RunInv, PlanInv
<1>2. PICK i \in DOMAIN run.kept : Shows(e, run.kept[i])
  BY <1>1 DEF FateInv
<1> DEFINE item == run.kept[i]
           record == RecordOf(run.input.items, e.of)
<1>3. ~Private(run.input.items, item, run.input.anchor.restricted)
  BY <1>1, ActiveKept
<1>4. item.id = e.of /\ (e.how = "summary" => item.pointer \notin {"none", "bad"})
  BY <1>2 DEF Shows
<1>5. record = RecordOf(run.input.items, item.id)
  BY <1>4
<1> HIDE DEF item, record
<1>6. /\ ~(item.declared = "P2" /\ record.pointer = "none") /\ ~record.risky
      /\ ~(record.minimal /\ ~run.input.anchor.restricted)
  BY <1>3, <1>5, Zenon DEF Private
<1>7. record.minimal => run.input.anchor.restricted
  BY <1>6, Zenon
<1> QED
  BY <1>4, <1>6, <1>7, Zenon DEF item, record

\* A dropped duplicate has a keeper.
LEMMA DuplicatesAreKept == RunInv => DuplicatesHaveAKeeper
<1> SUFFICES ASSUME RunInv, Planned PROVE DuplicatesHaveAKeeper
  BY DEF DuplicatesHaveAKeeper
<1>1. IsCall(run.input) /\ run.kept = Kept(run.input)
  BY DEF RunInv, PlanInv, Active, Planned
<1>2. ASSUME NEW i \in DOMAIN run.input.items
      PROVE  \E k \in DOMAIN run.input.items :
                /\ ContentIn(run.input.items, run.input.items[k]) = ContentIn(run.input.items, run.input.items[i])
                /\ run.input.items[k].score >= run.input.items[i].score
                /\ \/ run.input.items[k] \in ToSet(run.kept)
                   \/ [id |-> run.input.items[k].id, why |-> "privacy"] \in Redactions(run.input)
  BY <1>1, KeepersRemain
<1> QED
  BY <1>2, Zenon DEF DuplicatesHaveAKeeper

\* Reports follow plans, at rest and before.
LEMMA ReportsAreDue == JournalInv => ReportsFollowPlans
BY DEF JournalInv, ReportsFollowPlans

\* The items of an id in a delivered run have one fate at most, and as many as remained of them.
LEMMA FatesAreOne == RunInv => EveryItemOnce
<1> SUFFICES ASSUME RunInv, run.phase = "delivered", NEW n \in DOMAIN run.input.items
             PROVE  LET id == run.input.items[n].id
                        entries == {e \in run.bundle : e.of = id}
                        evicted == {k \in Named(run.kept, id) : run.actions[k] = "Evict"}
                        redacted(why) == {r \in Redactions(run.input) : r.id = id /\ r.why = why}
                        fates == Cardinality(entries) + Cardinality(evicted)
                                 + Cardinality(redacted("privacy"))
                    IN /\ fates <= 1
                       /\ redacted("dedup") # {} <=> fates < Cardinality(Named(run.input.items, id))
  BY DEF EveryItemOnce
<1> DEFINE x == run.input.items[n]
           kept == run.kept
           unique == Deduped(run.input.items)
           entries == {e \in run.bundle : e.of = x.id}
           evicted == {k \in Named(kept, x.id) : run.actions[k] = "Evict"}
           redacted(why) == {r \in Redactions(run.input) : r.id = x.id /\ r.why = why}
           private == redacted("privacy")
           shut(y) == Private(run.input.items, y, run.input.anchor.restricted)
           hidden == {u \in ToSet(unique) : shut(u)}
           fates == Cardinality(entries) + Cardinality(evicted) + Cardinality(private)
<1>1. PlanInv /\ FateInv /\ Active
  BY DEF RunInv, Active
<1>2. IsCall(run.input) /\ kept = Kept(run.input)
  BY <1>1 DEF PlanInv
<1>3. x \in ToSet(run.input.items)
  BY DEF ToSet
<1>4. /\ ToSet(kept) = {y \in ToSet(unique) : ~shut(y)}
      /\ \A i, j \in DOMAIN kept : kept[i].id = kept[j].id => i = j
      /\ \A a, b \in DOMAIN unique : unique[a].id = unique[b].id => a = b
  BY <1>2, KeptIs
<1>5. /\ DOMAIN kept = 1..Len(kept) /\ Len(kept) \in Nat
      /\ \A i \in DOMAIN kept : kept[i] \in ToSet(kept)
  BY <1>1, ActiveKept DEF ToSet
<1>6. /\ run.next = Len(kept) + 1
      /\ \A e \in run.bundle : \E i \in DOMAIN kept : e.of = kept[i].id
      /\ \A i \in DOMAIN kept : i < run.next =>
            IF run.actions[i] = "Evict" THEN EntriesOf(run.bundle, kept[i]) = {}
            ELSE \E e : EntriesOf(run.bundle, kept[i]) = {e}
  BY <1>1 DEF FateInv, Shows
<1>7. /\ (\E u \in hidden : u.id = x.id) => private = {[id |-> x.id, why |-> "privacy"]}
      /\ ~(\E u \in hidden : u.id = x.id) => private = {}
      /\ redacted("dedup") # {} <=> Cardinality(Named(unique, x.id)) < Cardinality(Named(run.input.items, x.id))
  BY <1>2, <1>3, RedactedIs
<1>8. Cardinality({}) = 0 /\ \A y : Cardinality({y}) = 1
  BY FS_EmptySet, FS_Singleton
<1> HIDE DEF x, kept, unique, redacted, shut
<1>9. \A i \in DOMAIN kept : \E a \in DOMAIN unique : unique[a] = kept[i] /\ ~shut(unique[a])
  <2>1. \A i \in DOMAIN kept : kept[i] \in ToSet(unique) /\ ~shut(kept[i])
    BY <1>4, <1>5
  <2> QED
    BY <2>1 DEF ToSet
<1>10. \A u \in hidden : \E a \in DOMAIN unique : unique[a] = u /\ shut(unique[a])
  BY DEF ToSet
<1> HIDE DEF hidden, private
<1>11. CASE \A i \in DOMAIN kept : kept[i].id # x.id
  <2>1. entries = {}
    BY <1>6, <1>11
  <2>2. evicted = {}
    BY <1>11 DEF Named
  <2> HIDE DEF entries, evicted
  <2>3. ASSUME \E u \in hidden : u.id = x.id
        PROVE  fates <= 1 /\ fates = Cardinality(Named(unique, x.id))
    <3>1. PICK u \in hidden : u.id = x.id
      BY <2>3
    <3>2. PICK a \in DOMAIN unique : unique[a] = u
      BY <1>10, <3>1
    <3>3. Named(unique, x.id) = {a}
      BY <1>4, <3>1, <3>2 DEF Named
    <3>4. Cardinality(private) = 1 /\ Cardinality(Named(unique, x.id)) = 1
      BY <1>7, <1>8, <2>3, <3>3
    <3> QED
      BY <1>8, <2>1, <2>2, <3>4
  <2>4. ASSUME ~\E u \in hidden : u.id = x.id
        PROVE  fates <= 1 /\ fates = Cardinality(Named(unique, x.id))
    <3>1. \A a \in DOMAIN unique : unique[a].id # x.id
      <4> SUFFICES ASSUME NEW a \in DOMAIN unique, unique[a].id = x.id PROVE FALSE
        OBVIOUS
      <4>1. unique[a] \in ToSet(unique)
        BY DEF ToSet
      <4>2. ~shut(unique[a])
        BY <2>4, <4>1 DEF hidden
      <4>3. unique[a] \in ToSet(kept)
        BY <1>4, <4>1, <4>2
      <4> QED
        BY <1>11, <4>3 DEF ToSet
    <3>2. Named(unique, x.id) = {}
      BY <3>1 DEF Named
    <3>3. Cardinality(private) = 0 /\ Cardinality(Named(unique, x.id)) = 0
      BY <1>7, <1>8, <2>4, <3>2
    <3> QED
      BY <1>8, <2>1, <2>2, <3>3
  <2>5. fates <= 1 /\ fates = Cardinality(Named(unique, x.id))
    BY <2>3, <2>4
  <2> QED
    BY <1>7, <2>5 DEF entries, evicted, private, redacted, x, kept
<1>12. CASE \E i \in DOMAIN kept : kept[i].id = x.id
  <2>1. PICK i \in DOMAIN kept : kept[i].id = x.id
    BY <1>12
  <2>2. Named(kept, x.id) = {i}
    BY <1>4, <2>1 DEF Named
  <2>3. PICK a \in DOMAIN unique : unique[a] = kept[i] /\ ~shut(unique[a])
    BY <1>9
  <2>4. Named(unique, x.id) = {a}
    BY <1>4, <2>1, <2>3 DEF Named
  <2>5. ~\E u \in hidden : u.id = x.id
    BY <1>4, <1>10, <2>1, <2>3
  <2>6. entries = EntriesOf(run.bundle, kept[i])
    BY <2>1 DEF EntriesOf
  <2>7. i < run.next
    BY <1>5, <1>6
  <2> HIDE DEF entries
  <2>8. Cardinality(private) = 0 /\ Cardinality(Named(unique, x.id)) = 1
    BY <1>7, <1>8, <2>4, <2>5
  <2>9. ASSUME run.actions[i] = "Evict"
        PROVE  fates <= 1 /\ fates = Cardinality(Named(unique, x.id))
    <3>1. evicted = {i}
      BY <2>2, <2>9
    <3>2. entries = {}
      BY <1>6, <2>6, <2>7, <2>9
    <3> HIDE DEF evicted
    <3>3. Cardinality(entries) = 0 /\ Cardinality(evicted) = 1
      BY <1>8, <3>1, <3>2
    <3> QED
      BY <2>8, <3>3
  <2>10. ASSUME run.actions[i] # "Evict"
        PROVE  fates <= 1 /\ fates = Cardinality(Named(unique, x.id))
    <3>1. evicted = {}
      BY <2>2, <2>10
    <3>2. PICK e : entries = {e}
      BY <1>6, <2>6, <2>7, <2>10
    <3> HIDE DEF evicted
    <3>3. Cardinality(entries) = 1 /\ Cardinality(evicted) = 0
      BY <1>8, <3>1, <3>2
    <3> QED
      BY <2>8, <3>3
  <2>11. fates <= 1 /\ fates = Cardinality(Named(unique, x.id))
    BY <2>9, <2>10
  <2> QED
    BY <1>7, <2>11 DEF entries, evicted, private, redacted, x, kept
<1> QED
  BY <1>11, <1>12

\* A sum taken through an injection is a part of the sum at the other end.
LEMMA SumInjected ==
    ASSUME NEW f, NEW R, NEW d, NEW S, NEW h \in [R -> S],
           \A x, y \in R : h[x] = h[y] => x = y,
           Summable(f, R), Summable(d, S), \A y \in S : d[y] >= 0,
           \A x \in R : f[x] = d[h[x]]
    PROVE  SumFunctionOnSet(f, R) <= SumFunctionOnSet(d, S)
<1> DEFINE at(r) == {h[x] : x \in r}
           T == {r \in SUBSET R : SumFunctionOnSet(f, r) = SumFunctionOnSet(d, at(r))}
<1>1. IsFiniteSet(R) /\ IsFiniteSet(S) /\ \A x \in R : f[x] \in Int /\ h[x] \in S
  BY DEF Summable
<1>2. {} \in T
  <2>1. at({}) = {}
    OBVIOUS
  <2>2. SumFunctionOnSet(f, {}) = 0 /\ SumFunctionOnSet(d, {}) = 0
    BY SumEmpty
  <2> QED
    BY <2>1, <2>2
<1>3. ASSUME NEW r \in SUBSET R, NEW x \in R \ r, r \in T PROVE r \cup {x} \in T
  <2>1. IsFiniteSet(r \cup {x}) /\ r \cup {x} \in SUBSET R
    BY <1>1, FS_Subset
  <2>2. Summable(f, r \cup {x}) /\ x \notin r
    BY <1>1, <2>1 DEF Summable
  <2>3. SumFunctionOnSet(f, r \cup {x}) = f[x] + SumFunctionOnSet(f, r)
    BY <2>2, SumAdd
  <2>4. at(r \cup {x}) = at(r) \cup {h[x]} /\ h[x] \notin at(r) /\ at(r) \cup {h[x]} \subseteq S
    BY <1>1
  <2>5. IsFiniteSet(at(r) \cup {h[x]})
    BY <1>1, <2>4, FS_Subset
  <2>6. Summable(d, at(r) \cup {h[x]})
    BY <2>4, <2>5 DEF Summable
  <2>7. SumFunctionOnSet(f, r) = SumFunctionOnSet(d, at(r))
    BY <1>3
  <2> HIDE DEF at
  <2>8. SumFunctionOnSet(d, at(r) \cup {h[x]}) = d[h[x]] + SumFunctionOnSet(d, at(r))
    BY <2>4, <2>6, SumAdd
  <2>9. SumFunctionOnSet(f, r \cup {x}) = SumFunctionOnSet(d, at(r \cup {x}))
    BY <2>3, <2>4, <2>7, <2>8, Zenon
  <2> QED
    BY <2>1, <2>9
<1>4. R \in T
  <2> HIDE DEF T
  <2> QED
    BY <1>1, <1>2, <1>3, SetsByAdding
<1>5. at(R) \in SUBSET S
  BY <1>1
<1>6. SumFunctionOnSet(f, R) = SumFunctionOnSet(d, at(R))
  BY <1>4
<1> HIDE DEF at
<1>7. SumFunctionOnSet(d, at(R)) <= SumFunctionOnSet(d, S)
  BY <1>5, SumPart
<1> QED
  BY <1>6, <1>7, Zenon

\* The sum of a function is the one over its domain.
LEMMA SumOfFunction ==
    ASSUME NEW f
    PROVE  SumFunction(f) = SumFunctionOnSet(f, DOMAIN f)
BY DEF SumFunction, FoldFunction, SumFunctionOnSet

\* The kept items have no more tokens than the items of the call.
LEMMA KeptTokens ==
    ASSUME NEW input, IsCall(input)
    PROVE  SumFunctionOnSet(TokensIn(Kept(input)), DOMAIN Kept(input)) <= SumFunction(TokensIn(input.items))
<1> DEFINE kept == Kept(input)
           items == input.items
           f == TokensIn(kept)
           d == TokensIn(items)
           of(i) == CHOOSE n \in DOMAIN items : items[n] = kept[i]
           h == [i \in DOMAIN kept |-> of(i)]
<1>1. /\ items \in Seq(ToSet(items)) /\ \A n \in DOMAIN items : items[n].tokens \in Nat
      /\ DOMAIN items = 1..Len(items) /\ Len(items) \in Nat
  BY LenProperties DEF IsCall, IsCandidate
<1>2. /\ DOMAIN kept = 1..Len(kept) /\ Len(kept) \in Nat
      /\ \A i, j \in DOMAIN kept : kept[i].id = kept[j].id => i = j
      /\ \A i \in DOMAIN kept : kept[i] \in ToSet(items)
  BY KeptAre
<1> HIDE DEF kept, items
<1>3. \A i \in DOMAIN kept : of(i) \in DOMAIN items /\ items[of(i)] = kept[i]
  <2> SUFFICES ASSUME NEW i \in DOMAIN kept PROVE of(i) \in DOMAIN items /\ items[of(i)] = kept[i]
    OBVIOUS
  <2>1. \E n \in DOMAIN items : items[n] = kept[i]
    BY <1>2 DEF ToSet
  <2> QED
    BY <2>1, Zenon
<1> HIDE DEF of
<1>4. h \in [DOMAIN kept -> DOMAIN items] /\ \A i \in DOMAIN kept : items[h[i]] = kept[i]
  BY <1>3
<1> HIDE DEF h
<1>5. \A i, j \in DOMAIN kept : h[i] = h[j] => i = j
  BY <1>2, <1>4
<1>6. /\ DOMAIN d = DOMAIN items /\ \A n \in DOMAIN items : d[n] = items[n].tokens
      /\ \A i \in DOMAIN kept : f[i] = kept[i].tokens
  BY DEF TokensIn
<1> HIDE DEF f, d
<1>7. \A i \in DOMAIN kept : h[i] \in DOMAIN items /\ f[i] = d[h[i]]
  BY <1>4, <1>6
<1>8. IsFiniteSet(DOMAIN kept) /\ IsFiniteSet(DOMAIN items)
  <2>1. IsFiniteSet(DOMAIN kept)
    BY <1>2, FS_Interval
  <2>2. IsFiniteSet(DOMAIN items)
    BY <1>1, FS_Interval
  <2> QED
    BY <2>1, <2>2
<1>9. Summable(d, DOMAIN items) /\ \A n \in DOMAIN items : d[n] >= 0
  BY <1>1, <1>6, <1>8 DEF Summable
<1>10. Summable(f, DOMAIN kept)
  BY <1>7, <1>8, <1>9 DEF Summable
<1>11. SumFunctionOnSet(f, DOMAIN kept) <= SumFunctionOnSet(d, DOMAIN items)
  BY <1>4, <1>5, <1>7, <1>9, <1>10, SumInjected
<1>12. SumFunctionOnSet(d, DOMAIN items) = SumFunction(d)
  BY <1>6, SumOfFunction
<1> QED
  BY <1>11, <1>12 DEF f, d, kept, items

\* A delivered run has the total of its bundle, and no more than what came in.
LEMMA TotalsAddUp == RunInv => TokensAddUp
<1> SUFFICES ASSUME RunInv, run.phase = "delivered" PROVE TokensAddUp
  BY DEF TokensAddUp
<1>1. PlanInv /\ FateInv /\ TotalInv /\ Active
  BY DEF RunInv, Active
<1>2. IsCall(run.input) /\ run.kept = Kept(run.input)
  BY <1>1 DEF PlanInv
<1>3. run.final = SumFunction(Sizes(run.bundle))
  <2>1. DOMAIN Sizes(run.bundle) = run.bundle
    BY DEF Sizes
  <2>2. run.final = SumFunctionOnSet(Sizes(run.bundle), run.bundle)
    BY <1>1 DEF TotalInv
  <2> QED
    BY <2>1, <2>2, SumOfFunction
<1>4. run.final <= SumFunction(TokensIn(run.input.items))
  <2>1. run.next = Len(run.kept) + 1 /\ DOMAIN run.kept = 1..Len(run.kept) /\ Len(run.kept) \in Nat
    BY <1>1, ActiveKept DEF FateInv
  <2>2. Passed(run.kept, run.next) = DOMAIN run.kept
    BY <2>1 DEF Passed
  <2>3. run.final <= SumFunctionOnSet(TokensIn(run.kept), DOMAIN run.kept)
    <3>1. run.final <= SumFunctionOnSet(TokensIn(run.kept), Passed(run.kept, run.next))
      BY <1>1 DEF TotalInv
    <3> QED
      BY <2>2, <3>1
  <2>4. SumFunctionOnSet(TokensIn(run.kept), DOMAIN run.kept) <= SumFunction(TokensIn(run.input.items))
    BY <1>2, KeptTokens
  <2>5. run.final \in Int
    <3>1. \A e \in run.bundle : e.tokens \in Int
      BY <1>1 DEF FateInv, IsEntry
    <3>2. Summable(Sizes(run.bundle), run.bundle)
      BY <1>1, <3>1 DEF TotalInv, Summable, Sizes
    <3> QED
      BY <1>1, <3>2, SumType DEF TotalInv
  <2>6. SumFunctionOnSet(TokensIn(run.kept), DOMAIN run.kept) \in Int
    <3>1. Summable(TokensIn(run.kept), DOMAIN run.kept)
      <4>1. Numbered(run.kept)
        BY <1>1, ActiveKept
      <4>2. IsFiniteSet(DOMAIN run.kept)
        BY <2>1, FS_Interval
      <4> QED
        BY <4>1, <4>2 DEF Numbered, Summable, TokensIn
    <3> QED
      BY <3>1, SumType
  <2>7. SumFunction(TokensIn(run.input.items)) \in Int
    <3> DEFINE items == run.input.items
    <3>1. items \in Seq(ToSet(items)) /\ \A n \in DOMAIN items : items[n].tokens \in Nat
      BY <1>2 DEF IsCall, IsCandidate
    <3> HIDE DEF items
    <3>2. IsFiniteSet(DOMAIN items) /\ DOMAIN TokensIn(items) = DOMAIN items
      BY <3>1, LenProperties, FS_Interval DEF TokensIn
    <3>3. Summable(TokensIn(items), DOMAIN items)
      BY <3>1, <3>2 DEF Summable, TokensIn
    <3>4. SumFunctionOnSet(TokensIn(items), DOMAIN items) \in Int
      BY <3>3, SumType
    <3> QED
      BY <3>2, <3>4, SumOfFunction DEF items
  <2> DEFINE a == SumFunctionOnSet(TokensIn(run.kept), DOMAIN run.kept)
             b == SumFunction(TokensIn(run.input.items))
  <2> HIDE DEF a, b
  <2> QED
    BY <2>3, <2>4, <2>5, <2>6, <2>7 DEF a, b
<1> QED
  BY <1>3, <1>4 DEF TokensAddUp, Sizes

\* A run that plans never takes a partition below its minimum; in a delivered
\* one the items of an id have at most one fate, the others are reported as
\* duplicates, nothing private shows and the totals add up; each content keeps
\* its best item; a reader of the patches has the manifest's entries as the
\* signature and the patches carry them, though types, factors and what is
\* superseded may be stale; and reports follow plans: for every list of calls,
\* their items with one id or many, their quotas in ratios or in tokens.
THEOREM ContextsHold == ContextSpec => []ContextIsLawful
<1>1. ContextInit => ContextInv
  BY ContextStarts
<1>2. ContextInv /\ [ContextNext]_contextVars => ContextInv'
  BY RunStep, DeliveryStep DEF ContextInv
<1>3. ContextInv => ContextIsLawful
  <2> SUFFICES ASSUME ContextInv PROVE ContextIsLawful
    OBVIOUS
  <2>1. RunInv /\ ManifestInv /\ JournalInv
    BY DEF ContextInv
  <2>2. MinimumIsKept /\ ReplicaFollows
    BY <2>1 DEF RunInv, ManifestInv
  <2>3. EveryItemOnce /\ BundleIsShareable /\ DuplicatesHaveAKeeper /\ TokensAddUp /\ ReportsFollowPlans
    BY <2>1, FatesAreOne, EntriesAreShareable, DuplicatesAreKept, TotalsAddUp, ReportsAreDue
  <2> QED
    BY <2>2, <2>3 DEF ContextIsLawful
<1> QED
  BY <1>1, <1>2, <1>3, PTL DEF ContextSpec

-----------------------------------------------------------------------------
(* All that is kept                                                         *)

\* Under the steps of all three, whatever the calls, documents and events: bundles that
\* keep their minimum, give no id two fates and reach their reader, indexes that answer
\* for what they hold, chains that are sound, and events that convert.
THEOREM ContentsHold == ContentsSpec => []ContentIsKept
<1>1. ContextIsLawful /\ PostingsAreStored /\ ChainsAreSound /\ EventsConvert => ContentIsKept
  BY DEF ContentIsKept
<1>2. ContextSpec => []ContextIsLawful
  BY ContextsHold
<1>3. IndexSpec => []PostingsAreStored /\ []ChainsAreSound
  BY PostingsHold, ChainsHold
<1>4. ConvertSpec \/ NoteSpec => []EventsConvert
  BY ConversionsHold, SnapshotsHold
<1> QED
  BY <1>1, <1>2, <1>3, <1>4, PTL DEF ContentsSpec

=============================================================================
