---------------------------- MODULE ContextIndexes ----------------------------
(***************************************************************************)
(* soulseed-agi-context/src/index.rs: the sparse (inverted) index and the  *)
(* causal index.  The causal chain is a depth-bounded depth-first walk     *)
(* over hash sets, whose order is any order; it is one action per call of  *)
(* dfs_effects.  BM25's scores and the vector index are not modelled.      *)
(***************************************************************************)
EXTENDS Naturals, Sequences, FiniteSetsExt, SequencesExt, Functions, Retain

CONSTANTS
    Docs,        \* item ids
    DocTerms,    \* the token lists documents are added with
    DepthBounds, \* the max_depth of chain queries
    MaxIndexOps  \* bound: operations on the indexes

ASSUME IndexAssumption ==
    /\ IsFiniteSet(Docs) /\ DepthBounds \subseteq Nat
    /\ \A tokens \in DocTerms : tokens \in Seq(ToSet(tokens))

VARIABLES
    postings,   \* inverted_index: term -> Seq([doc, tf])
    frequency,  \* document_frequency
    total,      \* total_documents
    lengths,    \* document_lengths
    effects, causes,  \* causal_graph, reverse_graph: item -> set
    walk,       \* the last chain query: frames of dfs_effects, result
    indexOps

indexVars == <<postings, frequency, total, lengths, effects, causes, walk, indexOps>>

NoWalk == [start |-> "none", bound |-> 0, frames |-> <<>>, seen |-> <<>>]

IndexInit ==
    /\ postings = <<>> /\ frequency = <<>> /\ total = 0 /\ lengths = <<>>
    /\ effects = <<>> /\ causes = <<>>
    /\ walk = NoWalk
    /\ indexOps = 0

Lookup(f, k, default) == IF k \in DOMAIN f THEN f[k] ELSE default
Put(f, k, v) == [x \in DOMAIN f \cup {k} |-> IF x = k THEN v ELSE f[x]]

Operation == walk.frames = <<>> /\ indexOps < MaxIndexOps /\ indexOps' = indexOps + 1

-----------------------------------------------------------------------------
(* SparseIndex                                                              *)

Occurrences(tokens, term) == Cardinality({i \in DOMAIN tokens : tokens[i] = term})

\* add: appends, also for a document the index already has
AddDocument(doc, tokens) ==
    /\ Operation
    /\ LET terms == ToSet(tokens)
       IN /\ postings' = [t \in DOMAIN postings \cup terms |->
                            IF t \in terms
                            THEN Append(Lookup(postings, t, <<>>),
                                        [doc |-> doc, tf |-> Occurrences(tokens, t)])
                            ELSE postings[t]]
          /\ frequency' = [t \in DOMAIN frequency \cup terms |->
                             Lookup(frequency, t, 0) + IF t \in terms THEN 1 ELSE 0]
    /\ lengths' = Put(lengths, doc, Len(tokens))
    /\ total' = total + 1
    /\ walk' = NoWalk
    /\ UNCHANGED <<effects, causes>>

\* remove: every posting of the document, and its length
WithoutPostings(list, doc) == Retain(list, {p \in ToSet(list) : p.doc # doc})
WithoutFirst(list, doc) ==
    LET at == {i \in DOMAIN list : list[i].doc = doc}
    IN IF at = {} THEN list ELSE RemoveAt(list, Min(at))

Purge(list, doc) == WithoutPostings(list, doc)

RemoveDocument(doc) ==
    /\ Operation
    /\ postings' = [t \in DOMAIN postings |-> Purge(postings[t], doc)]
    /\ lengths' = Restrict(lengths, DOMAIN lengths \ {doc})
    /\ total' = IF doc \in DOMAIN lengths /\ total > 0 THEN total - 1 ELSE total
    /\ walk' = NoWalk
    /\ UNCHANGED <<frequency, effects, causes>>

-----------------------------------------------------------------------------
(* CausalIndex                                                              *)

AddCausalLink(cause, effect) ==
    /\ Operation
    /\ effects' = Put(effects, cause, Lookup(effects, cause, {}) \cup {effect})
    /\ causes'  = Put(causes, effect, Lookup(causes, effect, {}) \cup {cause})
    /\ walk' = NoWalk
    /\ UNCHANGED <<postings, frequency, total, lengths>>

RemoveNode(item) ==
    /\ Operation
    /\ effects' = [k \in DOMAIN effects \ {item} |-> effects[k] \ {item}]
    /\ causes'  = [k \in DOMAIN causes \ {item} |-> causes[k] \ {item}]
    /\ walk' = NoWalk
    /\ UNCHANGED <<postings, frequency, total, lengths>>

\* one frame of dfs_effects: the node's effects that are still to be visited
Frame(node, depth) == [depth |-> depth, todo |-> Lookup(effects, node, {})]

BeginChain(start, bound) ==
    /\ Operation
    /\ walk' = IF bound = 0 THEN [NoWalk EXCEPT !.start = start]
               ELSE [start |-> start, bound |-> bound, frames |-> <<Frame(start, 0)>>,
                     seen |-> <<start>>]
    /\ UNCHANGED <<postings, frequency, total, lengths, effects, causes>>

\* a call of dfs_effects: too deep or visited returns, else the node is taken
Enters(node, depth) == depth < walk.bound /\ node \notin ToSet(walk.seen)

WalkOn ==
    /\ walk.frames # <<>>
    /\ LET top == Last(walk.frames)
           below == Front(walk.frames)
       IN \/ /\ top.todo = {}
             /\ walk' = [walk EXCEPT !.frames = below]
          \/ \E node \in top.todo :
                LET rest == Append(below, [top EXCEPT !.todo = @ \ {node}])
                    depth == top.depth + 1
                IN walk' = IF Enters(node, depth)
                           THEN [walk EXCEPT !.frames = Append(rest, Frame(node, depth)),
                                             !.seen = Append(@, node)]
                           ELSE [walk EXCEPT !.frames = rest]
    /\ UNCHANGED <<postings, frequency, total, lengths, effects, causes, indexOps>>

SparseNext ==
    \E doc \in Docs : RemoveDocument(doc) \/ \E tokens \in DocTerms : AddDocument(doc, tokens)

CausalNext ==
    \/ \E a, b \in Docs : AddCausalLink(a, b)
    \/ \E a \in Docs : RemoveNode(a) \/ \E bound \in DepthBounds : BeginChain(a, bound)
    \/ WalkOn

IndexSpec == IndexInit /\ [][SparseNext \/ CausalNext]_indexVars

-----------------------------------------------------------------------------
(* Properties                                                               *)

\* What the inverted index names is a document the index still has, whatever
\* was added twice or removed between; the counts never fall below what is
\* stored.  (They may stay above it: a second add counts the document again,
\* and remove does not take a frequency back.)
PostingsAreStored ==
    /\ \A t \in DOMAIN postings : {p.doc : p \in ToSet(postings[t])} \subseteq DOMAIN lengths
    /\ \A t \in DOMAIN postings : Len(postings[t]) <= frequency[t]
    /\ Cardinality(DOMAIN lengths) <= total

EffectsOf(a) == Lookup(effects, a, {})

\* items reachable from a over at most n links
Within[n \in 0..Cardinality(Docs)] ==
    [a \in Docs |-> IF n = 0 THEN {a} ELSE {a} \cup UNION {Within[n - 1][b] : b \in EffectsOf(a)}]

Near(n) == IF n > Cardinality(Docs) THEN Cardinality(Docs) ELSE n

\* The two graphs stay each other's inverse, and a finished chain names no
\* item twice, nothing farther than its bound, and, when the bound is at least
\* the number of items, all the start leads to.  (Below that a short path may
\* be missed: an item is first met by a longer one and then not walked again.)
ChainsAreSound ==
    /\ \A a, b \in Docs : b \in EffectsOf(a) <=> a \in Lookup(causes, b, {})
    /\ walk.bound > 0 =>
         /\ IsInjective(walk.seen)
         /\ walk.frames = <<>> /\ walk.start \in Docs =>
              /\ ToSet(walk.seen) \subseteq Within[Near(walk.bound - 1)][walk.start]
              /\ walk.bound >= Cardinality(Docs) =>
                    ToSet(walk.seen) = Within[Cardinality(Docs)][walk.start]

=============================================================================
