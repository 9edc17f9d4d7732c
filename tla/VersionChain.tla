------------------------------ MODULE VersionChain ------------------------------
(***************************************************************************)
(* SupersedesChainManager (graph/version_chain.rs): which version of an    *)
(* entity replaces which.  The calls are of one owner; nothing is ever     *)
(* removed, but an id may be given twice.                                  *)
(*                                                                         *)
(* Abstractions.  Times and descriptions are left out, and of a conflict   *)
(* its type and the version it names.  A chain is named by its number.     *)
(***************************************************************************)
EXTENDS Integers, Sequences, FiniteSets, SequencesExt

CONSTANTS
    Entities,
    MaxVersions   \* bound: versions registered

None == "none"

ASSUME VersionAssumption == MaxVersions \in Nat /\ None \notin Entities

VARIABLES
    entries,      \* SupersedesChainManager.entries
    chainIndex,   \* .chain_index: the entities of each chain, in order
    conflicts,    \* .conflicts, as a set
    reused        \* history: some id has been given twice

chainVars == <<entries, chainIndex, conflicts, reused>>

Known == DOMAIN entries
Registered == FoldLeft(LAMBDA sum, chain : sum + Len(chain), 0, chainIndex)

Entry(supersedes, version, chain) ==
    [supersedes |-> supersedes, supersededBy |-> None, version |-> version,
     chain |-> chain, current |-> TRUE]

With(E, e, entry) == [x \in DOMAIN E \cup {e} |-> IF x = e THEN entry ELSE E[x]]

ChainInit ==
    /\ entries = [e \in {} |-> 0]
    /\ chainIndex = <<>>
    /\ conflicts = {}
    /\ reused = FALSE

\* register_root_version does not look whether the id is known.
RegisterRoot(e) ==
    /\ Registered < MaxVersions
    /\ entries' = With(entries, e, Entry(None, 1, Len(chainIndex) + 1))
    /\ chainIndex' = Append(chainIndex, <<e>>)
    /\ reused' = (reused \/ e \in Known)
    /\ UNCHANGED conflicts

\* The code follows a pointer until it finds none, here over at most as many steps
\* as there are entries.
Further(walked, pointer) ==
    LET next == entries[Last(walked)][pointer] IN
    IF next = None THEN walked ELSE Append(walked, next)
Walk(e, pointer) ==
    LET walked[n \in 0..Cardinality(Known)] ==
            IF n = 0 THEN <<e>> ELSE Further(walked[n - 1], pointer)
    IN  walked[Cardinality(Known)]

Ancestors(e) == ToSet(Walk(e, "supersedes"))

\* Mutant: only the version that is replaced is looked at.
WouldCreateCycleDirectly(new, old) == new = old

WouldCreateCycle(new, old) == new \in Ancestors(old)

Conflict(type, id) == conflicts' = conflicts \cup {[type |-> type, id |-> id]}

\* create_new_version; an unknown predecessor is refused and not recorded.
CreateVersion(new, old) ==
    /\ old \in Known /\ Registered < MaxVersions
    /\ IF entries[old].supersededBy # None
       THEN Conflict("DuplicateSupersession", old) /\ UNCHANGED <<entries, chainIndex, reused>>
       ELSE IF WouldCreateCycle(new, old)
            THEN Conflict("CyclicReference", new) /\ UNCHANGED <<entries, chainIndex, reused>>
       ELSE /\ entries' = With([entries EXCEPT ![old].supersededBy = new, ![old].current = FALSE],
                               new, Entry(old, entries[old].version + 1, entries[old].chain))
            /\ chainIndex' = [chainIndex EXCEPT ![entries[old].chain] = Append(@, new)]
            /\ reused' = (reused \/ new \in Known)
            /\ UNCHANGED conflicts

Successors(e) == {x \in Known : entries[x].supersedes = e}
Missing == {e \in Known : {entries[e].supersedes, entries[e].supersededBy} \ (Known \cup {None}) # {}}

\* detect_conflicts
DetectConflicts ==
    /\ conflicts' = conflicts \cup {[type |-> "BrokenChain", id |-> e] : e \in Missing}
                              \cup {[type |-> "MultiHead", id |-> e] :
                                      e \in {x \in Known : Cardinality(Successors(x)) > 1}}
    /\ UNCHANGED <<entries, chainIndex, reused>>

ClearConflicts == conflicts' = {} /\ UNCHANGED <<entries, chainIndex, reused>>

ChainNext ==
    \/ \E e \in Entities : RegisterRoot(e) \/ \E old \in Entities : CreateVersion(e, old)
    \/ DetectConflicts \/ ClearConflicts

ChainSpec == ChainInit /\ [][ChainNext]_chainVars

-----------------------------------------------------------------------------
(* Queries                                                                  *)

\* find_root_version, find_current_version and get_version_history
RootOf(e)    == Last(Walk(e, "supersedes"))
CurrentOf(e) == Last(Walk(e, "supersededBy"))
HistoryOf(e) == Walk(RootOf(e), "supersededBy")

\* get_chain_summary: the entities of the chain, sorted by their version (stable)
ByVersion(sorted, e) ==
    InsertAt(sorted, 1 + Cardinality({n \in DOMAIN sorted :
                             entries[sorted[n]].version <= entries[e].version}), e)
VersionIds(e) ==
    LET chain == chainIndex[entries[e].chain]
        sorted[n \in 0..Len(chain)] == IF n = 0 THEN <<>> ELSE ByVersion(sorted[n - 1], chain[n])
    IN  sorted[Len(chain)]

-----------------------------------------------------------------------------
(* Property                                                                 *)

\* Whatever ids are given, twice or in a ring, the walks along a chain end (the
\* code has no other bound for them) and no pointer leads nowhere.  Where no id was
\* given twice every chain is one line: its versions are 1, 2, 3, the history of
\* any of them is the whole chain, and the last is the only current one.
VersionsFormChains ==
    /\ \A e \in Known :
          /\ entries[RootOf(e)].supersedes = None
          /\ entries[CurrentOf(e)].supersededBy = None
    /\ Missing = {}
    /\ ~reused => \A e \in Known :
          LET chain == chainIndex[entries[e].chain] IN
          /\ HistoryOf(e) = chain /\ VersionIds(e) = chain
          /\ \A n \in DOMAIN chain :
                /\ entries[chain[n]].version = n
                /\ entries[chain[n]].current = (chain[n] = CurrentOf(e))

=============================================================================
