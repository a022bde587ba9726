----------------------------- MODULE DriftPolicy -----------------------------
(***************************************************************************)
(* Drift policies (go/internal/metadata/driftpolicy.go,                    *)
(* go/internal/adopt/policy.go): their selectors, what a document must     *)
(* satisfy, how a plan path finds the entry that tolerates it, how the     *)
(* packs' documents and the operator's become one, and which entries are   *)
(* stale.                                                                  *)
(*                                                                         *)
(* A path is a sequence of segments; the members of Indices are list       *)
(* positions, the others names.  In a selector "*" stands for any          *)
(* position.  The policy of one resource type maps each mode to a sequence *)
(* of entries.                                                             *)
(***************************************************************************)
EXTENDS Integers, Sequences, FiniteSets, SequencesExt, FiniteSetsExt, Absent

CONSTANTS
    Indices,         \* the segments that are positions
    MaxWildcards     \* the per-type limit of wildcard tolerances

ASSUME WildcardsAssumption == MaxWildcards \in Nat

PolicyModes == {"projection_omit", "projection_sync", "projection_fill", "projection_omit_if", "plan_tolerate"}

\* text is the spelling of the path: two spellings of one path are two entries.
Entry(text, path, source, values) == [text |-> text, path |-> path, source |-> source, values |-> values]
EmptyPolicy == [m \in PolicyModes |-> <<>>]

SelectorMatches(selector, path) ==
    /\ Len(selector) = Len(path)
    /\ \A k \in DOMAIN path :
          IF selector[k] = "*" THEN path[k] \in Indices ELSE selector[k] = path[k]

HasWildcard(selector) == "*" \in Range(selector)
HasExactIndex(selector) == Range(selector) \cap Indices # {}
Positionless(selector) == ~ HasWildcard(selector) /\ ~ HasExactIndex(selector)

\* The n-th smallest of some positions, and what a sequence has at them.
Nth(positions, n) == CHOOSE k \in positions : Cardinality({j \in positions : j < k}) = n - 1
Picked(s, positions) == [n \in 1..Cardinality(positions) |-> s[Nth(positions, n)]]

\* The segments of a path that are not among others, in their order.
KeptIn(path, others) == {k \in DOMAIN path : path[k] \notin others}
SegmentsBut(path, others) == Picked(path, KeptIn(path, others))
WithoutIndices(path) == SegmentsBut(path, Indices)

-----------------------------------------------------------------------------
(* Documents *)

ValidEntry(mode, e) ==
    CASE mode = "projection_sync"    -> e.path # e.source /\ Positionless(e.path) /\ Positionless(e.source)
      [] mode = "projection_fill"    -> Len(e.path) = 1 /\ Positionless(e.path)
                                     /\ Len(e.source) = 1 /\ Positionless(e.source)
      [] mode = "projection_omit_if" -> e.values # {}
      [] OTHER                       -> TRUE

\* Two entries of one scope are refused: the same spelling, and for a conditional
\* omission the same values.
SameScope(mode, e, f) == e.text = f.text /\ (mode = "projection_omit_if" => e.values = f.values)

ValidPolicy(policy) ==
    /\ \A mode \in PolicyModes : \A i \in DOMAIN policy[mode] :
          /\ ValidEntry(mode, policy[mode][i])
          /\ \A j \in 1..(i - 1) : ~ SameScope(mode, policy[mode][i], policy[mode][j])
    /\ \A i \in DOMAIN policy["projection_fill"], j \in DOMAIN policy["projection_omit"] :
          policy["projection_fill"][i].path # policy["projection_omit"][j].path
    /\ Cardinality({i \in DOMAIN policy["plan_tolerate"] : HasWildcard(policy["plan_tolerate"][i].path)})
          <= MaxWildcards

\* LoadAdoptPolicy: the packs' documents were validated when their manifests were loaded,
\* the operator's when it is read.  The packs' entries come in manifest order, the
\* operator's after them, and the merged document is validated again.
MergePolicies(documents) ==
    LET merged == [m \in PolicyModes |-> FlattenSeq([d \in DOMAIN documents |-> documents[d][m]])]
    IN  IF (\A d \in DOMAIN documents : ValidPolicy(documents[d])) /\ ValidPolicy(merged)
        THEN merged
        ELSE Null

-----------------------------------------------------------------------------
(* Tolerance *)

\* The compiled index: the first entry of each exact selector, and all the others
\* with a wildcard in the order of their declaration.
ExactTolerance(entries, path) ==
    {i \in DOMAIN entries : /\ ~ HasWildcard(entries[i].path) /\ entries[i].path = path
                            /\ \A j \in 1..(i - 1) : entries[j].path # entries[i].path}
WildcardTolerances(entries, path) ==
    {i \in DOMAIN entries : HasWildcard(entries[i].path) /\ SelectorMatches(entries[i].path, path)}

\* The entry that answers for an updated path, 0 for none.
TolerancePosition(entries, path) ==
    LET candidates == ExactTolerance(entries, path) \cup WildcardTolerances(entries, path)
    IN  IF candidates = {} THEN 0 ELSE Min(candidates)

\* The unconditional omission that answers for a path: the first that matches.
OmissionPosition(entries, path) ==
    LET candidates == {i \in DOMAIN entries : SelectorMatches(entries[i].path, path)}
    IN  IF candidates = {} THEN 0 ELSE Min(candidates)

StaleEntries(policy, matched) ==
    [m \in PolicyModes |-> Picked(policy[m], {i \in DOMAIN policy[m] : policy[m][i] \notin matched})]
UsedEntries(policy, matched) ==
    [m \in PolicyModes |-> Picked(policy[m], {i \in DOMAIN policy[m] : policy[m][i] \in matched})]
=============================================================================
