--------------------------- MODULE StateProjection ---------------------------
(***************************************************************************)
(* How one observed object becomes the input of a module                   *)
(* (go/internal/adopt/state_project.go, generated_config_schema.go).       *)
(*                                                                         *)
(* A state maps concrete paths to values; a nested block has a path of its *)
(* own, and so has each member of a repeated one.  Attributes are leaves.  *)
(* A value is a record of what it says and where it comes from, so that a  *)
(* property can ask which state paths reached the output; the code sees    *)
(* "says" only.                                                            *)
(***************************************************************************)
EXTENDS DriftPolicy

CONSTANT
    Schema   \* Schema[names]: kind, class, declared sensitive and type of a schema path

Collection(segment) == segment = "*" \/ segment \in Indices

\* A block has the class "computed" when nothing beneath it is an input.
ASSUME SchemaAssumption ==
    \A p \in DOMAIN Schema :
        /\ p \in Seq(STRING) /\ p # <<>> /\ \A k \in DOMAIN p : ~ Collection(p[k])
        /\ Schema[p].kind \in {"attribute", "single", "list"}
        /\ Schema[p].class \in {"required", "optional", "computed"}
        /\ Schema[p].sensitive \in BOOLEAN /\ Schema[p].type # Null
        /\ \A n \in 1..(Len(p) - 1) :
              /\ SubSeq(p, 1, n) \in DOMAIN Schema /\ Schema[SubSeq(p, 1, n)].kind # "attribute"
              /\ Schema[SubSeq(p, 1, n)].class = "computed" => Schema[p].class = "computed"

NamesOf(path) == SegmentsBut(path, {"*"} \cup Indices)
NodeAt(path) == Schema[NamesOf(path)]
IsBlock(path) == NodeAt(path).kind # "attribute"

\* A position that follows no name.
Stray(path) == \E k \in DOMAIN path : Collection(path[k]) /\ (k = 1 \/ Collection(path[k - 1]))

\* ProviderSchemaStatus.  One index may follow a block's name; an attribute here has
\* nothing beneath it.
ProviderSchemaStatus(path, requiredness) ==
    LET names == NamesOf(path)
        computed == \E n \in 1..Len(names) : SubSeq(names, 1, n) \in DOMAIN Schema
                                             /\ Schema[SubSeq(names, 1, n)].class = "computed"
    IN  IF Stray(path) THEN "unknown"
        ELSE IF computed THEN "computed_only"
        ELSE IF names \notin DOMAIN Schema THEN "unknown"
        ELSE IF Schema[names].kind = "attribute"
             THEN IF Collection(Last(path)) THEN "unknown" ELSE Schema[names].class
        ELSE IF requiredness /\ ~ Collection(Last(path)) THEN Schema[names].class ELSE "block"

Writable(status) == status \in {"required", "optional"}

\* blockContainsSensitive, attributeSensitive.
DeclaredSensitive(names) ==
    \E p \in DOMAIN Schema : IsPrefix(names, p) /\ Schema[p].kind = "attribute" /\ Schema[p].sensitive

-----------------------------------------------------------------------------
(* The schema projection *)

\* ValidateSensitiveMaskShape: a mark belongs to a value that is there.
ValidMask(mask, state) == mask \subseteq DOMAIN state \cup {<<>>}

\* anySensitive at a path, or a mark that covers it.
MaskedAt(mask, path) == \E q \in mask : IsPrefix(q, path) \/ IsPrefix(path, q)
CoveredBy(mask, path) == \E q \in mask : IsPrefix(q, path)

\* Only the names of attributes and blocks are offered to the omissions.
OmitMatch(omits, path) == IF Collection(Last(path)) THEN 0 ELSE OmissionPosition(omits, path)
OmittedBy(omits, path) == {OmitMatch(omits, q) : q \in Prefixes(path) \ {<<>>}} \ {0}

\* The instances of blocks that the projection enters: the object itself, a single
\* block, each member of a repeated one.
Instances(state, omits) ==
    {<<>>} \cup {p \in DOMAIN state :
        /\ IsBlock(p) /\ NodeAt(p).class # "computed"
        /\ OmittedBy(omits, p) = {}
        /\ NodeAt(p).kind = "list" => Last(p) \in Indices}
ChildrenOf(instance) ==
    {Append(instance, Last(p)) : p \in {q \in DOMAIN Schema : Front(q) = NamesOf(instance)}}

\* classifiedAttributes and TerraformInputBlockTypes: computed-only nodes are not inputs.
InputsOf(instance) == {c \in ChildrenOf(instance) : NodeAt(c).class # "computed"}

\* The state of one object, as Terraform shows it under the schema.
StateFits(state) ==
    \A p \in DOMAIN state :
        /\ p \in Seq(STRING) /\ p # <<>> /\ "*" \notin Range(p) /\ ~ Stray(p)
        /\ NamesOf(p) \in DOMAIN Schema
        /\ IF Collection(Last(p)) THEN IsBlock(p) ELSE p \in ChildrenOf(Front(p))
        /\ Len(p) > 1 => /\ Front(p) \in DOMAIN state /\ IsBlock(Front(p))
                         /\ NodeAt(Front(p)).kind = "list" /\ ~ Collection(Last(p)) => Last(Front(p)) \in Indices
        /\ state[p].from = p /\ p # <<"raw">>
EntriesFit(entries) == entries \in Seq(Range(entries)) /\ \A i \in DOMAIN entries : entries[i].path \in Seq(STRING)
RawFits(raw) == raw # Null => \A f \in DOMAIN raw : raw[f].from = <<"raw">>
PresentIn(state, path) == path \in DOMAIN state /\ state[path].says # "null"

\* The conditions under which projectProviderBlock refuses the object.
ProjectionRefused(state, mask, omits) ==
    \/ <<>> \in mask
    \/ \E instance \in Instances(state, omits) :
          \/ CoveredBy(mask, instance)
          \/ \E c \in InputsOf(instance) :
                IF OmitMatch(omits, c) # 0 THEN NodeAt(c).class = "required"
                ELSE \/ ~ IsBlock(c) /\ MaskedAt(mask, c)
                     \/ IsBlock(c) /\ CoveredBy(mask, c) /\ PresentIn(state, c)
                     \/ NodeAt(c).class = "required" /\ ~ PresentIn(state, c)

\* What it copies: the present inputs that no entry omits, and nothing computed.
ProjectProviderBlock(state, omits) ==
    LET entered == Instances(state, omits)
        copied == {p \in DOMAIN state :
            IF Collection(Last(p)) THEN p \in entered
            ELSE /\ Front(p) \in entered /\ NodeAt(p).class # "computed"
                 /\ OmitMatch(omits, p) = 0 /\ PresentIn(state, p)}
    IN  [p \in copied |-> state[p]]

\* The entries the projection consulted: the first that matches each input it saw.
OmitsUsed(state, omits) ==
    {omits[OmitMatch(omits, c)] :
        c \in {d \in UNION {InputsOf(i) : i \in Instances(state, omits)} : OmitMatch(omits, d) # 0}}

-----------------------------------------------------------------------------
(* The policy's steps: each takes and returns an outcome *)

Outcome(output, matched) == [output |-> output, matched |-> matched, failed |-> FALSE]
Refuse(outcome) == [outcome EXCEPT !.failed = TRUE]
AbsentOrEmpty(output, path) == path \notin DOMAIN output \/ output[path].says = "empty"

\* setProjectionPath makes the single blocks on the way.
SetPath(output, path, value) ==
    [p \in DOMAIN output \cup (Prefixes(path) \ {<<>>}) |->
        IF p = path THEN value
        ELSE IF p \in DOMAIN output THEN output[p] ELSE [says |-> "block", from |-> <<>>]]

\* guardProjectionSyncPath: nothing repeated on the way; an attribute is a leaf.
SyncPathAllowed(path) ==
    \A n \in 1..(Len(path) - 1) :
        SubSeq(path, 1, n) \in DOMAIN Schema => Schema[SubSeq(path, 1, n)].kind # "list"
TypeAt(path) == IF path \in DOMAIN Schema /\ Schema[path].kind = "attribute" THEN Schema[path].type ELSE Null

\* Mutant: any source that the output lacks is read from the state, an omitted one too.
SourceFromState(state, mask, source) ==
    IF DeclaredSensitive(SubSeq(source, 1, 1)) \/ MaskedAt(mask, source) THEN "refused"
    ELSE IF source \in DOMAIN state THEN "state" ELSE "none"

\* Where a source that the output lacks may come from: a computed top-level
\* attribute of the state, unless it is sensitive; an input never.
ComputedSyncSource(state, mask, source) ==
    LET first == SubSeq(source, 1, 1)
    IN  IF first \notin DOMAIN Schema \/ Schema[first].class # "computed" \/ IsBlock(first) THEN "none"
        ELSE IF DeclaredSensitive(first) \/ MaskedAt(mask, source) THEN "refused"
        ELSE IF source \in DOMAIN state THEN "state" ELSE "none"

\* The value to be copied: of the output, of the state, or none.
SyncValue(origin, output, state, source) ==
    CASE origin = "output" -> output[source]
      [] origin = "state"  -> state[source]
      [] OTHER             -> [says |-> "null", from |-> <<>>]
SyncFrom(outcome, e, state, origin) ==
    LET value == SyncValue(origin, outcome.output, state, e.source)
    IN  IF origin = "refused" THEN Refuse(outcome)
        ELSE IF value.says \in {"null", "empty"} THEN outcome
        ELSE Outcome(SetPath(outcome.output, e.path, value), outcome.matched \cup {e})
SyncOne(outcome, e, state, mask) ==
    IF outcome.failed THEN outcome
    ELSE IF \/ ~ Writable(ProviderSchemaStatus(e.path, FALSE))
            \/ ~ SyncPathAllowed(e.path) \/ ~ SyncPathAllowed(e.source)
            \/ TypeAt(e.path) # TypeAt(e.source)
         THEN Refuse(outcome)
    ELSE IF ~ AbsentOrEmpty(outcome.output, e.path) THEN outcome
    ELSE SyncFrom(outcome, e, state,
             IF e.source \in DOMAIN outcome.output THEN "output" ELSE ComputedSyncSource(state, mask, e.source))

\* ProjectionFillValue: refused for a target that may not be written or is declared
\* sensitive; else the raw field, Null for none.
FillRefused(e) == ~ Writable(ProviderSchemaStatus(e.path, TRUE)) \/ DeclaredSensitive(e.path)
ProjectionFillValue(e, raw) ==
    IF e.source \notin DOMAIN raw \/ raw[e.source].says \in {"null", "empty"} THEN Null
    ELSE raw[e.source]

FillOne(outcome, e, raw) ==
    LET value == ProjectionFillValue(e, raw)
    IN  IF outcome.failed THEN outcome
        ELSE IF raw = Null THEN Refuse(outcome)
        ELSE IF e.path \in DOMAIN outcome.output THEN outcome
        ELSE IF FillRefused(e) THEN Refuse(outcome)
        ELSE IF value = Null THEN outcome
        ELSE Outcome(SetPath(outcome.output, e.path, value), outcome.matched \cup {e})

\* removeMatchingLeaves, with or without regard to positions.
WithoutLeaves(output, selector, values, anyPosition) ==
    [p \in {q \in DOMAIN output :
              ~ (/\ ~ IsBlock(q) /\ output[q].says \in values
                 /\ SelectorMatches(selector, IF anyPosition THEN WithoutIndices(q) ELSE q))}
        |-> output[p]]

\* applyPackDropIfDefault: the pack's own defaults, for optional paths only.
DropOne(outcome, d) ==
    IF outcome.failed THEN outcome
    ELSE IF ProviderSchemaStatus(d.path, FALSE) # "optional" THEN Refuse(outcome)
    ELSE [outcome EXCEPT !.output = WithoutLeaves(@, d.path, d.values, TRUE)]

LeavingOut(outcome, e, left) ==
    Outcome(left, outcome.matched \cup (IF left = outcome.output THEN {} ELSE {e}))
OmitIfOne(outcome, e) ==
    IF outcome.failed THEN outcome
    ELSE IF ProviderSchemaStatus(e.path, FALSE) = "required" THEN Refuse(outcome)
    ELSE LeavingOut(outcome, e, WithoutLeaves(outcome.output, e.path, e.values, FALSE))

\* The entries of one mode, in their order.
PolicyStep(mode, outcome, e, state, mask, raw) ==
    CASE mode = "projection_sync"      -> SyncOne(outcome, e, state, mask)
      [] mode = "projection_fill"      -> FillOne(outcome, e, raw)
      [] mode = "pack_drop_if_default" -> DropOne(outcome, e)
      [] OTHER                         -> OmitIfOne(outcome, e)
AfterEach(mode, outcome, entries, state, mask, raw) ==
    LET after[n \in 0..Len(entries)] ==
            IF n = 0 THEN outcome ELSE PolicyStep(mode, after[n - 1], entries[n], state, mask, raw)
    IN  after[Len(entries)]

\* ProjectProviderState: the projection, then the syncs, the fills, the pack's defaults
\* and the conditional omissions.
AfterPolicy(outcome, policy, defaults, state, mask, raw) ==
    LET synced  == AfterEach("projection_sync", outcome, policy["projection_sync"], state, mask, raw)
        filled  == AfterEach("projection_fill", synced, policy["projection_fill"], state, mask, raw)
        dropped == AfterEach("pack_drop_if_default", filled, defaults, state, mask, raw)
    IN  AfterEach("projection_omit_if", dropped, policy["projection_omit_if"], state, mask, raw)
ProjectProviderState(state, mask, policy, raw, defaults) ==
    LET omits == policy["projection_omit"]
    IN  IF ~ ValidMask(mask, state) \/ ProjectionRefused(state, mask, omits) THEN Refuse(Outcome(<<>>, {}))
        ELSE AfterPolicy(Outcome(ProjectProviderBlock(state, omits), OmitsUsed(state, omits)),
                         policy, defaults, state, mask, raw)
=============================================================================
