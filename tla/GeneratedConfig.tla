--------------------------- MODULE GeneratedConfig ---------------------------
(***************************************************************************)
(* The correction of the configuration that Terraform generated for an     *)
(* import (go/internal/adopt/generated_config_policy.go): missing fields   *)
(* filled from raw items, then the lines that policy omits removed.        *)
(*                                                                         *)
(* The text is a sequence of resource blocks [address, lines]; lines maps  *)
(* the path of each line to its value.  The line that opens a nested block *)
(* ends in the position of the block, a block that is not repeated too.  A *)
(* value is "known" when it is one literal on one line, so it is not for a *)
(* block's line.  Closing braces, heredocs and strings only decide where a *)
(* line ends and are left out, and what is filled in is an attribute.      *)
(***************************************************************************)
EXTENDS StateProjection

\* generatedPolicyEntriesFor: Null when an entry may not be applied at all.
PolicyOmits(mode, entries) ==
    [i \in DOMAIN entries |-> [mode |-> mode, path |-> entries[i].path, values |-> entries[i].values,
                               entry |-> entries[i]]]
DefaultOmits(defaults) ==
    [i \in DOMAIN defaults |-> [mode |-> "pack_drop_if_default", path |-> defaults[i].path,
                                values |-> defaults[i].values, entry |-> Null]]

MayOmit(mode, status) == IF mode = "pack_drop_if_default" THEN status = "optional" ELSE status # "required"
Applicable(entries) ==
    IF \E i \in DOMAIN entries : ~ MayOmit(entries[i].mode, ProviderSchemaStatus(entries[i].path, FALSE)) THEN Null
    ELSE SelectSeq(entries, LAMBDA o : ~ HasExactIndex(o.path))
GeneratedOmits(policy, defaults) ==
    Applicable(PolicyOmits("projection_omit", policy["projection_omit"])
               \o DefaultOmits(defaults)
               \o PolicyOmits("projection_omit_if", policy["projection_omit_if"]))

\* matchGeneratedOmit: the first entry whose selector and condition fit a line; a
\* selector that fits a line which is not optional refuses the text.
SelectsLine(o, path) ==
    SelectorMatches(o.path, IF o.mode = "pack_drop_if_default" THEN WithoutIndices(path) ELSE path)
ConditionHolds(o, value) == o.mode = "projection_omit" \/ value.says \in o.values

LineOmit(omits, path, value) ==
    LET fits == {i \in DOMAIN omits : SelectsLine(omits[i], path) /\ ConditionHolds(omits[i], value)}
    IN  IF ~ value.known \/ fits = {} THEN 0 ELSE Min(fits)
LineRefused(omits, path, value) ==
    /\ value.known
    /\ \E i \in DOMAIN omits :
          /\ SelectsLine(omits[i], path) /\ ProviderSchemaStatus(omits[i].path, FALSE) # "optional"
          /\ \A j \in 1..(i - 1) : ~ (SelectsLine(omits[j], path) /\ ConditionHolds(omits[j], value))

\* matchGeneratedBlockOmit: a block is dropped whole, by an unconditional entry for
\* the name of the block.
BlockFits(omits, block) ==
    {i \in DOMAIN omits : omits[i].mode = "projection_omit" /\ SelectorMatches(omits[i].path, Front(block))}
BlockOmit(omits, block) == IF BlockFits(omits, block) = {} THEN 0 ELSE Min(BlockFits(omits, block))

\* The blocks a line opens or lies in, by their paths with a position.
BlocksAround(path) == {b \in Prefixes(path) \ {<<>>} : Last(b) \in Indices}
Dropped(omits, path) == \E b \in BlocksAround(path) : BlockOmit(omits, b) # 0

\* One resource block in the pass of the omissions.
OmitLines(lines, omits) ==
    [p \in {q \in DOMAIN lines : ~ Dropped(omits, q) /\ LineOmit(omits, q, lines[q]) = 0} |-> lines[p]]
OmitRefused(lines, omits) ==
    \E p \in DOMAIN lines :
        \/ ~ Dropped(omits, p) /\ LineRefused(omits, p, lines[p])
        \/ \E b \in BlocksAround(p) :
              /\ \A c \in BlocksAround(p) : Len(c) < Len(b) => BlockOmit(omits, c) = 0
              /\ BlockOmit(omits, b) # 0
              /\ ProviderSchemaStatus(omits[BlockOmit(omits, b)].path, TRUE) # "optional"
OmitsThatDropped(lines, omits) ==
    {omits[LineOmit(omits, p, lines[p])] : p \in {q \in DOMAIN lines : ~ Dropped(omits, q) /\ LineOmit(omits, q, lines[q]) # 0}}
    \cup UNION {{omits[BlockOmit(omits, b)] : b \in {c \in BlocksAround(p) :
                    /\ BlockOmit(omits, c) # 0
                    /\ \A d \in BlocksAround(p) : Len(d) < Len(c) => BlockOmit(omits, d) = 0}} : p \in DOMAIN lines}

\* fillGeneratedResource: at the closing brace, each target that no line or block of
\* the resource names.
FillLine(outcome, e, raw) ==
    LET value == ProjectionFillValue(e, raw)
        present == \E p \in DOMAIN outcome.output : p[1] = e.path[1]
    IN  IF outcome.failed \/ present THEN outcome
        ELSE IF FillRefused(e) THEN Refuse(outcome)
        ELSE IF value = Null THEN outcome
        ELSE Outcome([p \in DOMAIN outcome.output \cup {e.path} |->
                        IF p = e.path THEN value ELSE outcome.output[p]], outcome.matched \cup {e})
FillLines(lines, fills, raw) ==
    FoldLeft(LAMBDA o, e : FillLine(o, e, raw), Outcome(lines, {}), fills)

\* rewriteGeneratedConfig asks for exactly the expected resource blocks.
ExactBlocks(text, keyOf) ==
    /\ \A i, j \in DOMAIN text : i # j => text[i].address # text[j].address
    /\ {text[i].address : i \in DOMAIN text} = DOMAIN keyOf

NotRewritten == [text |-> Null, matched |-> {}, failed |-> TRUE]

FilledText(text, filled) ==
    IF \E i \in DOMAIN text : filled[i].failed THEN NotRewritten
    ELSE [text |-> [i \in DOMAIN text |-> [text[i] EXCEPT !.lines = filled[i].output]],
          matched |-> UNION {filled[i].matched : i \in DOMAIN text}, failed |-> FALSE]
FillPass(text, fills, keyOf, rawItems) ==
    IF ~ ExactBlocks(text, keyOf) \/ \E i \in DOMAIN text : keyOf[text[i].address] \notin DOMAIN rawItems
    THEN NotRewritten
    ELSE FilledText(text, [i \in DOMAIN text |-> FillLines(text[i].lines, fills, rawItems[keyOf[text[i].address]])])

OmitPass(text, omits, keyOf) ==
    IF ~ ExactBlocks(text, keyOf) \/ \E i \in DOMAIN text : OmitRefused(text[i].lines, omits)
    THEN NotRewritten
    ELSE [text |-> [i \in DOMAIN text |-> [text[i] EXCEPT !.lines = OmitLines(@, omits)]],
          matched |-> {o.entry : o \in UNION {OmitsThatDropped(text[i].lines, omits) : i \in DOMAIN text}} \ {Null},
          failed |-> FALSE]

After(first, next) ==
    IF next.failed THEN next ELSE [next EXCEPT !.matched = @ \cup first.matched]
\* Mutant: a text that was filled is not corrected further.
FilledIsDone(filled, omits, keyOf) ==
    IF filled.failed \/ omits = <<>> \/ filled.matched # {} THEN filled
    ELSE After(filled, OmitPass(filled.text, omits, keyOf))
OmitAfter(filled, omits, keyOf) ==
    IF filled.failed \/ omits = <<>> THEN filled
    ELSE After(filled, OmitPass(filled.text, omits, keyOf))

\* ApplyGeneratedConfigPolicies for one resource type: all that is filled is filled
\* before anything is omitted.
RewrittenText(text, fills, omits, keyOf, rawItems) ==
    LET asRead == [text |-> text, matched |-> {}, failed |-> FALSE]
    IN  IF omits = Null \/ (fills # <<>> /\ rawItems = Null) THEN NotRewritten
        ELSE IF fills = <<>> /\ omits = <<>> THEN asRead
        ELSE IF text = <<>> THEN NotRewritten
        ELSE OmitAfter(IF fills = <<>> THEN asRead ELSE FillPass(text, fills, keyOf, rawItems), omits, keyOf)
ApplyGeneratedConfigPolicies(text, policy, defaults, keyOf, rawItems) ==
    RewrittenText(text, policy["projection_fill"], GeneratedOmits(policy, defaults), keyOf, rawItems)

-----------------------------------------------------------------------------
(* What a policy promises *)

\* No secret is written: a leaf of the output comes neither from a masked path nor, from the
\* raw item, to a target that the schema declares sensitive, nor from a computed secret.
NoSecretIsWritten(output, mask) ==
    \A p \in {q \in DOMAIN output : ~ IsBlock(q)} :
        LET from == output[p].from
        IN  IF from = <<"raw">> THEN ~ NodeAt(p).sensitive
            ELSE ~ MaskedAt(mask, from) /\ ~ (NodeAt(from).class = "computed" /\ NodeAt(from).sensitive)

\* What an entry omits stays out, also by way of a sync from it; what is required stays.
OmittedStayOut(output, state, omits) ==
    \A p \in DOMAIN output :
        LET from == output[p].from
        IN  from \in DOMAIN state /\ NodeAt(from).class # "computed" => OmittedBy(omits, from) = {}
RequiredAreKept(output, state, omits) ==
    \A i \in Instances(state, omits) : \A c \in ChildrenOf(i) :
        NodeAt(c).class = "required" => c \in DOMAIN output

\* The text that is corrected: no known line that an unconditional entry fits is left, also
\* none that was filled in, and nothing required is lost but with its block.
TextIsCorrected(text, got, policy) ==
    LET omits == PolicyOmits("projection_omit", SelectSeq(policy["projection_omit"], LAMBDA e : ~ HasExactIndex(e.path)))
    IN  \A i \in DOMAIN got.text :
            /\ \A p \in DOMAIN got.text[i].lines :
                  got.text[i].lines[p].known => LineOmit(omits, p, got.text[i].lines[p]) = 0 /\ ~ Dropped(omits, p)
            /\ \A p \in DOMAIN text[i].lines :
                  NodeAt(p).class = "required" /\ ~ Dropped(omits, p) => p \in DOMAIN got.text[i].lines

\* What some values say at a path: a null line says what no line does.
SaysAt(values, path) == IF path \in DOMAIN values THEN values[path].says ELSE "null"
\* The fills whose target the text sets to null: its line stands, and the text is not filled.
FillsOverNull(text, policy) ==
    {e.path : e \in {f \in Range(policy["projection_fill"]) :
                        f.path \in DOMAIN text[1].lines /\ text[1].lines[f.path].says = "null"}}
\* What Terraform plans with and what is committed agree: without a sync, which the text
\* does not know, the attributes of both say the same.  Where a fill meets a null line they do
\* not: the text keeps the null, the object has what the raw item says.  The text is one of
\* literals for this object and state.
AgreesWithText(projected, text, got, policy) ==
    LET lines == got.text[1].lines
        over == FillsOverNull(text, policy)
        attributes == {p \in DOMAIN lines \cup DOMAIN projected.output : Len(p) = 1 /\ ~ IsBlock(p)}
    IN  /\ \A p \in attributes \ over : SaysAt(lines, p) = SaysAt(projected.output, p)
        /\ \A p \in over : SaysAt(lines, p) = "null"

\* What becomes of an object: the three above.
ObjectIsSafe(output, state, mask, omits) ==
    NoSecretIsWritten(output, mask) /\ OmittedStayOut(output, state, omits) /\ RequiredAreKept(output, state, omits)

\* The compiled index finds the tolerance that a reader of the document would, the first
\* that matches, as an omission is found (compilePlanTolerances).
TolerancesReadInOrder(entries, path) == TolerancePosition(entries, path) = OmissionPosition(entries, path)

\* The policy of one type, that made "projected" of a state, is safe to run: the object is
\* safe, an entry that is reported as stale has no effect on it (so an operator may delete
\* it), and tolerances are found as they read (ProjectProviderState, StaleEntries).
PolicyIsSafe(state, mask, policy, raw, defaults, projected) ==
    /\ ~ projected.failed =>
          /\ ObjectIsSafe(projected.output, state, mask, policy["projection_omit"])
          /\ ProjectProviderState(state, mask, UsedEntries(policy, projected.matched), raw, defaults) = projected
    /\ \A path \in DOMAIN state : TolerancesReadInOrder(policy["plan_tolerate"], path)
=============================================================================
