----------------------------- MODULE LaneOptions -----------------------------
(***************************************************************************)
(* What the packs say of how one type is published                         *)
(* (go/internal/transformrun/runner.go): which sidecar it has, which       *)
(* fields of it refer to what, and where those fields cross a set block.   *)
(***************************************************************************)
EXTENDS Topology, ReferenceTokens

\* A field without a name field is no reference.
TransformReferenceSpecs(pack, type) ==
    LET merged == MergedReferences(pack)
        fields == IF type \in DOMAIN merged THEN merged[type] ELSE <<>>
    IN  [f \in {g \in DOMAIN fields : fields[g].nameField # Null} |->
            [segments |-> fields[f].segments, referent |-> fields[f].referent,
             space |-> IF fields[f].idField = Null THEN "id" ELSE fields[f].idField]]

\* The fields of other types that refer to this one.
InboundLookupReferences(pack, type) ==
    LET merged == MergedReferences(pack)
        referrers == {t \in DOMAIN merged \cap Types(pack) : t # type /\ GeneratedNonDerived(pack, t)}
    IN  UNION {{[nameField |-> merged[t][f].nameField, provider |-> pack.resources[t].provider] :
                   f \in {g \in DOMAIN merged[t] : merged[t][g].referent = type /\ merged[t][g].nameField # Null}} :
                 t \in referrers}
\* An explicit source wins; else the one name field the bound referrers agree on.
TransformLookupNameField(pack, dep, type) ==
    LET sources == MergedLookupSources(pack)
        inferred == {r.nameField : r \in {q \in InboundLookupReferences(pack, type) :
                                            ReferenceBindingMode(dep, q.provider) # "disabled"}}
    IN  IF type \in DOMAIN sources THEN [nameField |-> sources[type]]
        ELSE IF Cardinality(inferred) > 1 THEN Failed("conflicting name fields")
        ELSE [nameField |-> IF inferred = {} THEN Null ELSE CHOOSE f \in inferred : TRUE]
HasInferredLookupLifecycle(pack, type) == InboundLookupReferences(pack, type) # {}

\* The block a path leads to; an attribute on the way ends it.
BlocksOnPath(block, path) ==
    FoldLeft(LAMBDA found, n : {b.blocks[n].block :
                 b \in {c \in found : n \in (DOMAIN c.blocks) \ DOMAIN c.attributes}}, {block}, path)
\* The first segment that names a set block, if the path has one; a block that holds at most
\* one element is not a set here.
SetBlockFieldIndexes(block, references) ==
    LET isSet(f, i) ==
            LET before == BlocksOnPath(block, SubSeq(references[f].segments, 1, i - 1))
            IN  \E b \in before : /\ references[f].segments[i] \notin DOMAIN b.attributes
                                  /\ references[f].segments[i] \in DOMAIN b.blocks
                                  /\ b.blocks[references[f].segments[i]].nesting = "set"
                                  /\ ~ b.blocks[references[f].segments[i]].single
        crossing == {f \in DOMAIN references : \E i \in DOMAIN references[f].segments : isSet(f, i)}
    IN  [f \in crossing |-> CHOOSE i \in DOMAIN references[f].segments :
                               isSet(f, i) /\ \A j \in 1 .. i - 1 : ~ isSet(f, j)]
TransformBindingContext(pack, dep, type, block) ==
    LET references == TransformReferenceSpecs(pack, type)
        topology == RootTopologyFromIndex(pack, dep, {})
    IN  [mode |-> ReferenceBindingMode(dep, pack.resources[type].provider),
         generated |-> Generated(pack), derived |-> {t \in Generated(pack) : Derives(pack, t)},
         dataReferents |-> DataReferents(pack), references |-> references,
         roots |-> [t \in UNION {topology.members[l] : l \in DOMAIN topology.members} |-> RootOf(topology, t)],
         setBlocks |-> SetBlockFieldIndexes(block, references), tokensOnly |-> FALSE]

\* A data referent needs a source of its own.
LaneOptionsOf(pack, dep, type, block, template) ==
    LET field == TransformLookupNameField(pack, dep, type)
        data == pack.resources[type].dataReferent
    IN  IF data /\ type \notin DOMAIN MergedLookupSources(pack) THEN Failed("no lookup source")
        ELSE IF HasFailed(field) THEN field
        ELSE [dataLane |-> data, derived |-> ~ data /\ Derives(pack, type), hcl |-> dep.hcl,
              nameField |-> field.nameField,
              spaces |-> ReferentAlternateSpaces(pack, type), template |-> template,
              removeLookup |-> HasInferredLookupLifecycle(pack, type),
              context |-> TransformBindingContext(pack, dep, type, block)]

\* warnIfSlim: on average less than a third of what the schema takes.
SlimInput(rawItems, projection) ==
    LET total == FoldLeft(LAMBDA n, r : n + Cardinality(DOMAIN r[2]), 0, rawItems)
        expected == Cardinality(DOMAIN projection.attributes)
    IN  rawItems # <<>> /\ expected > 0 /\ 3 * total < expected * Len(rawItems)
\* The drops that are neither held nor acknowledged fail the type when the run is to check them.
UnexpectedDrops(drops, held) == drops \ held
=============================================================================
