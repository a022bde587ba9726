-------------------------- MODULE TransformArtifacts --------------------------
(***************************************************************************)
(* What a lane reads and writes for one type                               *)
(* (go/internal/tfrender/transform_artifacts.go, import_moves.go).         *)
(* Everything is compiled before anything is written; what is written is   *)
(* written file by file, in place, in a fixed order.                       *)
(*                                                                         *)
(* A tree maps each type to its files: json and hcl hold a configuration   *)
(* (data and dataHcl in the directory of the data referents), lookup and   *)
(* oldLookup the sidecar, then imports, moves and bindings.                *)
(***************************************************************************)
EXTENDS Values, Absent

CONSTANTS
    MaxImportMoves,                \* how many candidates a rename may have
    TokensOf(_),                   \* the tokens in the items of a configuration
    WithTokens(_, _, _, _),        \* items with a token for every identifier the key maps know
    BindingRefused(_, _, _, _, _)  \* whether no expressions can be found for the tokens made

Whole(content) == <<"whole", content>>
\* A file whose writing was cut short: what can still be made out of it, of imports Null when
\* they do not parse.
Torn(rest) == <<"torn", rest>>
IsTorn(file) == file # Null /\ file[1] = "torn"

\* The canonical space is "id".
Token(referent, key, space) == <<"token", referent, key, space>>
NoLookup == [byId |-> <<>>, idByKey |-> <<>>, keyById |-> <<>>, spaces |-> <<>>]

-----------------------------------------------------------------------------
(* The lookup *)

LastOf(keys) == CHOOSE k \in keys : \A j \in keys \ {k} : Before(j, k)
\* identity[k]: the identity of key k; of two keys with one identity the later stays.
KeysOf(identity) ==
    [i \in Range(identity) |-> LastOf({k \in DOMAIN identity : identity[k] = i})]
LookupIdentity(v) == IF v \in {Nil, Text("")} THEN {} ELSE {IdentityComponent(v)}

IdentitiesIn(merged, f) ==
    [k \in {j \in DOMAIN merged : LookupIdentity(Member(merged[j], f)) # {}} |-> IdentityComponent(merged[k][f])]
Twice(identity) == Cardinality(Range(identity)) # Cardinality(DOMAIN identity)
ShownText(v) == IF Is(v, "text") /\ v # Text("") THEN v[2] ELSE "<unknown>"
SpaceOf(identity) == [idByKey |-> identity, keyById |-> KeysOf(identity)]
LookupRecord(merged, canonical, alternates, nameField) ==
    [idByKey |-> canonical.idByKey, keyById |-> canonical.keyById, spaces |-> alternates,
     byId |-> [i \in DOMAIN canonical.keyById |-> ShownText(Member(merged[canonical.keyById[i]], nameField))]]
LookupOf(merged, nameField, nested, spaces) ==
    LET ids(f) == IdentitiesIn(merged, f)
    IN  IF nested /\ (DOMAIN ids("id") # DOMAIN merged \/ Twice(ids("id"))) THEN Failed("canonical id")
        ELSE IF \E f \in spaces : Twice(ids(f)) THEN Failed("space identity")
        ELSE LookupRecord(merged, SpaceOf(ids("id")), [f \in spaces |-> SpaceOf(ids(f))], nameField)
\* Data referents need one identity each; an alternate space leaves out what has none.
RenderTransformLookup(items, originals, nameField, nested, spaces) ==
    LookupOf([k \in DOMAIN items |-> items[k] @@ (IF k \in DOMAIN originals THEN originals[k] ELSE <<>>)],
             nameField, nested, spaces)

\* A sidecar as it is read: the maps it holds, Null for one an older version did not write.
\* A missing space is never derived from the canonical maps.
Inverted(keyById) == [k \in Range(keyById) |-> CHOOSE i \in DOMAIN keyById : keyById[i] = k]
Mapped(f) == IF f = Null THEN <<>> ELSE [n \in {m \in DOMAIN f : f[m] # ""} |-> f[n]]
ParseLookupSidecar(doc) ==
    LET direct(d) == IF d.idByKey = Null THEN Inverted(Mapped(d.keyById)) ELSE Mapped(d.idByKey)
        space(d) == [idByKey |-> direct(d), keyById |-> Mapped(d.keyById)]
    IN  [byId |-> doc.byId, idByKey |-> direct(doc), keyById |-> Mapped(doc.keyById),
         spaces |-> [f \in DOMAIN doc.spaces |-> space(doc.spaces[f])]]

\* Mutant: a space the sidecar does not have is looked up in the canonical map.
SpaceFromCanonical(lookup, space) ==
    IF lookup = Null THEN Null
    ELSE IF space \in DOMAIN lookup.spaces THEN lookup.spaces[space].keyById ELSE lookup.keyById
\* The identifiers of a referent in the space of an edge: none, and no map at all, differ.
LookupKeyMap(lookup, space) ==
    IF lookup = Null THEN Null
    ELSE IF space = "id" THEN lookup.keyById
    ELSE IF space \in DOMAIN lookup.spaces THEN lookup.spaces[space].keyById ELSE Null

-----------------------------------------------------------------------------
(* Moves *)

\* old and new map the keys of a type to their import identities.
MoveCandidates(old, new) ==
    {[id |-> old[p[1]], from |-> p[1], to |-> p[2]] :
        p \in {q \in (DOMAIN old) \X (DOMAIN new) : old[q[1]] = new[q[2]] /\ q[1] # q[2]}}
IsKeySwap(c, old, new) ==
    /\ {c.from, c.to} \subseteq DOMAIN old \cap DOMAIN new
    /\ old[c.from] = new[c.to] /\ old[c.to] = new[c.from]
SuppressedBecause(c, candidates, old, new) ==
    CASE Cardinality({k \in DOMAIN old : old[k] = c.id}) > 1 -> "ambiguous"
      [] Cardinality({d \in candidates : d.from = c.from}) > 1 -> "duplicate_from"
      [] IsKeySwap(c, old, new) -> "key_swap"
      [] c.to \in DOMAIN old \/ c.from \in DOMAIN new -> "destination_occupied"
      [] OTHER -> "moved"
\* Mutant: a key that is already taken is moved onto.
MovesOntoOccupied(old, new) ==
    LET candidates == MoveCandidates(old, new)
        with(reasons) == {c \in candidates : SuppressedBecause(c, candidates, old, new) \in reasons}
    IN  IF Cardinality(candidates) > MaxImportMoves THEN Failed("too many moves")
        ELSE [moves |-> with({"moved", "destination_occupied"}), suppressed |-> with({"ambiguous", "duplicate_from", "key_swap"})]
DeriveImportMoves(old, new) ==
    LET candidates == MoveCandidates(old, new)
        with(reasons) == {c \in candidates : SuppressedBecause(c, candidates, old, new) \in reasons}
    IN  IF Cardinality(candidates) > MaxImportMoves THEN Failed("too many moves")
        ELSE [moves |-> with({"moved"}),
              suppressed |-> with({"ambiguous", "duplicate_from", "key_swap", "destination_occupied"})]

-----------------------------------------------------------------------------
(* What committed configurations say *)

\* The configurations of one directory, the ones that can only be read as text included.
ConfigTokens(tree, t) ==
    UNION {IF tree[t][f] = Null THEN {} ELSE TokensOf(tree[t][f][2]) : f \in {"json", "hcl"}}
TokenDependents(tree, type) == {t \in DOMAIN tree : \E v \in ConfigTokens(tree, t) : v[2] = type}

\* The current sidecar, else the one where an older version left it; one that cannot be read
\* is an error, not an absence.
ResolveLookup(tree, referent) ==
    LET files == IF referent \in DOMAIN tree THEN tree[referent] ELSE [lookup |-> Null, oldLookup |-> Null]
        file == IF files.lookup # Null THEN files.lookup ELSE files.oldLookup
    IN  IF file = Null THEN [lookup |-> Null]
        ELSE IF IsTorn(file) THEN Failed("lookup") ELSE [lookup |-> ParseLookupSidecar(file[2])]
CommittedLookupReferents(tree) == {t \in DOMAIN tree : tree[t].lookup # Null \/ tree[t].oldLookup # Null}
CommittedLookupKeys(tree, referent) == DOMAIN ResolveLookup(tree, referent).lookup.idByKey
LookupKeyMaps(tree, references) ==
    LET resolved(f) == ResolveLookup(tree, references[f].referent)
    IN  IF \E f \in DOMAIN references : HasFailed(resolved(f)) THEN Failed("lookup")
        ELSE [maps |-> [f \in DOMAIN references |-> LookupKeyMap(resolved(f).lookup, references[f].space)]]

\* Mutant: the configurations of other types are not looked at.
StrandsOwnOnly(tree, type, items, fresh) ==
    LET committed == ResolveLookup(tree, type)
        dropped == IF committed.lookup = Null THEN {} ELSE DOMAIN committed.lookup.idByKey \ DOMAIN fresh.idByKey
        named == ConfigTokens(tree, type) \cup TokensOf(items)
    IN  \/ HasFailed(committed)
        \/ \E v \in named : v[2] = type /\ v[3] \in dropped
\* The keys a new sidecar no longer has and a configuration, committed or about to be, names.
AssertNoLookupKeyStranding(tree, type, items, fresh) ==
    LET committed == ResolveLookup(tree, type)
        dropped == IF committed.lookup = Null THEN {} ELSE DOMAIN committed.lookup.idByKey \ DOMAIN fresh.idByKey
        named == TokensOf(items) \cup UNION {ConfigTokens(tree, t) : t \in DOMAIN tree}
    IN  \/ HasFailed(committed)
        \/ \E v \in named : v[2] = type /\ v[3] \in dropped

-----------------------------------------------------------------------------
(* Compiling *)

\* The import identity is a template over the original members.
RenderTransformImports(originals, template) ==
    IF \E k \in DOMAIN originals : ~ Range(template) \subseteq DOMAIN originals[k] THEN Failed("import id")
    ELSE [imports |-> [k \in DOMAIN originals |->
                          [i \in DOMAIN template |-> IdentityComponent(originals[k][template[i]])]]]

\* o: the lane and format of the type, what it publishes, its binding context and template.
CompileLookup(o, result) ==
    IF o.nameField = Null THEN [none |-> TRUE]
    ELSE RenderTransformLookup(result.items, result.originals, o.nameField, o.dataLane,
                               IF o.dataLane THEN {} ELSE o.spaces)
\* Blocks stand in the order of their keys.  A cut between two of them, or at the beginning,
\* leaves canonical text of fewer imports (ParseGeneratedImports); any other does not parse.
FirstBlocks(imports) ==
    UNION {{Null, [k \in {j \in DOMAIN imports : Before(j, cut)} |-> imports[k]]} : cut \in DOMAIN imports}
\* What the imports of the last run, as they read, and the new ones say of moves.
MovesSince(old, imports) ==
    IF old = Null THEN [moves |-> {}, suppressed |-> {}]
    ELSE IF old[2] = Null THEN Failed("imports") ELSE DeriveImportMoves(old[2], imports)
Strands(tree, type, items, fresh) == "none" \notin DOMAIN fresh /\ AssertNoLookupKeyStranding(tree, type, items, fresh)
AcceptedConfig(tree, type, o, result, fresh, items, maps) ==
    IF Strands(tree, type, items, fresh) THEN Failed("stranded")
    ELSE IF BindingRefused(result.items, items, type, o.context, maps) THEN Failed("bindings")
    ELSE [config |-> items]
CompileConfig(tree, type, o, result, fresh, keyMaps) ==
    IF HasFailed(keyMaps) THEN keyMaps
    ELSE AcceptedConfig(tree, type, o, result, fresh,
                        IF o.hcl THEN result.items ELSE WithTokens(result.items, type, o.context, keyMaps.maps),
                        keyMaps.maps)
Assembled(fresh, imports, moves, compiled) ==
    IF HasFailed(compiled) THEN compiled
    ELSE [lookup |-> fresh, config |-> compiled.config, imports |-> imports, moves |-> moves]
CompileResource(tree, type, o, result, fresh, rendered, moves) ==
    IF "none" \in DOMAIN fresh /\ o.removeLookup /\ TokenDependents(tree, type) # {} THEN Failed("dependents")
    ELSE IF HasFailed(rendered) THEN rendered
    ELSE IF HasFailed(moves) THEN moves
    ELSE IF tree[type].moves # Null /\ moves.moves # {} /\ tree[type].moves # Whole(moves.moves)
    THEN Failed("move evidence")
    ELSE Assembled(fresh, rendered.imports, moves.moves,
                   CompileConfig(tree, type, o, result, fresh, LookupKeyMaps(tree, o.context.references)))
CompileWith(tree, type, o, result, fresh, rendered) ==
    CASE HasFailed(fresh) -> fresh
      [] ~ HasFailed(fresh) /\ o.dataLane ->
           IF Strands(tree, type, result.items, fresh) THEN Failed("stranded")
           ELSE [lookup |-> fresh, config |-> result.items]
      [] OTHER -> CompileResource(tree, type, o, result, fresh, rendered, MovesSince(tree[type].imports, rendered.imports))
CompileTransformArtifacts(tree, type, o, result) ==
    CompileWith(tree, type, o, result, CompileLookup(o, result), RenderTransformImports(result.originals, o.template))

-----------------------------------------------------------------------------
(* Publishing: the changes, in the order they are made *)

WriteTo(file, content) == <<[file |-> file, content |-> Whole(content)]>>
Unlink(file) == <<[file |-> file, content |-> Null]>>
LookupChanges(o, compiled) ==
    IF "none" \notin DOMAIN compiled.lookup THEN WriteTo("lookup", compiled.lookup) \o Unlink("oldLookup")
    ELSE IF o.removeLookup THEN Unlink("lookup") \o Unlink("oldLookup") ELSE <<>>
ConfigFileIn(o, hcl) == IF o.dataLane THEN IF hcl THEN "dataHcl" ELSE "data" ELSE IF hcl THEN "hcl" ELSE "json"
ConfigFile(o) == ConfigFileIn(o, o.hcl)
StaleConfigFile(o) == ConfigFileIn(o, ~ o.hcl)
\* Mutant: the imports are replaced before the moves are there.
ImportsFirst(tree, type, o, compiled) ==
    IF o.dataLane
    THEN Unlink("imports") \o Unlink("moves") \o LookupChanges(o, compiled) \o Unlink(StaleConfigFile(o))
         \o Unlink("json") \o Unlink("hcl") \o WriteTo(ConfigFile(o), compiled.config) \o Unlink("bindings")
    ELSE LookupChanges(o, compiled) \o WriteTo("imports", compiled.imports)
         \o (IF tree[type].moves = Null /\ compiled.moves # {} THEN WriteTo("moves", compiled.moves) ELSE <<>>)
         \o Unlink(StaleConfigFile(o)) \o WriteTo(ConfigFile(o), compiled.config) \o Unlink("bindings")
PublishCompiledTransformArtifacts(tree, type, o, compiled) ==
    IF o.dataLane
    THEN Unlink("imports") \o Unlink("moves") \o LookupChanges(o, compiled) \o Unlink(StaleConfigFile(o))
         \o Unlink("json") \o Unlink("hcl") \o WriteTo(ConfigFile(o), compiled.config) \o Unlink("bindings")
    ELSE LookupChanges(o, compiled)
         \o (IF tree[type].moves = Null /\ compiled.moves # {} THEN WriteTo("moves", compiled.moves) ELSE <<>>)
         \o Unlink(StaleConfigFile(o)) \o WriteTo(ConfigFile(o), compiled.config) \o Unlink("bindings")
         \o WriteTo("imports", compiled.imports)
\* A derived type has a configuration and nothing else.
WriteDerivedTransformArtifact(o, items) == Unlink(StaleConfigFile(o)) \o WriteTo(ConfigFile(o), items)

-----------------------------------------------------------------------------

\* The moves of a regeneration carry state along and lose none of it: every move takes an
\* object to the key that now names its identity, no two meet, none leaves a key that is
\* still used or lands on one that was; and a plain rename is always a move, never a
\* destroy and a new import (deriveImportMoves).
MovesReconcile(old, new) ==
    LET derived == DeriveImportMoves(old, new)
        gone == DOMAIN old \ DOMAIN new
        fresh == DOMAIN new \ DOMAIN old
        alone(keys, of, id) == Cardinality({k \in keys : of[k] = id}) = 1
    IN  ~ HasFailed(derived) =>
            /\ \A m \in derived.moves :
                  /\ m.id = old[m.from] /\ m.id = new[m.to] /\ m.from \in gone /\ m.to \in fresh
                  /\ \A n \in derived.moves : (m.from = n.from \/ m.to = n.to) => m = n
            /\ \A k \in gone, j \in fresh :
                  (old[k] = new[j] /\ alone(DOMAIN old, old, old[k]) /\ alone(DOMAIN new, new, old[k]))
                     => [id |-> old[k], from |-> k, to |-> j] \in derived.moves
=============================================================================
