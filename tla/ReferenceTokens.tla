--------------------------- MODULE ReferenceTokens ---------------------------
(***************************************************************************)
(* How a committed configuration names the objects of other types          *)
(* (go/internal/tfrender/transform_artifacts.go): the lookup a referent    *)
(* publishes, the tokens a referrer's identifiers become, and the          *)
(* expressions that resolve them against the referent's state.             *)
(*                                                                         *)
(* A text of the shape type.key or type.key.space is a value of the kind   *)
(* "token".  A path is a sequence of member names and list positions.      *)
(***************************************************************************)
EXTENDS TransformArtifacts

CONSTANTS UnsafeKeys   \* the keys that hold a template interpolation

Zero(v) == v = Number(0)
Identifies(v) == Scalar(v) \/ v = Nil
Step(name) == <<name, 0>>
Index(i) == <<"[]", i>>

\* The name shown beside a reference in an HCL configuration.
DisplayForReference(v, referent, lookup, constants) ==
    LET id == IF v[1] = "token" /\ v[2] = referent /\ v[4] = "id" /\ v[3] \in DOMAIN lookup.idByKey
              THEN lookup.idByKey[v[3]] ELSE IF v[1] = "token" THEN "<token>" ELSE IdentityComponent(v)
    IN  IF id \in DOMAIN lookup.byId THEN lookup.byId[id] ELSE IF id \in constants THEN id ELSE "<unknown>"

-----------------------------------------------------------------------------
(* The leaves of a reference field *)

\* A type binds to types with state of their own, never to itself.
BindableReference(type, referent, context) ==
    /\ context.mode = "cross_state" /\ type # referent
    /\ type \in context.generated
    /\ referent \in context.generated \cup context.dataReferents
    /\ {type, referent} \cap context.derived = {}
    /\ {type, referent} \subseteq DOMAIN context.roots

RECURSIVE LeavesAt(_, _, _)
LeavesAt(v, segments, path) ==
    IF segments = <<>> THEN IF v = Nil THEN {} ELSE {[path |-> path, value |-> v]}
    ELSE IF Is(v, "list") THEN UNION {LeavesAt(v[2][i], segments, Append(path, Index(i))) : i \in DOMAIN v[2]}
    ELSE IF Is(v, "object") /\ Head(segments) \in DOMAIN v[2]
    THEN LeavesAt(v[2][Head(segments)], Tail(segments), Append(path, Step(Head(segments)))) ELSE {}

BindableListElement(v) == v[1] \in {"token", "number"} \/ (Is(v, "text") /\ v # Text(""))
WholeList(v) == \A i \in DOMAIN v[2] : Zero(v[2][i]) \/ BindableListElement(v[2][i])

-----------------------------------------------------------------------------
(* Tokens *)

\* An identifier the lookup knows becomes a token, everything else stays.
ReferenceToken(v, spec, keyMap) ==
    IF Identifies(v) /\ IdentityComponent(v) \in DOMAIN keyMap
       /\ keyMap[IdentityComponent(v)] \notin UnsafeKeys
    THEN Token(spec.referent, keyMap[IdentityComponent(v)], spec.space) ELSE v

\* A list with a member that cannot be bound is left alone; a terminal member that is not
\* there is looked up as one that is null.
TerminalTokens(v, spec, keyMap) ==
    CASE Is(v, "list") /\ ~ WholeList(v) -> v
      [] Is(v, "list") /\ WholeList(v) ->
           List([i \in DOMAIN v[2] |-> IF Zero(v[2][i]) THEN v[2][i] ELSE ReferenceToken(v[2][i], spec, keyMap)])
      [] OTHER -> ReferenceToken(v, spec, keyMap)
PutUnlessNil(v, name, new) == IF new = Nil THEN v ELSE Object(Put(v[2], name, new))
RECURSIVE Substituted(_, _, _, _)
Substituted(v, segments, spec, keyMap) ==
    LET name == Head(segments)
    IN  CASE Is(v, "list") ->
                 List([i \in DOMAIN v[2] |-> IF v[2][i][1] \in {"list", "object"}
                                             THEN Substituted(v[2][i], segments, spec, keyMap) ELSE v[2][i]])
          [] Is(v, "object") /\ Len(segments) = 1 ->
                 PutUnlessNil(v, name, TerminalTokens(Member(v[2], name), spec, keyMap))
          [] Is(v, "object") /\ Len(segments) > 1 /\ name \in DOMAIN v[2] ->
                 Object(Put(v[2], name, Substituted(v[2][name], Tail(segments), spec, keyMap)))
          [] OTHER -> v

\* references[f]: the segments, the referent and the space of a reference field.
Substitutable(type, context, keyMaps) ==
    {f \in DOMAIN context.references : /\ BindableReference(type, context.references[f].referent, context)
                                       /\ keyMaps[f] # Null /\ keyMaps[f] # <<>>}
SubstituteReferenceTokens(items, type, context, keyMaps) ==
    FoldLeft(LAMBDA its, f : [k \in DOMAIN its |->
                 Substituted(Object(its[k]), context.references[f].segments, context.references[f], keyMaps[f])[2]],
             items, Sorted(Substitutable(type, context, keyMaps)))
Minted(items, new, context) ==
    UNION {{[key |-> k, path |-> l.path] : l \in LeavesAt(Object(new[k]), s, <<>>) \ LeavesAt(Object(items[k]), s, <<>>)} :
             k \in DOMAIN items, s \in {context.references[f].segments : f \in DOMAIN context.references}}

-----------------------------------------------------------------------------
(* The expressions that resolve them *)

Output(root, referent, space, key) == <<"output", root, referent, space, key>>
Literal(v) == <<"literal", v>>

\* A token names its own space, and the key has to be known; an identifier on its own is
\* resolved when the configuration is made and never when it is rendered.
\* at: the edge, its key map, the keys it knows and the binding context.
Resolve(v, at) ==
    LET spec == at.spec
        keys == IF v[1] = "token"
                THEN IF v[2] = spec.referent /\ v[4] = spec.space THEN {v[3]} \cap at.known ELSE {}
                ELSE IF ~ at.context.tokensOnly /\ Identifies(v) /\ IdentityComponent(v) \in DOMAIN at.keyMap
                THEN {at.keyMap[IdentityComponent(v)]} ELSE {}
    IN  {Output(at.context.roots[spec.referent], spec.referent, spec.space, k) : k \in keys \ UnsafeKeys}
AnyOr(S, other) == IF S = {} THEN other ELSE CHOOSE e \in S : TRUE
ResolveOr(v, at, literal) == AnyOr(Resolve(v, at), Literal(literal))
NonZero(s) == SelectSeq(s, LAMBDA w : ~ Zero(w))
ResolvesIn(s, at) == \E i \in DOMAIN NonZero(s) : Resolve(NonZero(s)[i], at) # {}

\* What a list leaves unresolved becomes the text that spells it.
BindValue(v, at) ==
    LET rest == NonZero(v[2])
        spelled(w) == IF w[1] = "token" THEN w ELSE Text(IdentityComponent(w))
    IN  IF ~ Is(v, "list") THEN Resolve(v, at)
        ELSE IF WholeList(v) /\ (ResolvesIn(v[2], at) \/ (v[2] # <<>> /\ rest = <<>>))
        THEN {<<"list", [i \in DOMAIN rest |-> ResolveOr(rest[i], at, spelled(rest[i]))]>>} ELSE {}

\* A member of a set block: the reference resolved, everything else as it is; nothing if
\* that cannot be done faithfully.
RECURSIVE RenderSetBlockMember(_, _, _)
RenderSetBlockMember(v, remainder, at) ==
    CASE remainder = <<>> /\ Is(v, "list") ->
           IF WholeList(v) THEN {<<"list", [i \in DOMAIN NonZero(v[2]) |-> ResolveOr(NonZero(v[2])[i], at, NonZero(v[2])[i])]>>}
           ELSE {}
      [] remainder = <<>> /\ ~ Is(v, "list") -> IF BindableListElement(v) THEN {ResolveOr(v, at, v)} ELSE {}
      [] remainder # <<>> /\ ~ Is(v, "object") -> {}
      [] OTHER ->
           LET name == Head(remainder)
           IN  IF name \notin DOMAIN v[2] THEN {Literal(v)}
               ELSE {<<"object", name, e, Without(v[2], {name})>> : e \in RenderSetBlockMember(v[2][name], Tail(remainder), at)}
WholeBlock(rendered) ==
    IF \E i \in DOMAIN rendered : rendered[i] = {} THEN {}
    ELSE {<<"list", [i \in DOMAIN rendered |-> CHOOSE e \in rendered[i] : TRUE]>>}
ReadsAReference(members, remainder, at) ==
    \E l \in UNION {LeavesAt(members[i], remainder, <<>>) : i \in DOMAIN members} :
        IF Is(l.value, "list") THEN ResolvesIn(l.value[2], at) ELSE Resolve(l.value, at) # {}
RenderSetBlockLeaf(v, remainder, at) ==
    IF Is(v, "list") /\ ReadsAReference(v[2], remainder, at)
    THEN WholeBlock([i \in DOMAIN v[2] |-> RenderSetBlockMember(v[2][i], remainder, at)]) ELSE {}

FirstOf(names) == IF names = {} THEN {} ELSE {Head(Sorted(names))}
\* The keys a token is checked against are cached by referent: those of the first field of
\* that referent at which a token was met, whichever space that field is of.
MeetsToken(items, f, context) ==
    \E k \in DOMAIN items : \E l \in LeavesAt(Object(items[k]), context.references[f].segments, <<>>) :
        LET mine(v) == v[1] = "token" /\ v[2] = context.references[f].referent
        IN  mine(l.value) \/ (Is(l.value, "list") /\ WholeList(l.value) /\ \E i \in DOMAIN l.value[2] : mine(l.value[2][i]))
KeySetFor(f, items, type, context, keyMaps) ==
    UNION {Range(keyMaps[g]) : g \in FirstOf({g \in Substitutable(type, context, keyMaps) :
        context.references[g].referent = context.references[f].referent /\ MeetsToken(items, g, context)})}

SharedSetBlock(context) ==
    \E f, g \in DOMAIN context.setBlocks \cap DOMAIN context.references : f # g /\
        SubSeq(context.references[f].segments, 1, context.setBlocks[f])
           = SubSeq(context.references[g].segments, 1, context.setBlocks[g])
\* What one field binds: one expression per leaf, or per whole set block it passes through.
BindingsAt(items, above, below, whole, at) ==
    UNION {UNION {{[key |-> k, path |-> l.path, expression |-> e] :
                     e \in IF whole THEN RenderSetBlockLeaf(l.value, below, at) ELSE BindValue(l.value, at)} :
                    l \in LeavesAt(Object(items[k]), above, <<>>)} : k \in DOMAIN items}
FieldBindings(f, items, type, context, keyMaps) ==
    LET segments == context.references[f].segments
        n == IF f \in DOMAIN context.setBlocks THEN context.setBlocks[f] ELSE Len(segments)
    IN  BindingsAt(items, SubSeq(segments, 1, n), SubSeq(segments, n + 1, Len(segments)), f \in DOMAIN context.setBlocks,
                   [spec |-> context.references[f], keyMap |-> keyMaps[f], context |-> context,
                    known |-> KeySetFor(f, items, type, context, keyMaps)])
\* The later field wins a leaf two fields bind.
Overridden(bindings, new) == {b \in bindings : \A n \in new : <<n.key, n.path>> # <<b.key, b.path>>} \cup new
DeriveGeneratedBindings(items, type, context, keyMaps) ==
    IF context.mode = "disabled" THEN [bindings |-> {}]
    ELSE IF SharedSetBlock(context) THEN Failed("shared set block")
    ELSE [bindings |-> FoldLeft(LAMBDA bindings, f : Overridden(bindings, FieldBindings(f, items, type, context, keyMaps)),
                                {}, Sorted(Substitutable(type, context, keyMaps)))]
BindingPathCovers(bindingPath, leafPath) == IsPrefix(bindingPath, leafPath)
Uncovered(minted, bindings) ==
    {m \in minted : ~ \E b \in bindings : b.key = m.key /\ BindingPathCovers(b.path, m.path)}
-----------------------------------------------------------------------------
(* What the constants of TransformArtifacts stand for *)

RECURSIVE TokensIn(_)
TokensIn(v) ==
    CASE v[1] = "token" -> {v}
      [] Is(v, "list") -> UNION {TokensIn(v[2][i]) : i \in DOMAIN v[2]}
      [] Is(v, "object") -> UNION {TokensIn(v[2][n]) : n \in DOMAIN v[2]}
      [] OTHER -> {}
TokensInItems(items) == UNION {TokensIn(Object(items[k])) : k \in DOMAIN items}
\* Every leaf that became a token has to be covered by an expression.
UncoveredTokens(items, new, type, context, keyMaps) ==
    LET derived == DeriveGeneratedBindings(new, type, context, keyMaps)
    IN  HasFailed(derived) \/ Uncovered(Minted(items, new, context), derived.bindings) # {}
=============================================================================
