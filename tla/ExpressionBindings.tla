-------------------------- MODULE ExpressionBindings --------------------------
(***************************************************************************)
(* The expressions that replace leaves of a configuration                  *)
(* (go/internal/envgen/expression_bindings.go, state_probe.go): which ones *)
(* are accepted, where they may be put, which states they read, and what   *)
(* the root's overlay makes of the items.                                  *)
(*                                                                         *)
(* A binding is a record of key, path, expression and sensitive; a path is *)
(* the non-empty sequence of names and positions of ReferenceTokens.       *)
(***************************************************************************)
EXTENDS ReferenceTokens

Variable(name) == <<"var", name>>
ModuleOutput(t) == <<"module", t>>
\* A selector of a remote state that is not one of the published identifiers.
ForeignState == <<"foreign">>
\* What a fallback leaves: the sidecar alone, or the state first and then the sidecar.
FromLookup(referent, space, key) == <<"lookup", referent, space, key>>
Try(first, second) == <<"try", first, second>>
OutsideGrammar == <<"outside">>

RECURSIVE PartsOfExpression(_)
PartsOfExpression(e) ==
    {e} \cup CASE e[1] = "list" -> UNION {PartsOfExpression(e[2][i]) : i \in DOMAIN e[2]}
               [] e[1] = "object" -> PartsOfExpression(e[3])
               [] e[1] = "try" -> PartsOfExpression(e[2])
               [] OTHER -> {}
OutputsIn(e) == {p \in PartsOfExpression(e) : p[1] = "output"}
ModuleTargets(e) == {p[2] : p \in {q \in PartsOfExpression(e) : q[1] = "module"}}

-----------------------------------------------------------------------------
(* Documents and layers *)

Identity(b) == <<b.key, b.path>>
ByIdentity(bindings, identity) == {b \in bindings : Identity(b) = identity}
\* A number, a text and a composite stand alone only inside a list; a list is a composite too.
MatchesAllowedExpression(e) ==
    e[1] \in {"var", "local", "data", "module", "output", "foreign", "list"} /\ OutsideGrammar \notin PartsOfExpression(e)
\* A document is a sequence of bindings, as written; a text is written where it is read.
ParseExpressionBindings(doc) ==
    IF \/ \E i \in DOMAIN doc : doc[i].path = <<>> \/ doc[i].path[1][1] = "[]"
       \/ \E i \in DOMAIN doc : ~ MatchesAllowedExpression(doc[i].expression)
       \/ \E i, j \in DOMAIN doc : i # j /\ Identity(doc[i]) = Identity(doc[j])
    THEN Failed("binding") ELSE [bindings |-> Range(doc)]
\* The later layer wins a leaf.
MergeExpressionBindingLayers(layers) ==
    FoldLeft(LAMBDA merged, layer : {b \in merged : ByIdentity(layer, Identity(b)) = {}} \cup layer, {}, layers)

-----------------------------------------------------------------------------
(* Where a binding may be put *)

StrictlyAbove(p, q) == Len(p) < Len(q) /\ SubSeq(q, 1, Len(p)) = p
Overlapping(bindings) == \E b, c \in bindings : b.key = c.key /\ StrictlyAbove(b.path, c.path)
RECURSIVE LeafExists(_, _)
\* A position counts from one here, from zero in the code.
LeafExists(v, path) ==
    \/ path = <<>>
    \/ LET part == Head(path)
       IN  IF part[1] = "[]"
           THEN Is(v, "list") /\ part[2] \in DOMAIN v[2] /\ LeafExists(v[2][part[2]], Tail(path))
           ELSE Is(v, "object") /\ part[1] \in DOMAIN v[2] /\ LeafExists(v[2][part[1]], Tail(path))
ValidateExpressionBindingTargets(items, bindings) ==
    /\ ~ Overlapping(bindings)
    /\ \A b \in bindings : b.key \in DOMAIN items /\ LeafExists(Object(items[b.key]), b.path)

\* A list is entered by position and an object by name; a set and a map are bound whole.
RECURSIVE EncodingAccepts(_, _)
EncodingAccepts(type, path) ==
    \/ path = <<>>
    \/ type[1] = "list" /\ Head(path)[1] = "[]" /\ EncodingAccepts(type[2], Tail(path))
    \/ type[1] = "object" /\ Head(path)[1] \in DOMAIN type[2] /\ EncodingAccepts(type[2][Head(path)[1]], Tail(path))
RECURSIVE SchemaAccepts(_, _)
SchemaAccepts(block, path) ==
    IF path = <<>> THEN TRUE
    ELSE LET name == Head(path)[1]
             rest == Tail(path)
         IN  CASE name \in DOMAIN block.attributes ->
                    /\ block.attributes[name].required \/ block.attributes[name].optional
                    /\ EncodingAccepts(block.attributes[name].type, rest)
               [] name \in DOMAIN block.blocks ->
                    LET nested == block.blocks[name]
                    IN  IF nested.single THEN SchemaAccepts(nested.block, rest)
                        ELSE \/ rest = <<>> /\ nested.nesting \in {"list", "set"}
                             \/ /\ nested.nesting = "list" /\ rest # <<>> /\ Head(rest)[1] = "[]"
                                /\ SchemaAccepts(nested.block, Tail(rest))
               [] OTHER -> FALSE
ValidateExpressionBindingSchemaPaths(block, bindings) == \A b \in bindings : SchemaAccepts(block, b.path)

-----------------------------------------------------------------------------
(* The states the expressions read *)

\* FALSE in place of a usable state: none, or none that publishes the referent; a state that
\* Terraform itself would not load is an error.
ReferenceIDsPresent(state, referent) ==
    CASE state = Null -> [usable |-> FALSE]
      [] state # Null /\ state.malformed -> Failed("state")
      [] OTHER -> [usable |-> referent \in state.published]
ReadsForeignState(bindings) == \E b \in bindings : ForeignState \in PartsOfExpression(b.expression)
\* probe[<<root, referent>>] is what was found of it. Every state is looked at before any
\* binding is dropped, so an unreadable one is never taken for an absent one.
Unusable(b, probe) == {o \in OutputsIn(b.expression) : ~ probe[<<o[2], o[3]>>].usable}
FilterStatelessGeneratedBindings(bindings, probe) ==
    IF \E b \in bindings : \E o \in OutputsIn(b.expression) : HasFailed(probe[<<o[2], o[3]>>])
    THEN Failed("probe") ELSE [bindings |-> {b \in bindings : Unusable(b, probe) = {}}]
\* What an operator wrote stays whatever the states are.
FilterStatelessBindings(bindings, operators, probe) ==
    LET generated == {b \in bindings : Identity(b) \notin operators}
        kept == FilterStatelessGeneratedBindings(generated, probe)
    IN  IF HasFailed(kept) THEN kept ELSE [bindings |-> (bindings \ generated) \cup kept.bindings]

-----------------------------------------------------------------------------
(* Fallbacks and the overlay *)

RECURSIVE Rewritten(_, _)
\* A referent without a usable state is not read at all, others are read first.
Rewritten(e, lookupOnly) ==
    CASE e[1] = "output" -> LET fallback == FromLookup(e[3], e[4], e[5])
                            IN  IF e[3] \in lookupOnly THEN fallback ELSE Try(e, fallback)
      [] e[1] = "list" -> <<"list", [i \in DOMAIN e[2] |-> Rewritten(e[2][i], lookupOnly)]>>
      [] e[1] = "object" -> <<"object", e[2], Rewritten(e[3], lookupOnly), e[4]>>
      [] OTHER -> e
RewriteResolverFallbacks(bindings, operators, lookupOnly) ==
    {IF Identity(b) \in operators THEN b ELSE [b EXCEPT !.expression = Rewritten(b.expression, lookupOnly)] :
        b \in bindings}

\* One node of the overlay has names or positions for children, never both.
MixedShape(bindings) ==
    \E b, c \in bindings : b.key = c.key /\ \E n \in (1 .. Len(b.path)) \cap (1 .. Len(c.path)) :
        /\ SubSeq(b.path, 1, n - 1) = SubSeq(c.path, 1, n - 1)
        /\ (b.path[n][1] = "[]") # (c.path[n][1] = "[]")
ExpressionVariables(bindings) ==
    LET names == {b.expression[2] : b \in {c \in bindings : c.expression[1] = "var"}}
    IN  [n \in names |-> \E b \in bindings : b.expression = Variable(n) /\ b.sensitive]
\* What the module receives: the items, each bound leaf replaced by its expression.
Bound(e) == <<"bound", e>>
RECURSIVE PutAt(_, _, _)
PutAt(v, path, e) ==
    IF path = <<>> THEN Bound(e)
    ELSE IF Head(path)[1] = "[]"
    THEN List([v[2] EXCEPT ![Head(path)[2]] = PutAt(v[2][Head(path)[2]], Tail(path), e)])
    ELSE Object(Put(v[2], Head(path)[1], PutAt(Member(v[2], Head(path)[1]), Tail(path), e)))
RECURSIVE Overlaid(_, _)
Overlaid(v, bindings) ==
    IF bindings = {} THEN v
    ELSE LET b == CHOOSE c \in bindings : TRUE IN Overlaid(PutAt(v, b.path, b.expression), bindings \ {b})
RenderExpressionBindings(items, bindings) ==
    IF MixedShape(bindings) \/ Overlapping(bindings) THEN Failed("binding shape")
    ELSE [items |-> [k \in DOMAIN items |-> Overlaid(Object(items[k]), {b \in bindings : b.key = k})[2]],
          variables |-> ExpressionVariables(bindings)]
=============================================================================
