--------------------------- MODULE EnvironmentRoots ---------------------------
(***************************************************************************)
(* gen-env: the Terraform roots made of the committed configurations, the  *)
(* packs and the deployment (go/internal/envgen/environment_generator.go,  *)
(* reference_topology.go, state_probe.go).                                 *)
(*                                                                         *)
(* in: the pack, the deployment, the schema block of each type, the tree   *)
(* of committed files (with the operator's expressions), and the state of  *)
(* each root.  request: the selectors, the backend, whether states are     *)
(* probed.  A root's directory holds main, expressions and smoke.          *)
(***************************************************************************)
EXTENDS LaneOptions, ExpressionBindings

NoDirectory == [main |-> Null, expressions |-> Null, smoke |-> Null]

RECURSIVE CrossStateDependencyClosure(_, _)
CrossStateDependencyClosure(labels, dependencies) ==
    LET more == UNION {dependencies[l] : l \in labels \cap DOMAIN dependencies} \ labels
    IN  IF more = {} THEN labels ELSE CrossStateDependencyClosure(labels \cup more, dependencies)

ConfigOf(in, t) ==
    in.tree[t][ConfigFile([dataLane |-> in.pack.resources[t].dataReferent, hcl |-> in.dep.hcl])]
ReferencesOf(in, t) == IF t \in DOMAIN MergedReferences(in.pack) THEN MergedReferences(in.pack)[t] ELSE <<>>

-----------------------------------------------------------------------------
(* The tokens the configurations of a root carry *)

Decodes(lookups, v) == v[2] \in DOMAIN lookups /\ v[3] \in lookups[v[2]]
CommittedLookups(in) == [t \in CommittedLookupReferents(in.tree) |-> CommittedLookupKeys(in.tree, t)]
UnreadableLookup(in) == \E t \in CommittedLookupReferents(in.tree) : HasFailed(ResolveLookup(in.tree, t))
\* In a native configuration no leaf can be told from another: a token anywhere is refused,
\* by its sidecar or, without one, by the referents its type declares.
HclToken(in, t, lookups) ==
    \E v \in TokensOf(ConfigOf(in, t)[2]) :
        \/ Decodes(lookups, v)
        \/ v[2] \notin DOMAIN lookups /\ \E f \in DOMAIN ReferencesOf(in, t) : ReferencesOf(in, t)[f].referent = v[2]

TokenTexts(v) == IF v[1] = "token" THEN {v}
                 ELSE IF Is(v, "list") THEN {w \in Range(v[2]) : w[1] = "token"} ELSE {}
\* Any token at a reference leaf, the ones of another referent than the declared one too.
JsonConfigTokenLeaves(in, t, items) ==
    UNION {UNION {{[type |-> t, key |-> k, path |-> l.path, token |-> v] : v \in TokenTexts(l.value)} :
                    l \in LeavesAt(Object(items[k]), ReferencesOf(in, t)[f].segments, <<>>)} :
             k \in DOMAIN items, f \in DOMAIN ReferencesOf(in, t)}
RECURSIVE StringLeaves(_, _)
\* Every token wherever it is; a list of texts has the path of the list.
StringLeaves(v, path) ==
    CASE v[1] = "token" -> {[path |-> path, token |-> v]}
      [] Is(v, "object") -> UNION {StringLeaves(v[2][n], Append(path, Step(n))) : n \in DOMAIN v[2]}
      [] Is(v, "list") -> UNION {StringLeaves(v[2][i], IF v[2][i][1] = "token" THEN path ELSE Append(path, Index(i))) :
                                   i \in DOMAIN v[2]}
      [] OTHER -> {}
\* A token that a sidecar decodes and no reference of the pack governs.
OrphanedClaims(in, t, items, lookups, leaves) ==
    UNION {{l \in StringLeaves(Object(items[k]), <<>>) :
              /\ Decodes(lookups, l.token)
              /\ ~ \E e \in leaves : e.type = t /\ e.key = k /\ e.path = l.path} : k \in DOMAIN items}
\* Mutant: only the fields the pack declares now are looked at.
DeclaredLeavesOnly(in, members) ==
    LET lookups == CommittedLookups(in)
        present == {t \in members : ConfigOf(in, t) # Null}
    IN  IF \/ UnreadableLookup(in) \/ \E t \in present : IsTorn(ConfigOf(in, t))
           \/ in.dep.hcl /\ \E t \in present : HclToken(in, t, lookups) THEN Failed("tokens")
        ELSE IF in.dep.hcl THEN [leaves |-> {}]
        ELSE [leaves |-> UNION {JsonConfigTokenLeaves(in, t, ConfigOf(in, t)[2]) : t \in present}]
DeclaredLeaves(in, present) == UNION {JsonConfigTokenLeaves(in, t, ConfigOf(in, t)[2]) : t \in present}
WithoutOrphans(in, present, lookups, leaves) ==
    IF \E t \in present : OrphanedClaims(in, t, ConfigOf(in, t)[2], lookups, leaves) # {}
    THEN Failed("orphaned token") ELSE [leaves |-> leaves]
EnumerateCommittedReferenceTokens(in, members) ==
    LET present == {t \in members : ConfigOf(in, t) # Null}
    IN  IF UnreadableLookup(in) THEN Failed("lookup")
        ELSE IF \E t \in present : IsTorn(ConfigOf(in, t)) THEN Failed("config")
        ELSE IF ~ in.dep.hcl THEN WithoutOrphans(in, present, CommittedLookups(in), DeclaredLeaves(in, present))
        ELSE IF \E t \in present : HclToken(in, t, CommittedLookups(in)) THEN Failed("token in a native config")
        ELSE [leaves |-> {}]

-----------------------------------------------------------------------------
(* The bindings of one member *)

InOverlay(derived) ==
    IF HasFailed(derived) THEN derived
    ELSE [bindings |-> {[key |-> b.key, path |-> b.path, expression |-> b.expression, sensitive |-> FALSE] :
                          b \in derived.bindings}]
TokenBindings(in, t, context, keyMaps) ==
    IF HasFailed(keyMaps) THEN keyMaps
    ELSE InOverlay(DeriveGeneratedBindings(ConfigOf(in, t)[2], t, context, keyMaps.maps))
BindingsUnder(in, t, context) == TokenBindings(in, t, context, LookupKeyMaps(in.tree, context.references))
\* Only tokens are bound here: an identifier is what transform binds.
DeriveGeneratedBindingLayer(in, t) ==
    BindingsUnder(in, t, [TransformBindingContext(in.pack, in.dep, t, in.blocks[t]) EXCEPT !.tokensOnly = TRUE])
ParsedFile(file) == IF file = Null THEN [bindings |-> {}]
                    ELSE IF IsTorn(file) THEN Failed("bindings") ELSE ParseExpressionBindings(file[2])
\* A cache an older version committed is used as it is, but for the modules that are no
\* members any more; without one the layer is derived if the configuration has tokens.
OfMembers(cached, members) ==
    IF HasFailed(cached) THEN cached
    ELSE [bindings |-> {b \in cached.bindings : ModuleTargets(b.expression) \subseteq members}]
GeneratedLayer(in, t, members, carriesTokens) ==
    IF ReferenceBindingMode(in.dep, in.pack.resources[t].provider) = "disabled" THEN [bindings |-> {}]
    ELSE IF in.tree[t].bindings # Null THEN OfMembers(ParsedFile(in.tree[t].bindings), members)
    ELSE IF carriesTokens THEN DeriveGeneratedBindingLayer(in, t) ELSE [bindings |-> {}]
Layered(operator, generated) ==
    IF HasFailed(operator) THEN operator
    ELSE IF HasFailed(generated) THEN generated
    ELSE [bindings |-> MergeExpressionBindingLayers(<<generated.bindings, operator.bindings>>),
          operators |-> {Identity(b) : b \in operator.bindings}]
LoadBindingLayers(in, t, members, carriesTokens) ==
    Layered(ParsedFile(in.tree[t].operator), GeneratedLayer(in, t, members, carriesTokens))
\* The targets are looked at in the configuration, unless it cannot be read as data.
TargetsExist(in, t, bindings) ==
    /\ ConfigOf(in, t) # Null
    /\ in.dep.hcl \/ ValidateExpressionBindingTargets(ConfigOf(in, t)[2], bindings)
Accepted(in, t, loaded) ==
    IF HasFailed(loaded) \/ loaded.bindings = {} THEN loaded
    ELSE IF ~ ValidateExpressionBindingSchemaPaths(in.blocks[t], loaded.bindings) THEN Failed("schema path")
    ELSE IF ~ TargetsExist(in, t, loaded.bindings) THEN Failed("target")
    ELSE loaded
AcceptedBindings(in, t, members, carriesTokens) == Accepted(in, t, LoadBindingLayers(in, t, members, carriesTokens))

\* bound[t]: the bindings of member t.
BoundTypes(bound) == {t \in DOMAIN bound : bound[t] # {}}
AssertNoExpressionBindingCycles(bound) ==
    LET needs == [t \in DOMAIN bound |-> UNION {ModuleTargets(b.expression) : b \in bound[t]} \cap DOMAIN bound]
        reach[n \in Nat] == IF n = 0 THEN needs
                            ELSE [t \in DOMAIN needs |-> reach[n - 1][t] \cup UNION {needs[u] : u \in reach[n - 1][t]}]
    IN  \A t \in DOMAIN needs : t \notin reach[Cardinality(DOMAIN needs)][t]

\* What the bindings read of other states; positions are no part of a field.
RemoteStateReferencesForBindings(bound) ==
    UNION {UNION {{[referrer |-> t, field |-> [i \in DOMAIN names |-> names[i][1]], root |-> o[2], type |-> o[3],
                    space |-> o[4], key |-> o[5]] : o \in OutputsIn(b.expression)} :
                    <<b, names>> \in {<<c, SelectSeq(c.path, LAMBDA p : p[1] # "[]")>> : c \in bound[t]}} : t \in DOMAIN bound}
\* On a declared field, or above one: a set block is bound whole.
Declared(in, edges, label, r) ==
    \E e \in edges : /\ e.referrer = r.referrer /\ e.referent = r.type
                     /\ IsPrefix(r.field, MergedReferences(in.pack)[e.referrer][e.field].segments)
ValidateRemoteStateReferences(in, topology, edges, label, references) ==
    \A r \in references : /\ r.root \in DOMAIN topology.members /\ r.root # label
                          /\ r.type \in topology.members[r.root]
                          /\ Declared(in, edges, label, r)

-----------------------------------------------------------------------------
(* One root *)

\* An operator's binding answers for the leaf; a generated one has to name this very token.
AssertTokenLeavesCovered(leaves, bound, operators) ==
    \A l \in leaves : \E b \in bound[l.type] :
        /\ b.key = l.key /\ BindingPathCovers(b.path, l.path)
        /\ \/ Identity(b) \in operators[l.type]
           \/ \E o \in OutputsIn(b.expression) : <<o[3], o[4], o[5]>> = <<l.token[2], l.token[4], l.token[3]>>

Probe(in) == [at \in (DOMAIN in.states) \X Types(in.pack) |-> ReferenceIDsPresent(in.states[at[1]], at[2])]
\* What the probes leave of the bindings, and the referents read from their sidecar only.
AfterProbes(in, request, bound, operators, references, tokensPresent) ==
    LET data == {r \in references : r.type \in DataReferents(in.pack)}
        kept(t) == FilterStatelessBindings(bound[t], operators[t], Probe(in))
    IN  IF ~ request.stateAware THEN [bound |-> bound, lookupOnly |-> {}]
        ELSE IF tokensPresent
        THEN IF \E r \in data : HasFailed(Probe(in)[<<r.root, r.type>>]) THEN Failed("probe")
             ELSE [bound |-> bound, lookupOnly |-> {r.type : r \in {s \in data : ~ Probe(in)[<<s.root, s.type>>].usable}}]
        ELSE IF \E t \in DOMAIN bound : HasFailed(kept(t)) THEN Failed("probe")
        ELSE [bound |-> [t \in DOMAIN bound |-> kept(t).bindings], lookupOnly |-> {}]

\* A remote state is read from a local file or from azurerm.
RenderEnvironmentMain(in, backend, label, members, bound, remotes, outputs) ==
    IF Cardinality({in.pack.resources[t].provider : t \in members}) # 1 THEN Failed("providers")
    ELSE IF remotes # {} /\ backend \notin {Null, "azurerm"} THEN Failed("backend")
    ELSE [members |-> members, backend |-> backend, bound |-> bound, remotes |-> remotes,
          outputs |-> [t \in outputs |-> {"id"} \cup ReferentAlternateSpaces(in.pack, t)]]
RenderRootExpressions(in, bound, lookups) ==
    IF \E t \in DOMAIN bound : MixedShape(bound[t]) \/ Overlapping(bound[t]) THEN Failed("binding shape")
    ELSE [bound |-> [t \in BoundTypes(bound) |-> bound[t]], lookups |-> lookups]
\* A plan of the empty root is a test only where no overlay addresses an item.
RenderEnvironmentSmokeTest(in, members, bound, references) ==
    LET configured == {t \in members : ~ in.dep.hcl /\ ConfigOf(in, t) # Null}
    IN  [mocked |-> {<<r.root, r.type, r.key>> : r \in references}, config |-> configured,
         empty |-> BoundTypes(bound) = {} \/ configured = {}]

\* r is a root in the making: its members, what they bind, and the tokens they carry.
RemoteReads(r) == IF r.mode = "cross_state" THEN RemoteStateReferencesForBindings(r.bound) ELSE {}
WithFallbacks(r, after) ==
    [r EXCEPT !.bound = [t \in r.members |-> IF r.leaves = {} THEN after.bound[t]
                                             ELSE RewriteResolverFallbacks(after.bound[t], r.operators[t], after.lookupOnly)]]
RootRecord(r, references, rewritten) ==
    [members |-> r.members, bound |-> rewritten.bound, references |-> RemoteReads(rewritten),
     lookups |-> IF r.leaves = {} THEN {} ELSE {<<q.type, q.space>> : q \in references} \cup {<<q.type, "id">> : q \in references}]
CoveredRoot(r, references, after) ==
    IF HasFailed(after) THEN after
    ELSE IF ~ AssertTokenLeavesCovered(r.leaves, after.bound, r.operators) THEN Failed("uncovered token")
    ELSE RootRecord(r, references, WithFallbacks(r, after))
ReadingRoot(in, request, cross, topology, r, references) ==
    IF ~ ValidateRemoteStateReferences(in, topology, cross.edges, r.label, references) THEN Failed("undeclared")
    ELSE IF r.leaves # {} /\ r.mode # "cross_state" THEN Failed("tokens while disabled")
    ELSE CoveredRoot(r, references, AfterProbes(in, request, r.bound, r.operators, references, r.leaves # {}))
BoundRoot(in, request, cross, topology, r) ==
    IF ~ AssertNoExpressionBindingCycles(r.bound) THEN Failed("cycle")
    ELSE IF r.mode = "cross_state" /\ \E t \in r.members : ReadsForeignState(r.bound[t]) THEN Failed("foreign state")
    ELSE ReadingRoot(in, request, cross, topology, r, RemoteReads(r))
JoinedRoot(in, request, cross, topology, label, leaves, accepted) ==
    IF \E t \in DOMAIN accepted : HasFailed(accepted[t]) THEN Failed("bindings")
    ELSE BoundRoot(in, request, cross, topology,
             [label |-> label, members |-> DOMAIN accepted, leaves |-> leaves,
              mode |-> ReferenceBindingMode(in.dep, in.pack.resources[Head(Sorted(DOMAIN accepted))].provider),
              bound |-> [t \in DOMAIN accepted |-> accepted[t].bindings],
              operators |-> [t \in DOMAIN accepted |-> accepted[t].operators]])
ScannedRoot(in, request, cross, topology, label, scanned) ==
    LET members == topology.members[label]
    IN  IF HasFailed(scanned) THEN scanned
        ELSE JoinedRoot(in, request, cross, topology, label, scanned.leaves,
                 [t \in members |-> AcceptedBindings(in, t, members, \E l \in scanned.leaves : l.type = t)])
\* Everything that is known of a root before a file of it is written, or what refuses it.
PreparedRoot(in, request, cross, topology, label) ==
    ScannedRoot(in, request, cross, topology, label, EnumerateCommittedReferenceTokens(in, topology.members[label]))

\* The files are written one after the other: main is there before the overlay is rendered.
WrittenFiles(directory, overlays, main, expressions, smoke) ==
    IF HasFailed(main) THEN [directory |-> directory, failure |-> main]
    ELSE IF overlays /\ HasFailed(expressions)
    THEN [directory |-> [directory EXCEPT !.main = main], failure |-> expressions]
    ELSE [directory |-> [main |-> main, smoke |-> smoke, expressions |-> IF overlays THEN expressions ELSE Null],
          failure |-> Null]
WrittenRoot(in, backend, cross, directory, label, root) ==
    IF HasFailed(root) THEN [directory |-> directory, failure |-> root]
    ELSE WrittenFiles(directory, BoundTypes(root.bound) # {},
             RenderEnvironmentMain(in, backend, label, root.members, BoundTypes(root.bound), {r.root : r \in root.references},
                                   IF label \in DOMAIN cross.outputs THEN cross.outputs[label] ELSE {}),
             RenderRootExpressions(in, root.bound, root.lookups),
             RenderEnvironmentSmokeTest(in, root.members, root.bound, root.references))
GenerateEnvironmentRoot(in, request, backend, cross, topology, directory, label) ==
    WrittenRoot(in, backend, cross, directory, label, PreparedRoot(in, request, cross, topology, label))

-----------------------------------------------------------------------------
(* The run *)

RootDone(run, label, one) == [run EXCEPT !.envs[label] = one.directory, !.failure = one.failure]
\* The first root that fails ends the run, the roots before it are written.
InOrder(in, request, envs, backend, topology, cross, labels) ==
    FoldLeft(LAMBDA run, label :
                 IF run.failure # Null THEN run
                 ELSE RootDone(run, label, GenerateEnvironmentRoot(in, request, backend, cross, topology, run.envs[label], label)),
             [envs |-> envs, marker |-> backend, failure |-> Null, labels |-> Range(labels)], labels)
RunOf(in, request, envs, marker, requested, cross) ==
    IF HasFailed(requested) \/ HasFailed(cross)
    THEN [envs |-> envs, marker |-> marker, labels |-> {}, failure |-> IF HasFailed(requested) THEN requested ELSE cross]
    ELSE InOrder(in, request, envs, IF request.backend = Null THEN marker ELSE request.backend,
                 RootTopologyFromIndex(in.pack, in.dep, {}), cross,
                 Sorted(CrossStateDependencyClosure(DOMAIN requested.members, cross.dependencies)))
\* envs: what the roots' directories hold; marker: the backend an earlier run wrote down.
GenerateEnvironmentRoots(in, request, envs, marker) ==
    RunOf(in, request, envs, marker, RootTopologyFromIndex(in.pack, in.dep, request.selectors), ResolveEdges(in.pack, in.dep))

-----------------------------------------------------------------------------
(* What the roots promise *)

\* The value a module receives once the states and sidecars are read: ids[<<t, space, key>>].
Identified(ids, at) == Text(IF at \in DOMAIN ids THEN ids[at] ELSE "<unresolved>")
RECURSIVE ValueOf(_, _)
ValueOf(e, ids) ==
    CASE e[1] = "output" -> Identified(ids, <<e[3], e[4], e[5]>>)
      [] e[1] = "lookup" -> Identified(ids, <<e[2], e[3], e[4]>>)
      [] e[1] = "try" -> ValueOf(e[2], ids)
      [] e[1] = "literal" -> e[2]
      [] e[1] = "list" -> List([i \in DOMAIN e[2] |-> ValueOf(e[2][i], ids)])
      [] e[1] = "object" -> Object(Put(e[4], e[2], ValueOf(e[3], ids)))
      [] OTHER -> Text("<operator>")
\* Numbers and their spelling are one here, and a zero in a list names nothing.
RECURSIVE Read(_, _)
Read(v, ids) ==
    CASE v[1] = "bound" -> Read(ValueOf(v[2], ids), ids)
      [] Is(v, "list") -> List([i \in DOMAIN NonZero(v[2]) |-> Read(NonZero(v[2])[i], ids)])
      [] Is(v, "object") -> Object([n \in DOMAIN v[2] |-> Read(v[2][n], ids)])
      [] Scalar(v) -> Text(IdentityComponent(v))
      [] OTHER -> v
Received(in, directory, t) ==
    LET items == ConfigOf(in, t)[2]
        bound == IF directory.expressions = Null \/ t \notin DOMAIN directory.expressions.bound THEN {}
                 ELSE directory.expressions.bound[t]
    IN  RenderExpressionBindings(items, bound).items

\* What the overlay d gives to type t of a root is sound.
RootResolves(in, request, run, t, d, lookups, parts, fallbacks) ==
    LET own == in.tree[t].bindings = Null /\ in.tree[t].operator = Null
        literals == UNION {TokensIn(p[2]) : p \in {q \in parts : q[1] = "literal"}}
        outputs == {p \in parts : p[1] = "output"}
    IN  /\ \A v \in TokensOf(Received(in, d, t)) \cup literals : ~ Decodes(lookups, v)
        /\ own => JsonConfigTokenLeaves(in, t, Received(in, d, t)) = {}
        /\ {o[2] : o \in outputs} = d.main.remotes
        /\ own => \A o \in outputs : o[2] \in run.labels /\ o[4] \in run.envs[o[2]].main.outputs[o[3]]
        /\ \A l \in fallbacks : <<l[2], l[3]>> \in d.expressions.lookups
        /\ (request.stateAware /\ fallbacks = {} /\ in.tree[t].operator = Null) =>
              \A o \in outputs : in.states[o[2]] # Null /\ o[3] \in in.states[o[2]].published
PartsOfRoot(d, t) ==
    IF d.expressions = Null THEN {} ELSE UNION {PartsOfExpression(b.expression) : b \in d.expressions.bound[t]}
FallbacksIn(parts) == {p[3] : p \in {q \in parts : q[1] = "try"}} \cup {p \in parts : p[1] = "lookup"}
RunResolves(in, request, run, lookups) ==
    run.failure = Null =>
        \A t \in run.labels : (ConfigOf(in, t) # Null /\ ~ in.dep.hcl) =>
            \E parts \in {PartsOfRoot(run.envs[t], t)} :
                RootResolves(in, request, run, t, run.envs[t], lookups, parts, FallbacksIn(parts))
\* The environments resolve: in a run that succeeds, no token that a sidecar decodes or a
\* reference field holds reaches a module, neither in an item nor as a literal inside an
\* expression; a state is read only of a root that the run has generated and that publishes
\* what is read of it, unless an operator or an older cache said so; every sidecar a fallback
\* names is there; and with states looked at, a binding without a fallback reads a usable one.
EnvironmentsResolve(in, request, envs, marker) ==
    RunResolves(in, request, GenerateEnvironmentRoots(in, request, envs, marker), CommittedLookups(in))

IdentitiesOf(t, lookup) ==
    [at \in {<<t, "id", k>> : k \in DOMAIN lookup.idByKey} |-> lookup.idByKey[at[3]]]
    @@ [at \in UNION {{<<t, f, k>> : k \in DOMAIN lookup.spaces[f].idByKey} : f \in DOMAIN lookup.spaces}
          |-> lookup.spaces[at[2]].idByKey[at[3]]]
Identities(in) ==
    FoldLeft(LAMBDA ids, t : IdentitiesOf(t, ResolveLookup(in.tree, t).lookup) @@ ids,
             <<>>, Sorted(CommittedLookupReferents(in.tree)))
ReadBack(in, t, raw, run) ==
    (run.failure = Null /\ t \in run.labels) =>
        \E received \in {Received(in, run.envs[t], t)} : \A k \in DOMAIN raw :
            Read(Object(received[k]), Identities(in)) = Read(Object(raw[k]), <<>>)
CommittedAs(in, t, compiled) ==
    [in EXCEPT !.tree[t] = [@ EXCEPT !.json = Whole(compiled.config), !.bindings = Null, !.operator = Null]]
GeneratedFrom(in, request, t, raw) ==
    ReadBack(in, t, raw, GenerateEnvironmentRoots(in, request, [l \in DOMAIN in.states |-> NoDirectory], Null))
RoundTripOf(in, request, t, raw, compiled) ==
    ~ HasFailed(compiled) => GeneratedFrom(CommittedAs(in, t, compiled), request, t, raw)
RoundTripUnder(in, request, t, raw, o) ==
    ~ HasFailed(o) =>
        RoundTripOf(in, request, t, raw, CompileTransformArtifacts(in.tree, t, o, [items |-> raw, originals |-> raw]))
\* References survive the way through the files: what transform commits of a pull, put into
\* a root by gen-env and read with the identities the sidecars hold, is what the pull said.
ReferencesRoundTrip(in, request, t, raw) ==
    ~ in.dep.hcl => RoundTripUnder(in, request, t, raw, LaneOptionsOf(in.pack, in.dep, t, in.blocks[t], <<>>))
=============================================================================
