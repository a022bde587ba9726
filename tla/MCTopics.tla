------------------------------ MODULE MCTopics ------------------------------
(***************************************************************************)
(* The inputs of MCDocuments that theorems speak of.  A plan is emitted by *)
(* Terraform record by record, and in every state the properties quantify  *)
(* over the policies, attestations and override flags an invocation can    *)
(* bring to it.  An assessment, a topology or the imports of a type are    *)
(* the document `doc` of one state.                                        *)
(***************************************************************************)
EXTENDS AssessmentReport, TransformArtifacts, Topology, Collectors, GeneratedConfig

CONSTANTS
    Addresses,   \* resource addresses
    MaxRecords   \* bound on the records of a plan

ASSUME PolicyAssumption == Null # {<<"s">>}   \* a policy is not the absence of one

VARIABLES
    plan,   \* the document `terraform show -json` renders
    doc     \* the input MCDocuments chose, by topic

\* Attribute "s" is a scalar, "m" a set, "l" a list.  "n1" and "n1r" are two
\* decimals with one binary64 rounding.
MCAttrs     == {"s", "m", "l"}
MCSetAttrs  == {"m"}
MCListAttrs == {"l"}
MCScalars   == {"n1", "n1r", "n2"}
MCRound     == [x \in MCScalars |-> IF x = "n1r" THEN "n1" ELSE x]

PlanObjects == [s : {"n1", "n1r", "n2"},
                m : {<<"n1", "n2">>, <<"n2", "n1">>, <<"n1r", "n2">>, <<"n1", Null>>, Null},
                l : {<<"n1">>, <<"n1", "n2">>}]

Base == [s |-> "n1", m |-> <<"n1", "n2">>, l |-> <<"n1">>]

\* Records whose content matters: updates of the base object.
Updates ==
    [address : Addresses, actions : {<<"update">>}, importing : BOOLEAN,
     before : {Base}, after : PlanObjects, unknown : {{}, {<<"m", 1>>}},
     identity : BOOLEAN, sensitivity : {FALSE}]

\* Records whose actions alone decide, and two plain updates.
Others ==
    [address : Addresses, actions : SupportedActionSequences,
     importing : BOOLEAN, before : {Base}, after : {Base}, unknown : {{}},
     identity : {FALSE}, sensitivity : {FALSE}]
    \cup
    [address : Addresses, actions : {<<"update">>}, importing : BOOLEAN,
     before : {Base}, after : {[Base EXCEPT !.s = "n2"]}, unknown : {{}},
     identity : {FALSE}, sensitivity : {FALSE}]

PlanInit ==
    plan \in [complete : BOOLEAN, errored : {FALSE}, outputsOK : {TRUE},
              changes : {{}}, drift : {{}}]

Records == Cardinality(plan.changes) + Cardinality(plan.drift)

\* At most one record of an address in a section, as Terraform renders them.
NewIn(section, c) == \A d \in section : d.address # c.address

AddChange(c) ==
    /\ Records < MaxRecords
    /\ NewIn(plan.changes, c)
    /\ plan' = [plan EXCEPT !.changes = @ \cup {c}]

AddDrift(c) ==
    /\ Records < MaxRecords
    /\ NewIn(plan.drift, c)
    /\ plan' = [plan EXCEPT !.drift = @ \cup {c}]

\* Content is explored one record at a time, combinations by action.
PlanNext ==
    \/ \E c \in Updates : Records = 0 /\ (AddChange(c) \/ AddDrift(c))
    \/ /\ plan.changes \cup plan.drift \subseteq Others
       /\ \E c \in Others : AddChange(c) \/ AddDrift(c)

-----------------------------------------------------------------------------
Policies     == {Null, {<<"s">>}, {<<"m">>, <<"l", 2>>}, {OpaqueUpdate}}
Attestations == {Null} \cup {[targets |-> T] : T \in SUBSET Addresses}

\* An update is cleared outright only when no value of it moved: a lossy
\* number comparison, a placeholder or an unknown never clears a record
\* (classifyChange, explainedBySetEquality, multisetDelta).
ClearedUpdatesAreUnchanged ==
    \A c \in plan.changes \cup plan.drift :
      /\ c.actions = <<"update">>
      /\ ClassifyChange(c, Null) = {Clean}
      => SameMeaning(c)

\* Whatever passes the apply gates is consented to.  Without --allow-destroy
\* it has no delete in either section, although the stance may demote refresh
\* drift (the refusal reads the strict classification).  Without
\* --allow-plan-changes every change is an import, a no-op, an update that
\* moves nothing or one the policy names, and refresh drift beyond that passes
\* only next to an import-only plan.  An incomplete plan only imports.
GatedPlansAreConsented ==
    \A policy \in Policies, attested \in Attestations,
       destroyAllowed \in BOOLEAN, changesAllowed \in BOOLEAN :
      ApplyGate(plan, policy, attested, destroyAllowed, changesAllowed)
        => Consented(plan, policy, destroyAllowed, changesAllowed)

\* A root that assert-clean reports unblocked without any policy is never
\* refused by apply, whatever policy it loads: the two commands' completeness
\* and classification gates agree (ValidateAssessmentPlan,
\* requireExactApplyTypedComplete).
AssertCleanImpliesApplicable ==
    \A policy \in Policies, attested \in Attestations :
      /\ ValidateAssessmentPlan(plan, attested, Null)
      /\ ClassifyPlan(plan, Null, Null, FALSE) # Blocked
      => ApplyGate(plan, policy, attested, FALSE, FALSE)

\* assert-clean scoped to the staged imports (post-import verification) never
\* accepts an incomplete plan that still has a resource to write, and never
\* hides refresh drift of an address in its scope.
ScopedAssertSeesImportedDrift ==
    \A attested \in Attestations, scope \in SUBSET Addresses :
      /\ ~plan.complete
      /\ ~AcceptIncompleteTargetedImportOnlyPlan(plan, attested)
      /\ ValidateAssessmentPlan(plan, attested, scope)
      /\ ClassifyPlan(plan, Null, scope, FALSE) # Blocked
      => /\ \A c \in plan.changes : OnlyNoOp(c)
         /\ \A c \in plan.drift : c.address \in scope => Harmless(c, Null)

-----------------------------------------------------------------------------
(* "report": assessed roots, a policy and the packs' guidance.             *)

MCTypeOf     == [a1 |-> "p_rule", a2 |-> "p_group"]
MCProviderOf == [p_rule |-> "p", p_group |-> "p"]
MCOwner      == [p_ |-> "p", q_ |-> "q"]
MCPrefixed   == [p_rule |-> <<"p_">>, p_group |-> <<"p_">>]
Change(a, actions, imported, to, unknown) ==
    [address |-> a, actions |-> actions, importing |-> imported, before |-> Base, after |-> to, unknown |-> unknown,
     identity |-> FALSE, sensitivity |-> FALSE]
ChangesOf(a) ==
    {Change(a, <<"update">>, FALSE, [Base EXCEPT !.s = "n2"], {}),
     Change(a, <<"update">>, FALSE, [Base EXCEPT !.s = "n2", !.m = <<"n2", "n1r">>], {}),
     Change(a, <<"update">>, FALSE, [Base EXCEPT !.m = <<"n2", "n1">>], {}),
     Change(a, <<"update">>, FALSE, [Base EXCEPT !.l = <<"n2", "n1">>], {<<"m", 1>>}),
     Change(a, <<"update">>, FALSE, [Base EXCEPT !.m = Null], {}), Change(a, <<"update">>, FALSE, Base, {}),
     Change(a, <<"create">>, TRUE, Base, {}), Change(a, <<"delete">>, FALSE, Base, {})}
PlansOf == [complete : {TRUE}, errored : {FALSE}, outputsOK : {TRUE},
            changes : {{}} \cup {{c} : c \in ChangesOf("a1")}, drift : {{}} \cup {{c} : c \in ChangesOf("a2")}]
RuleOf(lane, id, provider, scope, path, action, observed, flaw) ==
    [lane |-> lane, id |-> id, provider |-> provider, scope |-> scope, paths |-> {path}, action |-> action,
     observed |-> observed, flaw |-> flaw]
Guidance ==
    {{RuleOf("absent_default", "r1", "p", <<"type", "p_rule">>, <<"s">>, "manual_review_required", seen, "none"),
      RuleOf("absent_default", "r2", "p", <<"prefix", "p_">>, <<"l", 0>>, "manual_review_required", Null, flaw),
      RuleOf("provider_config", "r3", "p", <<"any">>, <<"m">>, action, Null, "none"),
      RuleOf("dynamic_schema", "r4", "q", <<"any">>, <<"m">>, "manual_review_required", Null, "none")} :
        seen \in {"n1r", "n2"}, flaw \in {"none", "text"}, action \in {"renderable_default", "diagnostic_only"}}
AssessedOf(label, members, document, secret) ==
    [tenant |-> "t", label |-> label, members |-> members, plan |-> document, attested |-> Null, secret |-> secret]
NoChange == [complete |-> TRUE, errored |-> FALSE, outputsOK |-> TRUE, changes |-> {}, drift |-> {}]
Errored  == [NoChange EXCEPT !.errored = TRUE]
RootsOf(document, secret) ==
    {<<>>, <<AssessedOf("y", {"z"}, NoChange, {}), AssessedOf("x", {"p_rule", "p_group"}, Errored, secret)>>,
     <<AssessedOf("x", {"p_rule", "p_group"}, document, secret)>>,
     <<AssessedOf("y", {"z"}, NoChange, {}), AssessedOf("x", {"p_rule", "p_group"}, document, secret)>>}

\* assert-clean takes no policy, and only a policy that was asked for can be unreadable.
Reports(modes, policies, reads, secrets) ==
    [topic : {"report"}, mode : modes, reads : {reads}, policy : policies, rules : Guidance,
     roots : UNION {RootsOf(d, secret) : d \in PlansOf, secret \in secrets}]
ReportTopic ==
    Reports({"assert-clean", "assert-adoptable"}, {Null}, TRUE, {{}, {"m"}, {"s", "l"}})
    \cup Reports({"assert-adoptable"}, {{<<"s">>}, {<<"m">>, <<"l", 2>>, OpaqueUpdate}}, TRUE, {{}, {"m"}, {"s", "l"}})
    \cup Reports({"assert-adoptable"}, {{<<"s">>}}, FALSE, {{}})

\* An assessment report blocks the changes that nothing explains, and else only updates
\* that cannot be told, and shows no content of a sensitive attribute; and the packs'
\* guidance, broken or not, never changes the classification (AssessSavedPlansReport,
\* buildReportWithIsolatedGuidance).
ReportTruthHere ==
    doc.topic = "report" =>
        ReportTellsTheTruth(doc.mode, [tenant |-> "t", policy |-> doc.policy], doc.reads, doc.policy, doc.rules, doc.roots)

-----------------------------------------------------------------------------
(* "topology": three types, the third a data referent in some of them.     *)

MCTypes == <<"a", "b", "d">>
MCFileNames ==
    [n \in {t \o s : t \in Range(MCTypes), s \in ConfigSuffixes \cup ImportSuffixes} |->
        CHOOSE f \in [resource : Range(MCTypes), suffix : ConfigSuffixes \cup ImportSuffixes] : f.resource \o f.suffix = n]
Resource(data, derive) == [generate |-> ~ data, dataReferent |-> data, derive |-> derive, provider |-> "p", product |-> "q", bare |-> "x"]
Field(f, referent, space) == [referent |-> referent, idField |-> space, nameField |-> "name", segments |-> <<f>>]
PackOf(references, data) ==
    [resources |-> [t \in Range(MCTypes) |-> Resource(t \in data, Null)],
     manifests |-> <<[references |-> references, lookups |-> [t \in data |-> "name"]]>>]
DeploymentOf(overlay, moduleDir, hcl, bound) ==
    [overlay |-> overlay, moduleDir |-> moduleDir, hcl |-> hcl, crossState |-> IF bound THEN <<>> ELSE "p" :> FALSE]
AllSelected == Range(MCTypes)

\* The types have a place in the order of names, and each has a name for each of its files.
ASSUME TypesAssumption ==
    /\ AllSelected \subseteq Range(NameOrder)
    /\ \A t \in AllSelected, s \in ConfigSuffixes \cup ImportSuffixes :
          \E n \in DOMAIN FileNames : FileNames[n] = [resource |-> t, suffix |-> s]

Refers(to) == [t \in DOMAIN to |-> [f \in {"a_id"} |-> Field(f, to[t], Null)]]
PacksOf ==
    {PackOf(Refers(to), data) : to \in UNION {[S -> AllSelected] : S \in SUBSET AllSelected}, data \in {{}, {"d"}}}
DeploymentsOf ==
    [overlay : {<<>>, <<"o">>}, moduleDir : {Null, <<"m">>, <<"o", "envs">>}, hcl : BOOLEAN, crossState : {<<>>}]
TopologyTopic ==
    [topic : {"topology"}, pack : PacksOf, deployment : {DeploymentOf(<<"o">>, Null, FALSE, TRUE)},
     selected : {AllSelected, {"a", "b"}}]
    \cup [topic : {"topology"}, pack : {PackOf(Refers("b" :> "a"), {"d"})}, deployment : DeploymentsOf,
          selected : {AllSelected}]
\* A change of any file that a lane or gen-env writes for a type names the type's root in the
\* scope of changed paths, and every type is transformed after all it refers to
\* (scopeOnePath, computeTransformArtifactPaths, referenceOrder).
ScopeCoversFilesHere ==
    doc.topic = "topology" =>
        ScopeCoversFiles(doc.pack, doc.deployment, <<"deployment.json">>, "t", doc.selected)

-----------------------------------------------------------------------------
(* "moves": the imports of a type before and after a regeneration.         *)

PartialMaps == UNION {[S -> {"i1", "i2", "i3"}] : S \in SUBSET {"k1", "k2", "k3"}}
MovesTopic == [topic : {"moves"}, old : PartialMaps, new : PartialMaps]
\* The moved blocks of a regeneration carry each object to the key that now names its
\* identity, never onto a key in use, and a plain rename is never a destroy and an import
\* (deriveImportMoves).
MovesReconcileHere == doc.topic = "moves" => MovesReconcile(doc.old, doc.new)

-----------------------------------------------------------------------------
(* "pull" and "sign in": what a resource is collected from.                *)

Named(ids) == [i \in DOMAIN ids |-> Object("id" :> Text(ids[i]))]
Held == {Named(s) : s \in {<<>>, <<"x">>, <<"x", "y">>, <<"x", "y", "z">>, <<"x", "y", "z", "a">>}} \cup {<<Object("id" :> Nil), Text("x")>>}
FetchOf(pagination, envelope, expand, follow) ==
    [pagination |-> pagination, envelope |-> envelope, path |-> "base", braces |-> DOMAIN expand, expand |-> expand,
     mergePaths |-> <<>>, followPaths |-> IF follow THEN <<[path |-> "sub", fromField |-> "id"]>> ELSE <<>>]
Settings == {Nil, Object("x" :> Nil), Object("y" :> Number(1)), Object(("y" :> Nil) @@ ("z" :> Bool(TRUE)))}
OnePaths == {<<"base">>, <<"base", "1">>, <<"sub", "y">>}
TwoPaths == {<<"base", "2">>, <<"sub", "x">>}
ServerOf(one, two) == [path \in OnePaths \cup TwoPaths |-> IF path \in OnePaths THEN one ELSE two]
SettingsOf(one, two) == [path \in {<<"base">>, <<"sub">>} |-> IF path = <<"base">> THEN <<one>> ELSE <<two>>]
Fetches == {FetchOf(p, e, x, f) : p \in {"zia", "zpa", "single", "zcc_v2"}, e \in {Null, "data"},
                                  x \in {<<>>, Entry1("k", <<"1", "2">>)}, f \in BOOLEAN}
MergedFetches ==
    {[FetchOf("single", Null, <<>>, FALSE) EXCEPT !.mergePaths = more] : more \in {<<"sub">>, <<"sub", "sub">>}}
Servers == {ServerOf(one, two) : one \in Held, two \in {Named(<<"a">>), Named(<<"a", "b", "c">>)}}
SettingsServers == {SettingsOf(one, two) : one \in Settings, two \in Settings}
PullTopic ==
    [topic : {"pull"}, entry : Fetches, held : Servers, pages : {4}, fault : 0..2, silent : BOOLEAN]
    \cup [topic : {"pull"}, entry : MergedFetches, held : SettingsServers, pages : {1}, fault : 0..1, silent : {FALSE}]
VariablesSet == UNION {[S -> {"c1"}] : S \in SUBSET {"ZSCALER_USE_LEGACY_CLIENT", "ZSCALER_CLOUD", "ZIA_CLOUD", "ZPA_CUSTOMER_ID", "ZIA_LEGACY_BASE_URL", "ZPA_CLOUD"}}
AllCredentials == UNION {Credentials(mode, product) : mode \in {"oneapi", "legacy"}, product \in {"zia", "zpa"}}
SignInTopic ==
    [topic : {"sign in"}, env : {set @@ [v \in credentials |-> "s"] : set \in VariablesSet, credentials \in {{}, AllCredentials}},
     products : {{"zia"}, {"zia", "zpa"}, {"zcc"}}, product : {"zia", "zpa", "zcc"},
     response : {[status |-> 200, payload |-> Object("access_token" :> Text("x"))], [status |-> 200, payload |-> Null], [status |-> 401, payload |-> Null]}]
\* A resource is collected whole and in order or fails, whatever the way of paging; and a
\* product whose sign-in succeeded can be asked, with its session cookie, at the host that
\* gave it (FetchResource, CollectorContext, composeProductURL).
CollectionsAreSound ==
    /\ doc.topic = "pull" => PullsAreComplete(doc.entry, doc.held, doc.pages, doc.fault, doc.silent)
    /\ doc.topic = "sign in" => SignedInProductsAreReachable(doc.env, doc.products, doc.product, doc.response)

-----------------------------------------------------------------------------
(* "policy": one object, its policy grown entry by entry.  A resource type *)
(* with required, optional, computed and secret attributes, a repeated and *)
(* a single block.                                                         *)

LeafOf(class, sensitive) == [kind |-> "attribute", class |-> class, sensitive |-> sensitive, type |-> "string"]
BlockOf(kind) == [kind |-> kind, class |-> "optional", sensitive |-> FALSE, type |-> "block"]
MCSchema == (<<"a">> :> LeafOf("required", FALSE)) @@ (<<"o">> :> LeafOf("optional", FALSE))
         @@ (<<"p">> :> LeafOf("optional", TRUE))
         @@ (<<"c">> :> LeafOf("computed", FALSE)) @@ (<<"k">> :> LeafOf("computed", TRUE))
         @@ (<<"b">> :> BlockOf("list")) @@ (<<"b", "x">> :> LeafOf("required", FALSE))
         @@ (<<"b", "y">> :> LeafOf("optional", FALSE))
         @@ (<<"s">> :> BlockOf("single")) @@ (<<"s", "x">> :> LeafOf("optional", FALSE))
MCIndices == {"0", "1"}

StatePaths == {<<"a">>, <<"o">>, <<"c">>, <<"k">>, <<"b">>, <<"b", "0">>, <<"b", "0", "x">>,
               <<"b", "0", "y">>, <<"s">>, <<"s", "x">>}
StateOf(o, absent) == [p \in StatePaths \ absent |->
    [says |-> IF p = <<"o">> THEN o ELSE IF IsBlock(p) THEN "block" ELSE "v", from |-> p]]
Full == StateOf("v", {})
Absences == {{}, {<<"o">>}, {<<"a">>}}
ASSUME StatesAssumption == \A o \in {"v", "w", "empty", "null"}, absent \in Absences : StateFits(StateOf(o, absent))
PathStrings == {"*", "0", "a", "b", "c", "o", "p", "s", "x", "y"}
ASSUME StringsAssumption == PathStrings \subseteq STRING   \* the paths of the entries are of strings
RawField(says) == [says |-> says, from |-> <<"raw">>, known |-> TRUE]
RawOf(o) == [f \in {<<"o">>, <<"p">>} |-> RawField(IF f = <<"o">> THEN o ELSE "w")]
Masks == {{}, {<<"o">>}, {<<"c">>}, {<<"b", "0", "y">>}, {<<"s">>}, {<<"k">>}}
Defaults == {<<>>, <<[path |-> <<"o">>, values |-> {"w"}]>>, <<[path |-> <<"b", "y">>, values |-> {"v"}]>>}
E(path, source, values) == Entry(path, path, source, values)
EntriesOf ==
    [projection_omit |-> {E(p, Null, {}) : p \in {<<"o">>, <<"a">>, <<"b", "*", "y">>, <<"b">>, <<"s">>, <<"s", "x">>, <<"s", "*", "x">>, <<"b", "0", "y">>}},
     projection_sync |-> {E(<<"o">>, <<"c">>, {}), E(<<"o">>, <<"k">>, {}), E(<<"s", "x">>, <<"o">>, {}),
                          E(<<"p">>, <<"o">>, {}), E(<<"c">>, <<"a">>, {}), E(<<"o">>, <<"b", "y">>, {})},
     projection_fill |-> {E(<<"o">>, <<"o">>, {}), E(<<"p">>, <<"p">>, {}), E(<<"a">>, <<"o">>, {})},
     projection_omit_if |-> {E(<<"o">>, Null, {"v"}), E(<<"o">>, Null, {"w"}), E(<<"o">>, Null, {"null"}), E(<<"b", "*", "y">>, Null, {"v"}), E(<<"a">>, Null, {"v"})},
     plan_tolerate |-> {E(p, Null, {}) : p \in {<<"o">>, <<"b", "*", "y">>, <<"b", "0", "y">>}}]
EntriesIn(policy) == Cardinality(UNION {{<<m, i>> : i \in DOMAIN policy[m]} : m \in PolicyModes})

PolicyTopic ==
    [topic : {"policy"}, policy : {EmptyPolicy}, state : {Full}, mask : Masks, raw : {<<>>}, defaults : {<<>>}]
    \cup [topic : {"policy"}, policy : {EmptyPolicy}, mask : {{}}, raw : {RawOf("v")}, defaults : {<<>>},
          state : {StateOf(o, absent) : o \in {"v", "empty", "null"}, absent \in Absences}]
    \cup [topic : {"policy"}, policy : {EmptyPolicy}, state : {Full, StateOf("w", {})}, mask : {{}},
          raw : {Null, RawOf("w")}, defaults : Defaults]

AddEntry ==
    /\ doc.topic = "policy" /\ EntriesIn(doc.policy) < 2
    /\ \E m \in PolicyModes : \E e \in EntriesOf[m] :
          LET more == [doc.policy EXCEPT ![m] = Append(@, e)]
          IN  ValidPolicy(more) /\ doc' = [doc EXCEPT !.policy = more]

\* A drift policy never puts a secret into an object, lets nothing in that it omits, keeps
\* what is required, has no effect by an entry that is reported stale, and answers tolerances
\* as its document reads (ProjectProviderState, StaleEntries, compilePlanTolerances).
PolicyIsSafeHere ==
    doc.topic = "policy" =>
        PolicyIsSafe(doc.state, doc.mask, doc.policy, doc.raw, doc.defaults,
                     ProjectProviderState(doc.state, doc.mask, doc.policy, doc.raw, doc.defaults))
=============================================================================
