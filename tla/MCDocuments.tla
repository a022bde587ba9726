------------------------------ MODULE MCDocuments ------------------------------
(***************************************************************************)
(* TLC instance of the modules that compute one document from others.  A   *)
(* state is one input, and doc.topic says of what; it is chosen in one     *)
(* step, and a plan and a policy are made entry by entry.                  *)
(***************************************************************************)
EXTENDS MCTopics, AdoptIdentity, EnvironmentRoots

MCOrder == <<"", "&A", "1", "2", "3", "A", "B", "a", "a_id", "b", "c", "conditions", "d", "d_id", "description", "free", "i1",
             "i2", "id", "k1", "k2", "limit", "m", "max", "mystery", "name", "op", "parent_id",
             "parentId", "size", "tags", "unit", "val", "x", "y", "z">>
MCSnakeOf   == "parentId" :> "parent_id"
MCIntegerOf == ("1" :> 1) @@ ("2" :> 2) @@ ("3" :> 3)
MCPartsOf   == "y,x" :> <<"y", "x">>
MCIdNames   == {"id", "parent_id", "a_id", "d_id"}
MCUnescape  == "&A" :> "A"
MCEmpty     == <<>>

-----------------------------------------------------------------------------
(* "policy": the text that Terraform generates for the object, beside what *)
(* MCTopics projects.                                                      *)

\* What Terraform generates for the object: a line for each input of it and of its blocks, one
\* of them perhaps not literal.  Most versions write what is null as "null" (nulls), and a
\* sensitive input as "null # sensitive", which is no literal.  Each block has a position in
\* the text.
Spelled0(p) == IF p[1] = "s" THEN <<"s", "0">> \o Tail(p) ELSE p
LinesOf(state, nulls) ==
    LET entered == Instances(state, <<>>)
    IN  (entered \ {<<>>}) \cup {c \in UNION {InputsOf(i) : i \in entered} :
                                    ~ IsBlock(c) /\ (nulls \/ PresentIn(state, c))}
TextOf(state, nulls, known) ==
    <<[address |-> "r", lines |->
        [p \in {Spelled0(q) : q \in LinesOf(state, nulls)} |->
            LET q == CHOOSE q \in LinesOf(state, nulls) : Spelled0(q) = p
            IN  [says |-> SaysAt(state, q),
                 known |-> ~ IsBlock(q) /\ ~ NodeAt(q).sensitive /\ (known \/ q # <<"o">>)]]]>>

\* What the policy made of a text.
Corrected(text) ==
    ApplyGeneratedConfigPolicies(text, doc.policy, doc.defaults, "r" :> "k", IF doc.raw = Null THEN Null ELSE "k" :> doc.raw)
TextIsSafe(text, corrected) == ~ corrected.failed => TextIsCorrected(text, corrected, doc.policy)
TextsAgree(projected, literal, other) ==
    LET corrected == Corrected(literal)
    IN  /\ TextIsSafe(literal, corrected) /\ TextIsSafe(other, Corrected(other))
        /\ (~ corrected.failed /\ ~ projected.failed /\ doc.policy["projection_sync"] = <<>>) =>
              AgreesWithText(projected, literal, corrected, doc.policy)

\* The text that Terraform plans with holds nothing that the policy omits and has lost nothing
\* required; without a sync its attributes say what those of the committed object do, but where
\* a fill meets a null line (ApplyGeneratedConfigPolicies, ProjectProviderState).
PlannedTextAgreesHere ==
    doc.topic = "policy" => \A nulls \in BOOLEAN :
        TextsAgree(ProjectProviderState(doc.state, doc.mask, doc.policy, doc.raw, doc.defaults),
                   TextOf(doc.state, nulls, TRUE), TextOf(doc.state, nulls, FALSE))

-----------------------------------------------------------------------------
(* "transform": up to three items of one type, whose keys may be made of   *)
(* each other's names.                                                     *)

Att(type, required, computed) ==
    [required |-> required, optional |-> ~ required /\ ~ computed, computed |-> computed, deprecated |-> FALSE, type |-> type]
Primitive(kind) == Att(<<kind>>, FALSE, FALSE)
Nested(single, block) == [single |-> single, nesting |-> "list", block |-> block]
RuleBlock ==
    [attributes |-> ("id" :> Att(<<"string">>, FALSE, TRUE)) @@ ("name" :> Att(<<"string">>, TRUE, FALSE))
                 @@ ("parent_id" :> Primitive("string")) @@ ("size" :> Primitive("number"))
                 @@ ("tags" :> Att(<<"set", <<"string">>>>, FALSE, FALSE)),
     blocks |-> ("limit" :> Nested(TRUE, [attributes |-> ("max" :> Primitive("number")) @@ ("unit" :> Primitive("string")), blocks |-> <<>>]))
             @@ ("conditions" :> Nested(FALSE, [attributes |-> "op" :> Primitive("string"), blocks |-> <<>>]))]

RawItem(id, name, more) == Object(("id" :> Number(id)) @@ ("name" :> Text(name)) @@ more)
Limit(v) == "limit" :> v
MoreOf ==
    {<<>>, "parentId" :> Number(1), "parentId" :> Number(3), "size" :> Text("1"), "tags" :> Text("y,x"), "mystery" :> Text("x"),
     Limit(List(<<>>)), Limit(Text("x")), Limit(Object("id" :> Number(0))),
     Limit(List(<<Object("max" :> Number(1)), Object(("max" :> Number(2)) @@ ("unit" :> Text("x")))>>)),
     "conditions" :> List(<<Object("op" :> Text("x")), Object("z" :> Nil)>>), "conditions" :> Text("x")}
RawLists ==
    {<<RawItem(1, "A", more), RawItem(2, name, other)>> : name \in {"A", "B", "&A"}, more \in MoreOf, other \in MoreOf}
    \cup {<<RawItem(1, "A", <<>>), RawItem(2, name, more), RawItem(3, "B", other)>> : name \in {"B", "&A"}, more \in MoreOf, other \in MoreOf}
ByParent == [NoOverride EXCEPT !.keyFields = <<"parent_id", "name">>,
                               !.keyReferences = "parent_id" :> [idField |-> "id", nameField |-> "name"]]
Overrides ==
    {NoOverride, ByParent,
     [ByParent EXCEPT !.skipIf = <<"name" :> Text("A")>>],
     [ByParent EXCEPT !.skipIfLte = <<"id" :> Number(1)>>],
     [NoOverride EXCEPT !.keyFields = <<"name", "id">>, !.skipIf = <<"parent_id" :> Number(1), "mystery" :> Text("x")>>],
     [ByParent EXCEPT !.escapeFields = {"name"}],
     [NoOverride EXCEPT !.renames = "size" :> "name", !.keyFields = <<"id">>],
     [NoOverride EXCEPT !.splitCsv = {"tags"}, !.sortLists = {"tags"}, !.keyFields = <<"id">>, !.acknowledged = {<<"mystery">>}],
     [NoOverride EXCEPT !.drops = {<<"mystery">>, <<"limit", "unit">>}, !.mergeBlocks = {"conditions"}, !.keyFields = <<"id">>],
     [NoOverride EXCEPT !.divide = "size" :> 2, !.dropIfDefault = <<"size">> :> Number(1), !.keyFields = <<"id">>]}

TransformTopic == [topic : {"transform"}, raw : RawLists, override : Overrides, unescapes : BOOLEAN]
\* Every item that was pulled is skipped by a rule or has one configuration of its own, a skip
\* never changes the key of another item, what an item loses is told, and adopt imports the
\* keys that transform writes (executeTransform, deriveAdoptionIdentities).
TransformAccountsHere ==
    doc.topic = "transform" => TransformAccounts(doc.raw, RuleBlock, doc.override, doc.unescapes)

-----------------------------------------------------------------------------
(* "environment": b refers to a and to the data referent d; what is        *)
(* committed, published, looked up and in state varies.                    *)

NoArtifacts == [f \in {"json", "hcl", "data", "dataHcl", "lookup", "oldLookup", "imports", "moves", "bindings", "operator"} |-> Null]
LookupWith(spaces) ==
    Whole([byId |-> <<>>, idByKey |-> "k1" :> "i1", keyById |-> "i1" :> "k1",
           spaces |-> [f \in spaces |-> [idByKey |-> "k1" :> "i2", keyById |-> "i2" :> "k1"]]])
IdBlock == [attributes |-> [n \in {"a_id", "d_id", "free"} |-> Att(<<"list", <<"string">>>>, FALSE, FALSE)], blocks |-> <<>>]
Two == ("a_id" :> Field("a_id", "a", Null)) @@ ("d_id" :> Field("d_id", "d", Null))
ByVal == "a_id" :> Field("a_id", "a", "val")
TokenK(k, space) == Token("a", k, space)
Identifiers == {Text("i1"), TokenK("k1", "id"), TokenK("k2", "id"), TokenK("k1", "val"),
                List(<<TokenK("k1", "id"), Text("")>>), List(<<TokenK("k1", "id"), TokenK("k1", "id")>>)}
Committed == {<<>>} \cup {"m" :> (f :> v) : f \in {"a_id", "free"}, v \in Identifiers}
             \cup {"m" :> (("a_id" :> v) @@ ("d_id" :> Token("d", "k1", "id"))) : v \in {Text("i1"), TokenK("k1", "id")}}
BindingAt(f, e) == Whole(<<[key |-> "m", path |-> <<Step(f)>>, expression |-> e, sensitive |-> FALSE]>>)
Cached == {Null} \cup {BindingAt(f, e) : f \in {"a_id", "free"}, e \in {Variable("x"), Output("a", "a", "id", "k1"), Output("a", "a", "val", "k1")}}
InputOf(references, items, operator, cached, ofA, ofD, state) ==
    [pack |-> PackOf("b" :> references, {"d"}), dep |-> DeploymentOf(<<>>, Null, FALSE, TRUE),
     blocks |-> [t \in Range(MCTypes) |-> IdBlock],
     tree |-> ("a" :> [NoArtifacts EXCEPT !.lookup = ofA])
           @@ ("b" :> [NoArtifacts EXCEPT !.json = Whole(items), !.operator = operator, !.bindings = cached])
           @@ ("d" :> [NoArtifacts EXCEPT !.lookup = ofD, !.data = Whole(<<>>)]),
     states |-> [l \in Range(MCTypes) |-> IF l = "a" THEN state ELSE Null]]
Lookups == {Null, LookupWith({}), LookupWith({"val"})}
StatesOfA == {Null, [malformed |-> FALSE, published |-> {"a"}]}
Requests == [selectors : {{}, {"b"}}, backend : {Null}, stateAware : BOOLEAN]
NoEnvironments == [l \in Range(MCTypes) |-> NoDirectory]
EnvironmentTopic ==
    [topic : {"environment"}, request : Requests,
     in : {InputOf(r, i, Null, cached, ofA, ofD, state) :
             r \in {Two, ByVal}, i \in Committed, cached \in Cached, ofA \in Lookups, ofD \in {Null, LookupWith({})}, state \in StatesOfA}
          \cup {InputOf(r, i, BindingAt("a_id", Output("a", "a", "id", "k1")), Null, ofA, LookupWith({}), state) :
             r \in {Two, ByVal}, i \in Committed, ofA \in Lookups, state \in StatesOfA}]
\* After a gen-env that succeeds no reference token reaches a module, and what a root reads of
\* another root is published there (GenerateEnvironmentRoots, renderRootExpressions).
EnvironmentsResolveHere ==
    doc.topic = "environment" => EnvironmentsResolve(doc.in, doc.request, NoEnvironments, Null)

\* "round trip": what b pulls is committed and put into its root.
Pulled == {"m" :> ("a_id" :> v) : v \in {Text("i1"), Text("i2"), Number(1), List(<<Text("i1"), Number(0), Text("i2")>>),
                                         List(<<Text("i1"), Text("")>>)}}
RoundTripTopic ==
    [topic : {"round trip"}, request : Requests, raw : Pulled,
     in : {InputOf(r, <<>>, Null, Null, ofA, LookupWith({}), state) : r \in {Two, ByVal}, ofA \in Lookups, state \in StatesOfA}]
\* What transform commits of a pull, put into a root by gen-env and read with the identities
\* that the lookup sidecars hold, is what was pulled (tokenizeReferences, decodeToken).
ReferencesRoundTripHere ==
    doc.topic = "round trip" => ReferencesRoundTrip(doc.in, doc.request, "b", doc.raw)

-----------------------------------------------------------------------------
Inputs(topic) ==
    CASE topic = "policy"      -> PolicyTopic
      [] topic = "transform"   -> TransformTopic
      [] topic = "topology"    -> TopologyTopic
      [] topic = "moves"       -> MovesTopic
      [] topic = "environment" -> EnvironmentTopic
      [] topic = "round trip"  -> RoundTripTopic
      [] topic = "pull"        -> PullTopic
      [] topic = "sign in"     -> SignInTopic
      [] topic = "report"      -> ReportTopic
DocumentInit ==
    \/ doc = [topic |-> "plan"] /\ PlanInit
    \/ /\ plan = NoChange
       /\ doc \in [topic : {"choose"}, of : {"policy", "transform", "topology", "moves", "environment",
                                            "round trip", "pull", "sign in", "report"}]
ChooseInput == doc.topic = "choose" /\ doc' \in Inputs(doc.of) /\ UNCHANGED plan
DocumentNext ==
    \/ doc.topic = "plan" /\ PlanNext /\ UNCHANGED doc
    \/ ChooseInput
    \/ AddEntry /\ UNCHANGED plan
DocumentSpec == DocumentInit /\ [][DocumentNext]_<<doc, plan>>
=============================================================================
