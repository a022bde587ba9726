-------------------------- MODULE AssessmentReport --------------------------
(***************************************************************************)
(* From classified plans to the published report: the findings with their  *)
(* redacted content (go/internal/assessment/eval.go), the packs' guidance  *)
(* joined to what is blocked (guidance.go), the report and its isolation   *)
(* from broken guidance (report.go, assessment.go) and the validator every *)
(* report passes (semantics.go).                                           *)
(*                                                                         *)
(* A root is [tenant, label, members, plan, attested, secret]: the types   *)
(* it holds, the document of PlanEval, its attestation and the attributes  *)
(* both of whose sides Terraform marks sensitive.  A guidance rule is      *)
(*   [lane, id, provider, scope, paths, action, observed, flaw]            *)
(* with scope <<"any">>, <<"type", t>> or <<"prefix", p>>, paths in schema *)
(* form, observed Null or a scalar, and flaw "none", "text" (an unreadable *)
(* field) or "mode" (a vocabulary the lane refuses).                       *)
(***************************************************************************)
EXTENDS PlanEval, SequencesExt

CONSTANTS
    TypeOf,      \* [addresses -> resource types]
    ProviderOf,  \* [resource types -> providers]
    Owner,       \* [provider prefixes -> providers]
    Prefixed     \* [types -> the prefixes of Owner it starts with, longest first]

ASSUME ReportAssumption == Null \notin {"sha", "policy_error", "no_saved_plans", "assessment_error"}

Lanes == {"provider_config", "absent_default", "dynamic_schema"}

AnyIndex == 0

\* FormatSchemaPlanPath: every index becomes [].
SchemaPath(p) == IF Len(p) = 1 THEN p ELSE <<p[1], AnyIndex>>

-----------------------------------------------------------------------------
(* Findings with content *)

\* One entry of diffChangesAt / setAttributeChanges, after redactedChange.
Content(c, p, secret) ==
    LET x == c.before[p[1]]
        y == c.after[p[1]]
        asSet == p[1] \in SetAttrs /\ x # Null /\ y # Null
        known == asSet /\ ~HasPlaceholder(x) /\ ~HasPlaceholder(y)
        value(v) == IF asSet THEN Null ELSE IF Len(p) = 1 THEN v ELSE At(v, p[2])
        hidden == p[1] \in secret
    IN  [kind      |-> IF asSet THEN "set" ELSE "scalar",
         sensitive |-> hidden,
         before    |-> IF hidden THEN Null ELSE value(x),
         after     |-> IF hidden THEN Null ELSE value(y),
         added     |-> IF ~known \/ hidden THEN {}
                       ELSE {m \in MultisetDelta(x, y) : Occurrences(m, y) > Occurrences(m, x)},
         removed   |-> IF ~known \/ hidden THEN {}
                       ELSE {m \in MultisetDelta(x, y) : Occurrences(m, x) > Occurrences(m, y)}]

\* classifyChange's path list under a status.
FindingPaths(c, policy, status) ==
    CASE status = Clean         -> {}
      [] HasAction(c, "delete") -> {<<"<delete>">>}
      [] HasAction(c, "create") -> {<<"<create>">>}
      [] HasAction(c, "update") ->
           IF status = Tolerated \/ policy = Null THEN UpdatePaths(c)
                                                  ELSE UpdatePaths(c) \ policy
      [] OTHER -> {<<"<unsupported_action>">>}

\* Mutant: content survives for differences the policy tolerated away.
EveryChange(c, paths, secret) == [p \in ValuePaths(c) |-> Content(c, p, secret)]

\* changesForPaths: content only for the paths the finding reports.
ChangesForPaths(c, paths, secret) ==
    [p \in ValuePaths(c) \cap paths |-> Content(c, p, secret)]

Finding(c, source, status, paths, secret) ==
    [status |-> status, source |-> source, address |-> c.address, paths |-> paths,
     changes |-> ChangesForPaths(c, paths, secret)]
RecordFindings(c, source, policy, secret) ==
    {Finding(c, source, s, FindingPaths(c, policy, s), secret) : s \in ClassifyChange(c, policy)}

\* ClassifyPlanWithOptions: drift findings are demoted after classification.
PlanFindings(plan, policy, scope, demote, secret) ==
    LET In(section, source) ==
          UNION {RecordFindings(c, source, policy, secret)
                   : c \in {d \in section : InScope(d, scope)}}
    IN  In(plan.changes, "resource_changes") \cup
        {IF demote /\ f.status = Blocked THEN [f EXCEPT !.status = Tolerated] ELSE f
           : f \in In(plan.drift, "resource_drift")}

-----------------------------------------------------------------------------
(* Guidance *)

Sections(plan) ==
    ({"resource_changes"} \X plan.changes) \cup ({"resource_drift"} \X plan.drift)

\* planGuidanceRecords: what the updates of one type change.
Candidates(plan, type) ==
    UNION {{[source |-> sc[1], address |-> sc[2].address, path |-> p, before |-> sc[2].before]
              : p \in ValuePaths(sc[2]) \cup {CollapseSetPath(q) : q \in sc[2].unknown}}
             : sc \in {x \in Sections(plan)
                          : TypeOf[x[2].address] = type /\ HasAction(x[2], "update")}}

Covers(rule, type) ==
    \/ rule.scope = <<"any">>
    \/ rule.scope = <<"type", type>>
    \/ rule.scope[1] = "prefix" /\ Contains(Prefixed[type], rule.scope[2])

\* validateGuidanceScope: a type belongs to its longest prefix's provider.
OwnsScope(rule) ==
    IF rule.scope[1] = "type"
    THEN /\ Prefixed[rule.scope[2]] # <<>>
         /\ Owner[Prefixed[rule.scope[2]][1]] = rule.provider
    ELSE rule.scope[1] = "prefix" /\ Owner[rule.scope[2]] = rule.provider

\* providerGuidanceLaneRules: one bad rule refuses the provider's whole lane.
LaneRulesHold(rules) ==
    /\ \A r \in rules : r.flaw = "none" /\ OwnsScope(r)
    /\ \A r, q \in rules :
         /\ r # q => r.scope # q.scope \/ r.paths # q.paths
         /\ r.scope[1] = "type" /\ q.scope[1] = "prefix" /\ r.paths = q.paths
              => ~Contains(Prefixed[r.scope[2]], q.scope[2])

\* providerConfigGuidance reads the vocabulary only of rules that apply.
ConfigRulesHold(rules, type) ==
    LET applied == {r \in rules : Covers(r, type)}
    IN  /\ \A r \in rules : r.flaw # "text"
        /\ \A r \in applied :
             r.flaw = "none" /\ (r.action = "renderable_default" => r.scope = <<"any">>)
        /\ \A r, q \in applied : r # q => r.id # q.id

\* valueAtGuidancePath compared with the value the rule observed.
Observes(rule, candidate) ==
    LET v == candidate.before[candidate.path[1]]
    IN  \/ rule.lane # "absent_default" \/ rule.observed = Null
        \/ IF Len(candidate.path) = 1
           THEN candidate.path[1] \notin ArrayAttrs /\ v # Null /\ ScalarPyEqual(v, rule.observed)
           ELSE v # Null /\ candidate.path[2] <= Len(v)
                /\ ScalarPyEqual(v[candidate.path[2]], rule.observed)

Reported(rule) ==
    IF rule.lane = "provider_config"
    THEN rule.action \in {"required_external", "renderable_default"}
    ELSE rule.action = "manual_review_required"

\* One lane for one type; safeCollectGuidance turns its failure into nothing.
LaneGuidance(rules, plan, type, lane) ==
    LET own == {r \in rules : r.lane = lane /\ r.provider = ProviderOf[type]}
        holds == IF lane = "provider_config" THEN ConfigRulesHold(own, type) ELSE LaneRulesHold(own)
        applied == {r \in own : Reported(r) /\ Covers(r, type)}
    IN  IF ~holds THEN {}
        ELSE {[lane |-> lane, id |-> rx[1].id, type |-> type, source |-> rx[2].source,
               address |-> rx[2].address, matched |-> SchemaPath(rx[2].path)]
                : rx \in {rx \in applied \X Candidates(plan, type)
                            : SchemaPath(rx[2].path) \in rx[1].paths /\ Observes(rx[1], rx[2])}}

\* joinBlockedGuidance: an annotation attaches to every blocked path it names.
JoinBlockedGuidance(findings, annotations) ==
    UNION {{[lane |-> a.lane, id |-> a.id, type |-> a.type, source |-> a.source,
             address |-> a.address, matched |-> a.matched, at |-> fp[2]]
              : a \in {b \in annotations : /\ b.source = fp[1].source
                                           /\ b.address = fp[1].address
                                           /\ b.matched = SchemaPath(fp[2])}}
             : fp \in UNION {{g} \X g.paths : g \in {h \in findings : h.status = Blocked}}}

CollectAssessmentGuidance(rules, plan, members, findings) ==
    JoinBlockedGuidance(findings,
      UNION {LaneGuidance(rules, plan, tl[1], tl[2]) : tl \in members \X Lanes})

-----------------------------------------------------------------------------
(* The report *)

DerivedStatus(statuses) ==
    IF Blocked \in statuses THEN Blocked
    ELSE IF Tolerated \in statuses THEN Tolerated ELSE Clean

Counted(roots, status) == Cardinality({i \in DOMAIN roots : roots[i].status = status})

\* buildAssessmentCore.
Core(roots, policySHA, stale) ==
    [roots |-> roots, policySHA |-> policySHA, stale |-> stale, checked |-> Len(roots),
     clean |-> Counted(roots, Clean), tolerated |-> Counted(roots, Tolerated),
     blocked |-> Counted(roots, Blocked),
     status |-> DerivedStatus({roots[i].status : i \in DOMAIN roots})]

\* The finding paths one guidance entry names; it must name exactly one.
Joins(findings, e) ==
    {f \in findings : /\ f.status = Blocked /\ f.source = e.source
                      /\ f.address = e.address /\ e.at \in f.paths}

GuidanceJoins(findings, entries) ==
    \A e \in entries :
      Cardinality(Joins(findings, e)) = 1 /\ SchemaPath(e.at) = e.matched /\ e.lane \in Lanes

Reportable(findings) == {f \in findings : f.status # Clean}

Refused(what) == [refused |-> what]

\* buildAssessmentReportRoots.  groups: [root index -> entries], at most one
\* group for a root.
ReportRoots(core, groups) ==
    IF ~(DOMAIN groups \subseteq DOMAIN core.roots)
    THEN Refused("guidance")
    ELSE IF \E i \in DOMAIN core.roots :
              core.roots[i].status # DerivedStatus({f.status : f \in Reportable(core.roots[i].findings)})
    THEN Refused("report")
    ELSE IF \E i \in DOMAIN groups : ~GuidanceJoins(core.roots[i].findings, groups[i])
    THEN Refused("guidance")
    ELSE [refused |-> "no",
          roots |-> [i \in DOMAIN core.roots |->
             [tenant |-> core.roots[i].tenant, label |-> core.roots[i].label,
              members |-> core.roots[i].members, status |-> core.roots[i].status,
              findings |-> Reportable(core.roots[i].findings),
              guidance |-> IF i \in DOMAIN groups THEN groups[i] ELSE {}]]]

\* newAssessmentReport; error is Null or the kind of an error report.
NewReport(mode, request, core, roots, error) ==
    [refused |-> "no", mode |-> mode, tenant |-> request.tenant,
     policy    |-> IF mode = "assert-clean" THEN Null ELSE request.policy,
     policySHA |-> IF mode = "assert-clean" THEN Null ELSE core.policySHA,
     status    |-> IF error = Null THEN core.status ELSE "error",
     checked |-> Len(roots), clean |-> Counted(roots, Clean),
     tolerated |-> Counted(roots, Tolerated), blocked |-> Counted(roots, Blocked),
     roots |-> roots, stale |-> core.stale, error |-> error]

\* A finding's changes describe its own paths, a sensitive one carries
\* nothing, a scalar one no members (validateReportFinding, ...Change).
FindingHolds(f) ==
    /\ DOMAIN f.changes \subseteq f.paths
    /\ \A p \in DOMAIN f.changes :
         LET x == f.changes[p]
         IN  /\ x.kind = "scalar" => x.added = {} /\ x.removed = {}
             /\ x.sensitive => x.before = Null /\ x.after = Null /\ x.added = {} /\ x.removed = {}

\* validateAssessmentAllOf: what the status and the mode require.
BranchesHold(r) ==
    /\ r.error # Null <=> r.status = "error"
    /\ r.error = Null => r.roots # <<>>
    /\ r.mode = "assert-clean" => r.policy = Null /\ r.policySHA = Null

\* Summary counts and status are those of the roots.
SummaryHolds(r) ==
    /\ r.checked = Len(r.roots) /\ r.clean = Counted(r.roots, Clean)
    /\ r.tolerated = Counted(r.roots, Tolerated) /\ r.blocked = Counted(r.roots, Blocked)
    /\ r.error = Null => r.status = DerivedStatus({r.roots[i].status : i \in DOMAIN r.roots})

\* Identity, membership, guidance joins and derived status of one root.
RootHolds(r, i) ==
    LET root == r.roots[i]
    IN  /\ r.tenant \in {Null, root.tenant}
        /\ root.members # {}
        /\ \A j \in DOMAIN r.roots \ {i} :
             r.roots[j].tenant = root.tenant
               => r.roots[j].label # root.label /\ r.roots[j].members \cap root.members = {}
        /\ \A e \in root.guidance : e.lane \in Lanes /\ Cardinality(Joins(root.findings, e)) = 1
        /\ \A f \in root.findings : f.status # Clean /\ FindingHolds(f)
        /\ root.status = DerivedStatus({f.status : f \in root.findings})

\* Policy evidence, the phase of an error and the stale entries agree.
EvidenceHolds(r) ==
    LET early == r.error \in {"no_saved_plans", "policy_error"}
    IN  /\ r.policy = Null => r.policySHA = Null
        /\ r.error \in {Null, "no_saved_plans"} => (r.policy = Null <=> r.policySHA = Null)
        /\ early => r.roots = <<>> /\ r.stale = {}
        /\ r.error = "policy_error" => r.policy # Null
        /\ r.stale # {} => r.policy # Null /\ r.policySHA # Null
        /\ \A s \in r.stale : \E i \in DOMAIN r.roots : s.type \in r.roots[i].members

\* ValidateSavedPlanAssessment.
ReportHolds(r) ==
    /\ BranchesHold(r) /\ SummaryHolds(r) /\ EvidenceHolds(r)
    /\ \A i \in DOMAIN r.roots : RootHolds(r, i)

\* BuildSavedPlanAssessmentReport and ...ErrorReport.
Published(r) == IF ReportHolds(r) THEN r ELSE Refused("report")
ReportOf(mode, request, core, error, roots) ==
    IF roots.refused # "no" THEN roots ELSE Published(NewReport(mode, request, core, roots.roots, error))
BuildReport(mode, request, core, error, groups) ==
    IF \/ mode = "assert-clean" /\ request.policy # Null
       \/ error = Null /\ (request.policy = Null) # (core.policySHA = Null)
    THEN Refused("report")
    ELSE ReportOf(mode, request, core, error, ReportRoots(core, groups))

\* buildReportWithIsolatedGuidance.
Isolated(r, unguided) == IF r.refused = "guidance" THEN unguided ELSE r
BuildReportWithIsolatedGuidance(mode, request, core, error, groups) ==
    Isolated(BuildReport(mode, request, core, error, groups), BuildReport(mode, request, core, error, <<>>))

-----------------------------------------------------------------------------
(* One assessment *)

Adoptable(mode) == mode = "assert-adoptable"

\* One captured root: its classification, findings and sorted members.
AssessedRoot(root, mode, policy) ==
    [tenant |-> root.tenant, label |-> root.label, members |-> root.members,
     status |-> ClassifyPlan(root.plan, policy, Null, Adoptable(mode)),
     findings |-> PlanFindings(root.plan, policy, Null, Adoptable(mode), root.secret)]

\* StaleEntries over the checked types: policy paths no update met.
PathsMet(roots) ==
    UNION {UpdatePaths(c) : c \in {d \in UNION {roots[i].plan.changes \cup roots[i].plan.drift : i \in DOMAIN roots} :
                                     HasAction(d, "update") /\ ClassifyChange(d, Null) # {Clean}}}
StalePolicy(roots, policy) ==
    IF policy = Null THEN {}
    ELSE {[type |-> tp[1], path |-> tp[2]] :
             tp \in (UNION {roots[i].members : i \in DOMAIN roots}) \X (policy \ PathsMet(roots))}

\* AssessSavedPlansReport: roots up to the first whose plan is outside the
\* contract; guidance only for the blocked ones.  policyReads tells whether
\* the requested policy file holds a policy.
OutsideContract(roots) == {i \in DOMAIN roots : ~ValidateAssessmentPlan(roots[i].plan, roots[i].attested, Null)}
FirstOutside(bad) == CHOOSE i \in bad : \A j \in bad : i <= j
AssessUpTo(done, mode, policy, roots) == [i \in 1..done |-> AssessedRoot(roots[i], mode, policy)]
GuidanceGroups(rules, roots, assessed) ==
    [i \in {j \in DOMAIN assessed : assessed[j].status = Blocked} |->
        CollectAssessmentGuidance(rules, roots[i].plan, roots[i].members, assessed[i].findings)]
ReportOn(mode, request, error, policy, rules, roots, assessed) ==
    BuildReportWithIsolatedGuidance(mode, request,
        Core(assessed, IF request.policy # Null THEN "sha" ELSE Null,
             IF error = Null THEN StalePolicy(roots, policy) ELSE {}),
        error, GuidanceGroups(rules, roots, assessed))
ReportFrom(mode, request, policyReads, policy, rules, roots, bad) ==
    ReportOn(mode, request,
        IF ~policyReads THEN "policy_error"
        ELSE IF roots = <<>> THEN "no_saved_plans"
        ELSE IF bad # {} THEN "assessment_error" ELSE Null,
        policy, rules, roots,
        AssessUpTo(IF ~policyReads THEN 0
                   ELSE IF bad = {} THEN Len(roots)
                   ELSE FirstOutside(bad) - 1, mode, policy, roots))
AssessSavedPlansReport(mode, request, policyReads, policy, rules, roots) ==
    ReportFrom(mode, request, policyReads, policy, rules, roots, OutsideContract(roots))

-----------------------------------------------------------------------------
(* What a published report promises *)

Classification(r) == [r EXCEPT !.roots = [i \in DOMAIN r.roots |-> [r.roots[i] EXCEPT !.guidance = {}]]]

\* Nothing moves, and yet it cannot be told from what the update shows: it shows no
\* difference at all, or the members of a set are not all known.
Undecided(c) ==
    /\ c.actions = <<"update">> /\ SameMeaning(c)
    /\ \/ \A a \in Attrs : c.before[a] = c.after[a]
       \/ \E a \in SetAttrs : c.before[a] # Null /\ HasPlaceholder(c.before[a])
Blockable(root, mode) ==
    ({"resource_changes"} \X root.plan.changes)
    \cup IF Adoptable(mode) THEN {} ELSE {"resource_drift"} \X root.plan.drift
Places(sections) == {<<sc[1], sc[2].address>> : sc \in sections}
BlockedIn(root) == {<<f.source, f.address>> : f \in {g \in root.findings : g.status = Blocked}}

TellsTheTruth(r, unguided, mode, policy, rules, roots) ==
    /\ r.refused = "no"
    /\ Classification(r) = Classification(unguided)
    /\ \A i \in DOMAIN r.roots :
         /\ Places({sc \in Blockable(roots[i], mode) : ~Harmless(sc[2], policy)}) \subseteq BlockedIn(r.roots[i])
         /\ BlockedIn(r.roots[i])
              \subseteq Places({sc \in Blockable(roots[i], mode) : ~Harmless(sc[2], policy) \/ Undecided(sc[2])})
         /\ \A f \in r.roots[i].findings : \A p \in DOMAIN f.changes :
              p[1] \in roots[i].secret
                => f.changes[p].before = Null /\ f.changes[p].after = Null
                   /\ f.changes[p].added \cup f.changes[p].removed = {}
         /\ \A e \in r.roots[i].guidance :
              /\ \E q \in rules : q.lane = e.lane /\ q.id = e.id /\ Covers(q, e.type)
              /\ \E f \in r.roots[i].findings : f.status = Blocked /\ e.at \in f.paths

\* A report is published for every assessment, whatever the packs' guidance
\* holds; it blocks every change nobody explained, and beyond these only what
\* cannot be told from an update; it shows no content of a sensitive
\* attribute; guidance names a blocked path of a type its rule
\* covers, and never alters the classification (AssessSavedPlansReport,
\* buildReportWithIsolatedGuidance, ValidateSavedPlanAssessment).
ReportTellsTheTruth(mode, request, policyReads, policy, rules, roots) ==
    TellsTheTruth(AssessSavedPlansReport(mode, request, policyReads, policy, rules, roots),
                  AssessSavedPlansReport(mode, request, policyReads, policy, {}, roots), mode, policy, rules, roots)
=============================================================================
