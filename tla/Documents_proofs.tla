--------------------------- MODULE Documents_proofs ---------------------------
(***************************************************************************)
(* What the documents that are computed from others promise, for any       *)
(* inputs: a report, for any roots, plans, policy and guidance; the moves  *)
(* of a type, for any imports before and after; the scope of a change and  *)
(* the order of the types, for any packs and deployment; what a resource   *)
(* is collected as, for any items, pages and bounds; what a drift policy   *)
(* makes of an object, for any schema, state and entries.  And the         *)
(* properties of MCTopics for any addresses and any number of records: its *)
(* plans are plans, and of those PlanEval_proofs says more.                *)
(***************************************************************************)
EXTENDS MCTopics, PlanEval_proofs, WellFoundedInduction, SequenceTheorems, FiniteSetTheorems

\* What an update that moves nothing shows: no path of a value, unless the members of a set
\* are not all known.
LEMMA NothingToShow ==
  ASSUME NEW c, SameMeaning(c),
         \A a \in SetAttrs : c.before[a] # Null => ~HasPlaceholder(c.before[a])
  PROVE  UpdatePaths(c) = {OpaqueUpdate}
  <1>1. ASSUME NEW a \in Attrs, c.before[a] = c.after[a]
        PROVE  PyEqual(a, c.before[a], c.after[a])
    BY <1>1 DEF PyEqual, ScalarPyEqual
  <1>2. ASSUME NEW a \in Attrs, c.before[a] # c.after[a]
        PROVE  /\ a \in SetAttrs /\ c.before[a] # Null /\ c.after[a] # Null
               /\ SameMembership(c.before[a], c.after[a])
    BY <1>2 DEF SameMeaning, SameMembership, MultisetDelta
  <1>3. ASSUME NEW a \in SetAttrs, a \in Attrs
        PROVE  SetAttributePaths(a, c.before[a], c.after[a]) = {}
    <2>1. CASE c.before[a] # c.after[a]
      BY <1>2, <1>3, <2>1 DEF SetAttributePaths
    <2>2. CASE c.before[a] = c.after[a] /\ c.before[a] = Null
      BY <1>1, <1>3, <2>2 DEF SetAttributePaths, PositionalPaths
    <2>3. CASE c.before[a] = c.after[a] /\ c.before[a] # Null
      <3>1. SameMembership(c.before[a], c.after[a])
        BY <1>3, <2>3 DEF SameMembership, MultisetDelta
      <3> QED BY <2>3, <3>1 DEF SetAttributePaths
    <2> QED BY <2>1, <2>2, <2>3
  <1>4. ASSUME NEW a \in Attrs, a \notin SetAttrs
        PROVE  PositionalPaths(a, c.before[a], c.after[a]) = {}
    BY <1>1, <1>2, <1>4 DEF PositionalPaths
  <1>5. ValuePaths(c) = {}
    BY <1>3, <1>4 DEF ValuePaths
  <1> QED BY <1>5 DEF SameMeaning, UpdatePaths

\* A record that is harmless is not blocked, or cannot be told.
LEMMA HarmlessIsUnblocked ==
  ASSUME NEW c, NEW policy, c.actions \in SupportedActionSequences, Harmless(c, policy),
         Blocked \in ClassifyChange(c, policy)
  PROVE  Undecided(c)
  <1>1. Blocked # Tolerated /\ Blocked # Clean
    BY DEF Blocked, Tolerated, Clean
  <1>2. ~OnlyNoOp(c) /\ ~ImportingCreate(c)
    <2>1. /\ ImportingCreate(c) => ~HasAction(c, "update") /\ ~OnlyNoOp(c)
          /\ OnlyNoOp(c) => ~HasAction(c, "update")
      BY SupportedActions DEF ImportingCreate
    <2>2. CASE OnlyNoOp(c)
      BY <2>1, <2>2 DEF ClassifyChange
    <2>3. CASE ImportingCreate(c)
      BY <1>1, <2>1, <2>3 DEF ClassifyChange
    <2> QED BY <2>2, <2>3
  <1>3. c.actions = <<"update">> /\ HasAction(c, "update")
    BY <1>2, SupportedActions DEF Harmless, ImportingCreate
  <1>4. ~(policy # Null /\ UpdatePaths(c) \subseteq policy)
    BY <1>1, <1>2, <1>3 DEF ClassifyChange
  <1>5. SameMeaning(c)
    BY <1>2, <1>4 DEF Harmless, ImportingCreate
  <1>6. ASSUME ~Undecided(c)
        PROVE  FALSE
    <2>1. /\ \E a \in Attrs : c.before[a] # c.after[a]
          /\ \A a \in SetAttrs : c.before[a] # Null => ~HasPlaceholder(c.before[a])
      BY <1>3, <1>5, <1>6 DEF Undecided
    <2>2. UpdatePaths(c) = {OpaqueUpdate} /\ c.unknown = {}
      BY <1>5, <2>1, NothingToShow DEF SameMeaning
    <2>3. ExplainedBySetEquality(c)
      BY <1>5, <2>1 DEF ExplainedBySetEquality, SameMeaning, SameMembership, MultisetDelta
    <2> QED BY <1>1, <1>2, <1>3, <2>2, <2>3 DEF ClassifyChange
  <1> QED BY <1>6

-----------------------------------------------------------------------------
(* Findings *)

\* The finding of a record under a status, as a report without a scope shows it.
Shown(c, source, policy, secret, s) == Finding(c, source, s, FindingPaths(c, policy, s), secret)
Demoted(f, demote) == IF demote /\ f.status = Blocked THEN [f EXCEPT !.status = Tolerated] ELSE f

LEMMA FindingsOfPlan ==
  ASSUME NEW document, NEW policy, NEW demote \in BOOLEAN, NEW secret, NEW f
  PROVE  f \in PlanFindings(document, policy, Null, demote, secret)
           <=> \/ \E c \in document.changes : \E s \in ClassifyChange(c, policy) :
                    f = Shown(c, "resource_changes", policy, secret, s)
               \/ \E c \in document.drift : \E s \in ClassifyChange(c, policy) :
                    f = Demoted(Shown(c, "resource_drift", policy, secret, s), demote)
  <1> DEFINE records(section, source) == UNION {RecordFindings(c, source, policy, secret) : c \in section}
  <1>1. ASSUME NEW section, NEW source, NEW g
        PROVE  g \in records(section, source)
                 <=> \E c \in section : \E s \in ClassifyChange(c, policy) : g = Shown(c, source, policy, secret, s)
    BY DEF RecordFindings, Shown
  <1>2. {d \in document.changes : InScope(d, Null)} = document.changes /\ {d \in document.drift : InScope(d, Null)} = document.drift
    BY DEF InScope
  <1>3. PlanFindings(document, policy, Null, demote, secret)
          = records(document.changes, "resource_changes")
            \cup {Demoted(g, demote) : g \in records(document.drift, "resource_drift")}
    BY <1>2, Zenon DEF PlanFindings, Demoted
  <1> HIDE DEF records
  <1>4. f \in {Demoted(g, demote) : g \in records(document.drift, "resource_drift")}
          <=> \E c \in document.drift : \E s \in ClassifyChange(c, policy) :
                 f = Demoted(Shown(c, "resource_drift", policy, secret, s), demote)
    <2>1. ASSUME NEW g \in records(document.drift, "resource_drift"), f = Demoted(g, demote)
          PROVE  \E c \in document.drift : \E s \in ClassifyChange(c, policy) :
                   f = Demoted(Shown(c, "resource_drift", policy, secret, s), demote)
      BY <1>1, <2>1
    <2>2. ASSUME NEW c \in document.drift, NEW s \in ClassifyChange(c, policy),
                 f = Demoted(Shown(c, "resource_drift", policy, secret, s), demote)
          PROVE  \E g \in records(document.drift, "resource_drift") : f = Demoted(g, demote)
      BY <1>1, <2>2
    <2> QED BY <2>1, <2>2
  <1> QED BY <1>1, <1>3, <1>4

\* What the validator of reports asks of a finding, and secrecy.
FindingIsFit(f, secret) ==
    /\ FindingHolds(f)
    /\ \A p \in DOMAIN f.changes : p[1] \in secret =>
          /\ f.changes[p].before = Null /\ f.changes[p].after = Null
          /\ f.changes[p].added \cup f.changes[p].removed = {}

\* A finding carries content of its own paths, and none of a sensitive attribute.
LEMMA ShownFields ==
  ASSUME NEW c, NEW source, NEW policy, NEW secret, NEW s, NEW g, g = Shown(c, source, policy, secret, s)
  PROVE  g.status = s /\ g.source = source /\ g.address = c.address /\ FindingIsFit(g, secret)
  <1>1. /\ g.status = s /\ g.source = source /\ g.address = c.address
        /\ DOMAIN g.changes = ValuePaths(c) \cap g.paths
        /\ \A p \in ValuePaths(c) \cap g.paths : g.changes[p] = Content(c, p, secret)
    BY DEF Shown, Finding, ChangesForPaths
  <1>2. ASSUME NEW p
        PROVE  LET x == Content(c, p, secret)
               IN  /\ x.kind = "scalar" => x.added = {} /\ x.removed = {}
                   /\ x.sensitive <=> p[1] \in secret
                   /\ x.sensitive => x.before = Null /\ x.after = Null /\ x.added = {} /\ x.removed = {}
    BY DEF Content
  <1> QED BY <1>1, <1>2 DEF FindingIsFit, FindingHolds

\* To demote a finding changes its status only.
LEMMA DemotedFields ==
  ASSUME NEW c, NEW source, NEW policy, NEW secret, NEW s, NEW demote, NEW f,
         f = Demoted(Shown(c, source, policy, secret, s), demote)
  PROVE  /\ f.status = (IF demote /\ s = Blocked THEN Tolerated ELSE s)
         /\ f.source = source /\ f.address = c.address /\ FindingIsFit(f, secret)
  <1> DEFINE g == Shown(c, source, policy, secret, s)
  <1>1. g.status = s /\ g.source = source /\ g.address = c.address /\ FindingIsFit(g, secret)
    BY ShownFields
  <1>2. /\ f.status = (IF demote /\ g.status = Blocked THEN Tolerated ELSE g.status)
        /\ f.source = g.source /\ f.address = g.address /\ f.paths = g.paths /\ f.changes = g.changes
    BY DEF Demoted, Shown, Finding
  <1> HIDE DEF g
  <1> QED BY <1>1, <1>2 DEF FindingIsFit, FindingHolds

\* The findings of a plan have its statuses.
LEMMA StatusesOfFindings ==
  ASSUME NEW document, NEW policy, NEW demote \in BOOLEAN, NEW secret
  PROVE  DerivedStatus({f.status : f \in Reportable(PlanFindings(document, policy, Null, demote, secret))})
           = ClassifyPlan(document, policy, Null, demote)
  <1> DEFINE found == PlanFindings(document, policy, Null, demote, secret)
             statuses == FindingStatuses(document, policy, Null, demote)
  <1>0. Blocked # Tolerated /\ Blocked # Clean /\ Tolerated # Clean
    BY DEF Blocked, Tolerated, Clean
  <1>1. \A s : s \in statuses
          <=> \/ \E c \in document.changes : s \in ClassifyChange(c, policy)
              \/ \E c \in document.drift : \E t \in ClassifyChange(c, policy) :
                    s = IF demote /\ t = Blocked THEN Tolerated ELSE t
    BY <1>0 DEF FindingStatuses, InScope
  <1>2. ASSUME NEW f \in found
        PROVE  f.status \in statuses
    <2>1. CASE \E c \in document.changes : \E s \in ClassifyChange(c, policy) :
                 f = Shown(c, "resource_changes", policy, secret, s)
      <3>1. PICK c \in document.changes : \E s \in ClassifyChange(c, policy) :
                 f = Shown(c, "resource_changes", policy, secret, s)
        BY <2>1
      <3>2. PICK s \in ClassifyChange(c, policy) : f = Shown(c, "resource_changes", policy, secret, s)
        BY <3>1
      <3>3. f.status = s
        BY <3>2, ShownFields
      <3> QED BY <1>1, <3>3
    <2>2. CASE \E c \in document.drift : \E s \in ClassifyChange(c, policy) :
                 f = Demoted(Shown(c, "resource_drift", policy, secret, s), demote)
      <3>1. PICK c \in document.drift : \E s \in ClassifyChange(c, policy) :
                 f = Demoted(Shown(c, "resource_drift", policy, secret, s), demote)
        BY <2>2
      <3>2. PICK s \in ClassifyChange(c, policy) :
                 f = Demoted(Shown(c, "resource_drift", policy, secret, s), demote)
        BY <3>1
      <3>3. f.status = (IF demote /\ s = Blocked THEN Tolerated ELSE s)
        BY <3>2, DemotedFields
      <3> QED BY <1>1, <3>3
    <2> QED BY <2>1, <2>2, FindingsOfPlan
  <1>3. ASSUME NEW s \in statuses
        PROVE  \E f \in found : f.status = s
    <2>1. CASE \E c \in document.changes : s \in ClassifyChange(c, policy)
      <3>1. PICK c \in document.changes : s \in ClassifyChange(c, policy)
        BY <2>1
      <3>2. Shown(c, "resource_changes", policy, secret, s) \in found
        BY <3>1, FindingsOfPlan
      <3>3. Shown(c, "resource_changes", policy, secret, s).status = s
        BY ShownFields
      <3> HIDE DEF found
      <3> QED BY <3>2, <3>3
    <2>2. CASE \E c \in document.drift : \E t \in ClassifyChange(c, policy) :
                 s = IF demote /\ t = Blocked THEN Tolerated ELSE t
      <3>1. PICK c \in document.drift : \E t \in ClassifyChange(c, policy) :
                 s = IF demote /\ t = Blocked THEN Tolerated ELSE t
        BY <2>2
      <3>2. PICK t \in ClassifyChange(c, policy) : s = IF demote /\ t = Blocked THEN Tolerated ELSE t
        BY <3>1
      <3>3. Demoted(Shown(c, "resource_drift", policy, secret, t), demote) \in found
        BY FindingsOfPlan
      <3>4. Demoted(Shown(c, "resource_drift", policy, secret, t), demote).status = s
        BY <3>2, DemotedFields
      <3> HIDE DEF found
      <3> QED BY <3>3, <3>4
    <2> QED BY <1>1, <2>1, <2>2
  <1> HIDE DEF found, statuses
  <1>4. \A s \in {Blocked, Tolerated} : s \in {f.status : f \in Reportable(found)} <=> s \in statuses
    BY <1>0, <1>2, <1>3 DEF Reportable
  <1> QED BY <1>0, <1>4 DEF DerivedStatus, ClassifyPlan, statuses, found

\* No finding of a plan fails the validator or shows a secret.
LEMMA FindingsAreFit ==
  ASSUME NEW document, NEW policy, NEW demote \in BOOLEAN, NEW secret,
         NEW f \in PlanFindings(document, policy, Null, demote, secret)
  PROVE  FindingIsFit(f, secret)
  <1>1. CASE \E c \in document.changes : \E s \in ClassifyChange(c, policy) :
               f = Shown(c, "resource_changes", policy, secret, s)
    BY <1>1, ShownFields
  <1>2. CASE \E c \in document.drift : \E s \in ClassifyChange(c, policy) :
               f = Demoted(Shown(c, "resource_drift", policy, secret, s), demote)
    BY <1>2, DemotedFields
  <1> QED BY <1>1, <1>2, FindingsOfPlan

\* The blocked findings are at the records that are blocked.
LEMMA BlockedFindings ==
  ASSUME NEW root, NEW mode, NEW policy, NEW shown,
         shown.findings = Reportable(PlanFindings(root.plan, policy, Null, Adoptable(mode), root.secret))
  PROVE  BlockedIn(shown) = Places({sc \in Blockable(root, mode) : Blocked \in ClassifyChange(sc[2], policy)})
  <1> DEFINE demote == Adoptable(mode)
             found == PlanFindings(root.plan, policy, Null, demote, root.secret)
  <1>0. Blocked # Tolerated /\ Blocked # Clean /\ demote \in BOOLEAN
    BY DEF Blocked, Tolerated, Clean, Adoptable
  <1>1. ASSUME NEW f \in found, f.status = Blocked
        PROVE  \E sc \in Blockable(root, mode) :
                  Blocked \in ClassifyChange(sc[2], policy) /\ f.source = sc[1] /\ f.address = sc[2].address
    <2>1. CASE \E c \in root.plan.changes : \E s \in ClassifyChange(c, policy) :
                 f = Shown(c, "resource_changes", policy, root.secret, s)
      <3>1. PICK c \in root.plan.changes : \E s \in ClassifyChange(c, policy) :
                 f = Shown(c, "resource_changes", policy, root.secret, s)
        BY <2>1
      <3>2. Blocked \in ClassifyChange(c, policy) /\ f.source = "resource_changes" /\ f.address = c.address
        BY <1>1, <3>1, ShownFields
      <3>3. <<"resource_changes", c>> \in Blockable(root, mode)
        BY DEF Blockable
      <3> QED BY <1>1, <3>2, <3>3
    <2>2. CASE \E c \in root.plan.drift : \E s \in ClassifyChange(c, policy) :
                 f = Demoted(Shown(c, "resource_drift", policy, root.secret, s), demote)
      <3>1. PICK c \in root.plan.drift : \E s \in ClassifyChange(c, policy) :
                 f = Demoted(Shown(c, "resource_drift", policy, root.secret, s), demote)
        BY <2>2
      <3>2. PICK s \in ClassifyChange(c, policy) :
                 f = Demoted(Shown(c, "resource_drift", policy, root.secret, s), demote)
        BY <3>1
      <3>3. /\ f.status = (IF demote /\ s = Blocked THEN Tolerated ELSE s)
            /\ f.source = "resource_drift" /\ f.address = c.address
        BY <3>2, DemotedFields
      <3>4. ~demote /\ s = Blocked
        BY <1>0, <1>1, <3>3
      <3>5. <<"resource_drift", c>> \in Blockable(root, mode)
        BY <3>4 DEF Blockable
      <3> QED BY <1>1, <3>3, <3>4, <3>5
    <2> QED BY <1>0, <2>1, <2>2, FindingsOfPlan
  <1>2. ASSUME NEW sc \in Blockable(root, mode), Blocked \in ClassifyChange(sc[2], policy)
        PROVE  \E f \in found : f.status = Blocked /\ f.source = sc[1] /\ f.address = sc[2].address
    <2>1. CASE sc \in {"resource_changes"} \X root.plan.changes
      <3> DEFINE f == Shown(sc[2], "resource_changes", policy, root.secret, Blocked)
      <3>1. f \in found
        BY <1>0, <1>2, <2>1, FindingsOfPlan
      <3>2. f.status = Blocked /\ f.source = "resource_changes" /\ f.address = sc[2].address
        BY ShownFields
      <3> HIDE DEF f, found
      <3> QED BY <1>2, <2>1, <3>1, <3>2
    <2>2. CASE ~demote /\ sc \in {"resource_drift"} \X root.plan.drift
      <3> DEFINE f == Demoted(Shown(sc[2], "resource_drift", policy, root.secret, Blocked), demote)
      <3>1. f \in found
        BY <1>0, <1>2, <2>2, FindingsOfPlan
      <3>2. f.status = Blocked /\ f.source = "resource_drift" /\ f.address = sc[2].address
        BY <1>0, <2>2, DemotedFields
      <3> HIDE DEF f, found
      <3> QED BY <1>2, <2>2, <3>1, <3>2
    <2> QED BY <2>1, <2>2 DEF Blockable
  <1> HIDE DEF found
  <1>3. \A f : f \in shown.findings /\ f.status = Blocked <=> f \in found /\ f.status = Blocked
    BY <1>0 DEF Reportable, found
  <1>4. BlockedIn(shown) = {<<f.source, f.address>> : f \in {g \in found : g.status = Blocked}}
    BY <1>3 DEF BlockedIn
  <1> QED BY <1>1, <1>2, <1>4 DEF Places

\* Of a plan in the contract, what is blocked is what nothing explains, or cannot be told.
LEMMA BlockedIsUnexplained ==
  ASSUME NEW root, NEW mode, NEW policy, RecordsTyped(root.plan), NEW shown,
         shown.findings = Reportable(PlanFindings(root.plan, policy, Null, Adoptable(mode), root.secret)),
         \A c \in root.plan.changes \cup root.plan.drift : c.actions \in SupportedActionSequences
  PROVE  /\ Places({sc \in Blockable(root, mode) : ~Harmless(sc[2], policy)}) \subseteq BlockedIn(shown)
         /\ BlockedIn(shown)
              \subseteq Places({sc \in Blockable(root, mode) : ~Harmless(sc[2], policy) \/ Undecided(sc[2])})
  <1>2. BlockedIn(shown) = Places({sc \in Blockable(root, mode) : Blocked \in ClassifyChange(sc[2], policy)})
    BY BlockedFindings
  <1>3. ASSUME NEW sc \in Blockable(root, mode)
        PROVE  sc[2] \in root.plan.changes \cup root.plan.drift
    BY <1>3 DEF Blockable
  <1>4. ASSUME NEW sc \in Blockable(root, mode)
        PROVE  /\ ~Harmless(sc[2], policy) => Blocked \in ClassifyChange(sc[2], policy)
               /\ Blocked \in ClassifyChange(sc[2], policy) => ~Harmless(sc[2], policy) \/ Undecided(sc[2])
    BY <1>3, UnblockedIsHarmless, HarmlessIsUnblocked DEF RecordsTyped
  <1> QED BY <1>2, <1>4 DEF Places

-----------------------------------------------------------------------------
(* Guidance *)

\* Guidance comes from a rule that covers its type and names a blocked path.
LEMMA GuidanceIsOfRules ==
  ASSUME NEW rules, NEW document, NEW members, NEW findings,
         NEW e \in CollectAssessmentGuidance(rules, document, members, findings)
  PROVE  /\ \E q \in rules : q.lane = e.lane /\ q.id = e.id /\ Covers(q, e.type)
         /\ \E f \in findings : f.status = Blocked /\ e.at \in f.paths
  <1> DEFINE annotations == UNION {LaneGuidance(rules, document, tl[1], tl[2]) : tl \in members \X Lanes}
  <1>1. PICK a \in annotations, f \in findings :
             /\ f.status = Blocked /\ e.at \in f.paths
             /\ e.lane = a.lane /\ e.id = a.id /\ e.type = a.type
    BY DEF CollectAssessmentGuidance, JoinBlockedGuidance
  <1>2. PICK tl \in members \X Lanes : a \in LaneGuidance(rules, document, tl[1], tl[2])
    BY <1>1
  <1>3. \E q \in rules : q.lane = a.lane /\ q.id = a.id /\ Covers(q, a.type)
    BY <1>2 DEF LaneGuidance
  <1> QED BY <1>1, <1>3

-----------------------------------------------------------------------------
(* The report *)

\* The rows of a report.
Rows(assessed, groups) ==
    [i \in DOMAIN assessed |->
        [tenant |-> assessed[i].tenant, label |-> assessed[i].label, members |-> assessed[i].members,
         status |-> assessed[i].status, findings |-> Reportable(assessed[i].findings),
         guidance |-> IF i \in DOMAIN groups THEN groups[i] ELSE {}]]

\* Roots that can stand in one report of a tenant.
RootsApart(tenant, roots) ==
    \A i \in DOMAIN roots :
        /\ tenant \in {Null, roots[i].tenant} /\ roots[i].members # {}
        /\ \A j \in DOMAIN roots \ {i} :
             roots[j].tenant = roots[i].tenant
               => roots[j].label # roots[i].label /\ roots[j].members \cap roots[i].members = {}

\* The phase an assessment ends in, and the evidence it has then.
PhaseFits(mode, policy, error, stale, assessed) ==
    /\ mode = "assert-clean" => policy = Null
    /\ error \in {Null, "policy_error", "no_saved_plans", "assessment_error"}
    /\ error = Null => assessed # <<>>
    /\ error \in {"policy_error", "no_saved_plans"} => assessed = <<>>
    /\ error = "policy_error" => policy # Null
    /\ stale # {} => error = Null /\ policy # Null
    /\ \A s \in stale : \E i \in DOMAIN assessed : s.type \in assessed[i].members

Evidence(policy) == IF policy # Null THEN "sha" ELSE Null

\* What is assessed can be reported.
Reportworthy(mode, request, core, error, stale, assessed) ==
    /\ RootsApart(request.tenant, assessed)
    /\ PhaseFits(mode, request.policy, error, stale, assessed)
    /\ core = Core(assessed, Evidence(request.policy), stale)
    /\ \A i \in DOMAIN assessed :
          /\ assessed[i].status = DerivedStatus({f.status : f \in Reportable(assessed[i].findings)})
          /\ \A f \in assessed[i].findings : FindingHolds(f)

\* What the report is when every group of guidance joins, and when not.
LEMMA ReportIsBuilt ==
  ASSUME NEW n \in Nat, NEW assessed, DOMAIN assessed = 1..n, NEW mode, NEW request, NEW stale, NEW error, NEW groups,
         DOMAIN groups \subseteq DOMAIN assessed,
         NEW core, Reportworthy(mode, request, core, error, stale, assessed)
  PROVE  IF \A i \in DOMAIN groups : GuidanceJoins(assessed[i].findings, groups[i])
         THEN BuildReport(mode, request, core, error, groups)
                = NewReport(mode, request, core, Rows(assessed, groups), error)
         ELSE BuildReport(mode, request, core, error, groups) = Refused("guidance")
  <1> DEFINE rows == Rows(assessed, groups)
             report == NewReport(mode, request, core, rows, error)
             joined == \A i \in DOMAIN groups : GuidanceJoins(assessed[i].findings, groups[i])
             built == ReportRoots(core, groups)
  <1> USE DEF Reportworthy
  <1>1. /\ core.roots = assessed /\ core.stale = stale /\ core.policySHA = Evidence(request.policy)
        /\ core.status = DerivedStatus({assessed[i].status : i \in DOMAIN assessed})
    BY DEF Core
  <1>2. built = IF joined THEN [refused |-> "no", roots |-> rows] ELSE Refused("guidance")
    BY <1>1 DEF ReportRoots, Rows
  <1>3. BuildReport(mode, request, core, error, groups) = ReportOf(mode, request, core, error, built)
    BY <1>1, ReportAssumption DEF BuildReport, PhaseFits, Evidence
  <1>4. ASSUME ~joined
        PROVE  BuildReport(mode, request, core, error, groups) = Refused("guidance")
    <2>1. built = Refused("guidance") /\ built.refused = "guidance"
      BY <1>2, <1>4 DEF Refused
    <2> QED BY <1>3, <2>1 DEF ReportOf
  <1>5. ASSUME joined
        PROVE  BuildReport(mode, request, core, error, groups) = report
    <2>1. built.refused = "no" /\ built.roots = rows
      BY <1>2, <1>5
    <2>2. BuildReport(mode, request, core, error, groups) = Published(report)
      BY <1>3, <2>1 DEF ReportOf
    <2> HIDE DEF built
    <2>3. /\ report.mode = mode /\ report.tenant = request.tenant
          /\ report.policy = (IF mode = "assert-clean" THEN Null ELSE request.policy)
          /\ report.policySHA = (IF mode = "assert-clean" THEN Null ELSE Evidence(request.policy))
          /\ report.status = (IF error = Null THEN core.status ELSE "error")
          /\ report.checked = Len(rows) /\ report.clean = Counted(rows, Clean)
          /\ report.tolerated = Counted(rows, Tolerated) /\ report.blocked = Counted(rows, Blocked)
          /\ report.roots = rows /\ report.stale = stale /\ report.error = error
      BY <1>1 DEF NewReport
    <2>4. /\ DOMAIN rows = DOMAIN assessed
          /\ \A i \in DOMAIN assessed :
                /\ rows[i].tenant = assessed[i].tenant /\ rows[i].label = assessed[i].label
                /\ rows[i].members = assessed[i].members /\ rows[i].status = assessed[i].status
                /\ rows[i].findings = Reportable(assessed[i].findings)
                /\ rows[i].guidance = (IF i \in DOMAIN groups THEN groups[i] ELSE {})
      BY DEF Rows
    <2> HIDE DEF rows, report
    <2>5. core.status \in {Clean, Tolerated, Blocked} /\ core.status # "error"
      BY <1>1 DEF DerivedStatus, Clean, Tolerated, Blocked
    <2>6. BranchesHold(report)
      <3>1. error = Null => rows # <<>>
        BY <2>4 DEF PhaseFits
      <3> QED BY <2>3, <2>5, <3>1 DEF BranchesHold, PhaseFits
    <2>7. SummaryHolds(report)
      <3>1. {rows[i].status : i \in DOMAIN rows} = {assessed[i].status : i \in DOMAIN assessed}
        BY <2>4
      <3>2. error = Null => report.status = DerivedStatus({rows[i].status : i \in DOMAIN rows})
        BY <1>1, <2>3, <3>1
      <3> HIDE DEF rows
      <3>3. report.checked = Len(report.roots) /\ report.clean = Counted(report.roots, Clean)
        BY <2>3
      <3>4. report.tolerated = Counted(report.roots, Tolerated) /\ report.blocked = Counted(report.roots, Blocked)
        BY <2>3
      <3>5. report.error = Null => report.status = DerivedStatus({report.roots[i].status : i \in DOMAIN report.roots})
        BY <2>3, <3>2
      <3> QED BY <3>3, <3>4, <3>5 DEF SummaryHolds
    <2>8. EvidenceHolds(report)
      BY <2>3, <2>4, ReportAssumption DEF EvidenceHolds, PhaseFits, Evidence
    <2>9. ASSUME NEW i \in DOMAIN report.roots
          PROVE  RootHolds(report, i)
      <3>1. i \in DOMAIN assessed
        BY <2>3, <2>4
      <3>2. ASSUME NEW e \in rows[i].guidance
            PROVE  e.lane \in Lanes /\ Cardinality(Joins(rows[i].findings, e)) = 1
        <4>1. i \in DOMAIN groups /\ e \in groups[i]
          BY <2>4, <3>1
        <4>2. e.lane \in Lanes /\ Cardinality(Joins(assessed[i].findings, e)) = 1
          BY <1>5, <4>1 DEF GuidanceJoins
        <4>3. Joins(rows[i].findings, e) = Joins(assessed[i].findings, e)
          BY <2>4, <3>1 DEF Joins, Reportable, Blocked, Clean
        <4> QED BY <4>2, <4>3
      <3>3. \A f \in rows[i].findings : f.status # Clean /\ FindingHolds(f)
        BY <2>4, <3>1 DEF Reportable
      <3>4. rows[i].status = DerivedStatus({f.status : f \in rows[i].findings})
        BY <2>4, <3>1
      <3>5. /\ request.tenant \in {Null, rows[i].tenant} /\ rows[i].members # {}
            /\ \A j \in DOMAIN rows \ {i} :
                 rows[j].tenant = rows[i].tenant
                   => rows[j].label # rows[i].label /\ rows[j].members \cap rows[i].members = {}
        BY <2>4, <3>1 DEF RootsApart
      <3> QED BY <2>3, <3>2, <3>3, <3>4, <3>5 DEF RootHolds
    <2>10. ReportHolds(report)
      BY <2>6, <2>7, <2>8, <2>9 DEF ReportHolds
    <2> QED BY <2>2, <2>10 DEF Published
  <1> QED BY <1>4, <1>5

\* A row without its guidance.
LEMMA RowWithout ==
  ASSUME NEW t, NEW l, NEW m, NEW s, NEW f, NEW g
  PROVE  [[tenant |-> t, label |-> l, members |-> m, status |-> s, findings |-> f, guidance |-> g]
             EXCEPT !.guidance = {}]
           = [tenant |-> t, label |-> l, members |-> m, status |-> s, findings |-> f, guidance |-> {}]
  OBVIOUS

\* Guidance changes nothing of a report but its rows' guidance.
LEMMA GuidanceApart ==
  ASSUME NEW assessed, NEW n \in Nat, DOMAIN assessed = 1..n, NEW mode, NEW request, NEW core, NEW error,
         NEW groups, NEW others
  PROVE  Classification(NewReport(mode, request, core, Rows(assessed, groups), error))
           = Classification(NewReport(mode, request, core, Rows(assessed, others), error))
  <1> DEFINE a == Rows(assessed, groups)
             b == Rows(assessed, others)
             x == NewReport(mode, request, core, a, error)
             y == NewReport(mode, request, core, b, error)
             bare(rows) == [i \in DOMAIN rows |-> [rows[i] EXCEPT !.guidance = {}]]
  <1>1. DOMAIN a = 1..n /\ DOMAIN b = 1..n /\ Len(a) = n /\ Len(b) = n
    BY DEF Rows
  <1>2. bare(a) = bare(b)
    <2>1. ASSUME NEW i \in 1..n
          PROVE  [a[i] EXCEPT !.guidance = {}] = [b[i] EXCEPT !.guidance = {}]
      <3> DEFINE row(g) == [tenant |-> assessed[i].tenant, label |-> assessed[i].label,
                            members |-> assessed[i].members, status |-> assessed[i].status,
                            findings |-> Reportable(assessed[i].findings), guidance |-> g]
      <3>1. \E g, h : a[i] = row(g) /\ b[i] = row(h)
        BY DEF Rows
      <3>2. ASSUME NEW g PROVE [row(g) EXCEPT !.guidance = {}] = row({})
        BY RowWithout
      <3> HIDE DEF a, b, row
      <3> QED BY <3>1, <3>2
    <2> HIDE DEF a, b
    <2> QED BY <1>1, <2>1
  <1>3. \A i \in 1..n : a[i].status = b[i].status
    BY DEF Rows
  <1>4. ASSUME NEW s PROVE Counted(a, s) = Counted(b, s)
    <2>1. {i \in DOMAIN a : a[i].status = s} = {i \in DOMAIN b : b[i].status = s}
      BY <1>1, <1>3
    <2> QED BY <2>1 DEF Counted
  <1>5. Classification(x) = [x EXCEPT !.roots = bare(a)] /\ Classification(y) = [y EXCEPT !.roots = bare(b)]
    BY DEF Classification, NewReport
  <1> HIDE DEF a, b, bare
  <1>6. [x EXCEPT !.roots = bare(a)] = [y EXCEPT !.roots = bare(b)]
    BY <1>1, <1>2, <1>4 DEF NewReport
  <1> QED BY <1>5, <1>6 DEF a, b

\* The first position outside the contract comes before any other.
LEMMA FirstIsLeast ==
  ASSUME NEW S \in SUBSET Nat, S # {}
  PROVE  FirstOutside(S) \in S /\ \A j \in S : FirstOutside(S) <= j
  <1>1. PICK i \in S : \A j \in S : ~(<<j, i>> \in OpToRel(<, Nat))
    BY NatLessThanWellFounded, WFMin
  <1>2. \A j \in S : ~(j < i)
    BY <1>1, Zenon DEF OpToRel
  <1>3. \A j \in S : i <= j
    BY <1>2
  <1> QED BY <1>3 DEF FirstOutside

\* What the command line and the deployment guarantee of an assessment's inputs.
Askable(mode, request, policyReads, policy, roots) ==
    /\ mode = "assert-clean" => policy = Null
    /\ request.policy = policy
    /\ policyReads \in BOOLEAN /\ (policyReads \/ policy # Null)
    /\ roots \in Seq({roots[i] : i \in DOMAIN roots})
    /\ RootsApart(request.tenant, roots)
    /\ \A i \in DOMAIN roots : RecordsTyped(roots[i].plan)

\* How far an assessment of the roots comes.
Reached(mode, request, policyReads, policy, roots, bad, error, done, assessed, stale, core) ==
    /\ bad = OutsideContract(roots)
    /\ error = IF ~policyReads THEN "policy_error"
               ELSE IF roots = <<>> THEN "no_saved_plans"
               ELSE IF bad # {} THEN "assessment_error" ELSE Null
    /\ done = IF ~policyReads THEN 0 ELSE IF bad = {} THEN Len(roots) ELSE FirstOutside(bad) - 1
    /\ assessed = AssessUpTo(done, mode, policy, roots)
    /\ stale = IF error = Null THEN StalePolicy(roots, policy) ELSE {}
    /\ core = Core(assessed, Evidence(policy), stale)
    /\ request.policy = policy

\* The fields of an assessed root.
LEMMA AssessedFields ==
  ASSUME NEW root, NEW mode, NEW policy, NEW row, row = AssessedRoot(root, mode, policy)
  PROVE  /\ row.tenant = root.tenant /\ row.label = root.label /\ row.members = root.members
         /\ row.status = ClassifyPlan(root.plan, policy, Null, Adoptable(mode))
         /\ row.findings = PlanFindings(root.plan, policy, Null, Adoptable(mode), root.secret)
  BY DEF AssessedRoot

\* The phase an assessment ends in and the roots assessed by then.
LEMMA PhaseOfAssessment ==
  ASSUME NEW roots, NEW mode, NEW request, NEW policyReads, NEW policy,
         Askable(mode, request, policyReads, policy, roots),
         NEW bad, NEW error, NEW done, NEW assessed, NEW stale, NEW core,
         Reached(mode, request, policyReads, policy, roots, bad, error, done, assessed, stale, core)
  PROVE  /\ done \in 0..Len(roots) /\ \A i \in 1..done : i \notin bad
         /\ PhaseFits(mode, policy, error, stale, assessed)
  <1>1. policyReads \in BOOLEAN /\ Len(roots) \in Nat /\ DOMAIN roots = 1..Len(roots)
    BY DEF Askable
  <1>2. roots # <<>> <=> Len(roots) # 0
    BY EmptySeq DEF Askable
  <1>3. bad \subseteq 1..Len(roots)
    <2>1. bad = OutsideContract(roots)
      BY DEF Reached
    <2>2. bad \subseteq DOMAIN roots
      BY <2>1 DEF OutsideContract
    <2> QED BY <1>1, <2>2
  <1>4. /\ ~policyReads => done = 0
        /\ policyReads /\ bad = {} => done = Len(roots)
        /\ policyReads /\ bad # {} => done = FirstOutside(bad) - 1
    BY <1>1 DEF Reached
  <1>5. done \in 0..Len(roots) /\ \A i \in 1..done : i \notin bad
    <2>1. ASSUME bad # {}
          PROVE  FirstOutside(bad) \in bad /\ \A j \in bad : FirstOutside(bad) <= j
      BY <1>1, <1>3, <2>1, FirstIsLeast
    <2>2. CASE ~policyReads
      BY <1>1, <1>4, <2>2
    <2>3. CASE policyReads /\ bad = {}
      BY <1>1, <1>4, <2>3
    <2>4. CASE policyReads /\ bad # {}
      <3>1. done = FirstOutside(bad) - 1 /\ FirstOutside(bad) \in 1..Len(roots)
        BY <1>3, <1>4, <2>1, <2>4
      <3>2. \A i \in 1..done : i \notin bad
        BY <1>1, <2>1, <2>4, <3>1
      <3> QED BY <1>1, <3>1, <3>2
    <2> QED BY <1>1, <2>2, <2>3, <2>4
  <1>6. DOMAIN assessed = 1..done /\ assessed = [i \in 1..done |-> AssessedRoot(roots[i], mode, policy)]
    BY DEF Reached, AssessUpTo
  <1>7. /\ error \in {Null, "policy_error", "no_saved_plans", "assessment_error"}
        /\ error = "policy_error" => ~policyReads
        /\ error = "no_saved_plans" => policyReads /\ roots = <<>>
        /\ error = Null => policyReads /\ roots # <<>> /\ bad = {}
    BY <1>1, ReportAssumption DEF Reached
  <1>8. error \in {"policy_error", "no_saved_plans"} => assessed = <<>>
    <2> SUFFICES ASSUME error \in {"policy_error", "no_saved_plans"}
                 PROVE  assessed = <<>>
      OBVIOUS
    <2>1. done = 0
      BY <1>2, <1>5, <1>7, <1>4
    <2>2. assessed = [i \in 1..0 |-> AssessedRoot(roots[i], mode, policy)]
      BY <1>6, <2>1
    <2>3. assessed \in [1..0 -> {}]
      BY ONLY <2>2
    <2>4. assessed \in Seq({}) /\ Len(assessed) = 0
      BY <2>3
    <2> QED BY <2>4, EmptySeq
  <1>9. \A s \in stale : error = Null /\ policy # Null /\ \E i \in DOMAIN roots : s.type \in roots[i].members
    <2>1. stale = IF error = Null THEN StalePolicy(roots, policy) ELSE {}
      BY DEF Reached
    <2> QED BY <2>1 DEF StalePolicy
  <1>10. error = Null => DOMAIN assessed = DOMAIN roots /\ 1 \in DOMAIN assessed
    BY <1>1, <1>2, <1>4, <1>6, <1>7
  <1>11. \A s \in stale : \E i \in DOMAIN assessed : s.type \in assessed[i].members
    <2>1. \A i \in DOMAIN assessed : assessed[i].members = roots[i].members
      BY <1>6, AssessedFields
    <2> QED BY <1>9, <1>10, <2>1
  <1>12. error = Null => assessed # <<>>
    BY <1>10
  <1>13. (mode = "assert-clean" => policy = Null) /\ (policyReads \/ policy # Null)
    BY DEF Askable
  <1>14. PhaseFits(mode, policy, error, stale, assessed)
    BY <1>7, <1>8, <1>9, <1>11, <1>12, <1>13 DEF PhaseFits
  <1> QED BY <1>5, <1>14

\* The report of an assessment is built over what it came to.
LEMMA ReportOfAssessment ==
  ASSUME NEW roots, NEW mode, NEW request, NEW policyReads, NEW policy, NEW rules,
         NEW bad, NEW error, NEW done, NEW assessed, NEW stale, NEW core,
         Reached(mode, request, policyReads, policy, roots, bad, error, done, assessed, stale, core)
  PROVE  AssessSavedPlansReport(mode, request, policyReads, policy, rules, roots)
           = BuildReportWithIsolatedGuidance(mode, request, core, error, GuidanceGroups(rules, roots, assessed))
  <1>1. AssessSavedPlansReport(mode, request, policyReads, policy, rules, roots)
          = ReportOn(mode, request, error, policy, rules, roots, assessed)
    BY Zenon DEF AssessSavedPlansReport, ReportFrom, Reached
  <1> QED BY <1>1 DEF ReportOn, Evidence, Reached

\* A report is published, its guidance what was collected for blocked roots or nothing.
LEMMA ReportIsPublished ==
  ASSUME NEW roots, NEW mode, NEW request, NEW policyReads, NEW policy, NEW rules,
         Askable(mode, request, policyReads, policy, roots),
         NEW bad, NEW error, NEW done, NEW assessed, NEW stale, NEW core,
         Reached(mode, request, policyReads, policy, roots, bad, error, done, assessed, stale, core)
  PROVE  \E groups :
            /\ AssessSavedPlansReport(mode, request, policyReads, policy, rules, roots)
                 = NewReport(mode, request, core, Rows(assessed, groups), error)
            /\ \A i \in DOMAIN groups : groups[i] = CollectAssessmentGuidance(rules, roots[i].plan, roots[i].members,
                                                                            assessed[i].findings)
  <1>1. /\ done \in 0..Len(roots) /\ \A i \in 1..done : i \notin bad
        /\ PhaseFits(mode, policy, error, stale, assessed)
    BY PhaseOfAssessment
  <1>2. request.policy = policy /\ RootsApart(request.tenant, roots) /\ Len(roots) \in Nat /\ DOMAIN roots = 1..Len(roots)
    BY DEF Askable
  <1>3. /\ done \in Nat /\ 1..done \subseteq DOMAIN roots /\ DOMAIN assessed = 1..done
        /\ \A i \in 1..done : assessed[i] = AssessedRoot(roots[i], mode, policy)
    <2>1. assessed = AssessUpTo(done, mode, policy, roots)
      BY DEF Reached
    <2> QED BY <1>1, <1>2, <2>1 DEF AssessUpTo
  <1> DEFINE collected == GuidanceGroups(rules, roots, assessed)
             none == <<>>
  <1>4. /\ DOMAIN collected \subseteq DOMAIN assessed
        /\ \A i \in DOMAIN collected : collected[i] = CollectAssessmentGuidance(rules, roots[i].plan, roots[i].members,
                                                                               assessed[i].findings)
    BY DEF GuidanceGroups
  <1>5. DOMAIN none = {}
    OBVIOUS
  <1> HIDE DEF collected, none
  <1>6. \A i \in DOMAIN assessed :
           /\ assessed[i].tenant = roots[i].tenant /\ assessed[i].label = roots[i].label
           /\ assessed[i].members = roots[i].members
           /\ assessed[i].status = ClassifyPlan(roots[i].plan, policy, Null, Adoptable(mode))
           /\ assessed[i].findings = PlanFindings(roots[i].plan, policy, Null, Adoptable(mode), roots[i].secret)
    BY <1>3, AssessedFields
  <1>7. RootsApart(request.tenant, assessed)
    BY <1>6, <1>2, <1>3 DEF RootsApart
  <1>8. Adoptable(mode) \in BOOLEAN
    BY DEF Adoptable
  <1>9. \A i \in DOMAIN assessed :
           /\ assessed[i].status = DerivedStatus({f.status : f \in Reportable(assessed[i].findings)})
           /\ \A f \in assessed[i].findings : FindingHolds(f)
    <2> SUFFICES ASSUME NEW i \in DOMAIN assessed
                 PROVE  /\ assessed[i].status = DerivedStatus({f.status : f \in Reportable(assessed[i].findings)})
                        /\ \A f \in assessed[i].findings : FindingHolds(f)
      OBVIOUS
    <2>1. assessed[i].status = DerivedStatus({f.status : f \in Reportable(assessed[i].findings)})
      BY <1>6, <1>8, StatusesOfFindings
    <2>2. \A f \in assessed[i].findings : FindingIsFit(f, roots[i].secret)
      BY <1>6, <1>8, FindingsAreFit
    <2> QED BY <2>1, <2>2 DEF FindingIsFit
  <1>10. Reportworthy(mode, request, core, error, stale, assessed)
    BY <1>7, <1>9, <1>1, <1>2 DEF Reportworthy, Reached
  <1> DEFINE with == BuildReport(mode, request, core, error, collected)
             without == BuildReport(mode, request, core, error, none)
  <1>11. \/ with = NewReport(mode, request, core, Rows(assessed, collected), error)
        \/ with = Refused("guidance")
    BY <1>4, <1>10, <1>3, ReportIsBuilt
  <1>12. without = NewReport(mode, request, core, Rows(assessed, none), error)
    <2>1. DOMAIN none \subseteq DOMAIN assessed /\ \A i \in DOMAIN none : GuidanceJoins(assessed[i].findings, none[i])
      BY <1>5
    <2> QED BY <1>10, <1>3, <2>1, ReportIsBuilt
  <1>13. AssessSavedPlansReport(mode, request, policyReads, policy, rules, roots) = Isolated(with, without)
    BY ReportOfAssessment DEF BuildReportWithIsolatedGuidance, none, collected
  <1>14. CASE with = NewReport(mode, request, core, Rows(assessed, collected), error)
    <2>1. Isolated(with, without) = with
      BY <1>14 DEF Isolated, NewReport
    <2> QED BY <1>4, <1>13, <1>14, <2>1 DEF collected
  <1>15. CASE with = Refused("guidance")
    <2>1. Isolated(with, without) = without
      BY <1>15 DEF Isolated, Refused
    <2> QED BY <1>5, <1>12, <1>13, <2>1 DEF collected
  <1> QED BY <1>11, <1>14, <1>15

\* What an assessment of a deployment's roots publishes is true, for any plans, policy and
\* guidance (AssessSavedPlansReport, ValidateSavedPlanAssessment).
THEOREM ReportsTellTheTruth ==
  ASSUME NEW roots, NEW mode, NEW request, NEW policyReads, NEW policy, NEW rules,
         Askable(mode, request, policyReads, policy, roots)
  PROVE  ReportTellsTheTruth(mode, request, policyReads, policy, rules, roots)
  <1>1. PICK bad, error, done, assessed, stale, core :
             Reached(mode, request, policyReads, policy, roots, bad, error, done, assessed, stale, core)
    BY Zenon DEF Reached, Askable
  <1>2. request.policy = policy /\ RootsApart(request.tenant, roots)
         /\ \A i \in DOMAIN roots : RecordsTyped(roots[i].plan)
         /\ Len(roots) \in Nat /\ DOMAIN roots = 1..Len(roots)
    BY DEF Askable
  <1>3. /\ done \in 0..Len(roots) /\ \A i \in 1..done : i \notin bad
        /\ PhaseFits(mode, policy, error, stale, assessed)
    BY <1>1, PhaseOfAssessment, Zenon
  <1>4. done \in Nat /\ 1..done \subseteq DOMAIN roots /\ DOMAIN assessed = 1..done
        /\ \A i \in 1..done : assessed[i] = AssessedRoot(roots[i], mode, policy)
    <2>1. assessed = AssessUpTo(done, mode, policy, roots)
      BY <1>1 DEF Reached
    <2> QED BY <1>3, <1>2, <2>1 DEF AssessUpTo
  <1>5. ASSUME NEW given
         PROVE  \E groups :
            /\ AssessSavedPlansReport(mode, request, policyReads, policy, given, roots)
                 = NewReport(mode, request, core, Rows(assessed, groups), error)
            /\ \A i \in DOMAIN groups : groups[i] = CollectAssessmentGuidance(given, roots[i].plan, roots[i].members,
                                                                            assessed[i].findings)
    BY <1>1, ReportIsPublished
  <1>6. PICK groups :
            /\ AssessSavedPlansReport(mode, request, policyReads, policy, rules, roots)
                 = NewReport(mode, request, core, Rows(assessed, groups), error)
            /\ \A i \in DOMAIN groups : groups[i] = CollectAssessmentGuidance(rules, roots[i].plan, roots[i].members,
                                                                            assessed[i].findings)
    BY <1>5
  <1>7. PICK others : AssessSavedPlansReport(mode, request, policyReads, policy, {}, roots)
                          = NewReport(mode, request, core, Rows(assessed, others), error)
    BY <1>5
  <1> DEFINE r == AssessSavedPlansReport(mode, request, policyReads, policy, rules, roots)
             unguided == AssessSavedPlansReport(mode, request, policyReads, policy, {}, roots)
  <1>8. Classification(r) = Classification(unguided)
    BY <1>4, <1>6, <1>7, GuidanceApart
  <1>9. r.refused = "no" /\ r.roots = Rows(assessed, groups)
    BY <1>6 DEF NewReport
  <1> HIDE DEF r, unguided
  <1>10. ASSUME NEW i \in DOMAIN r.roots
         PROVE  /\ Places({sc \in Blockable(roots[i], mode) : ~Harmless(sc[2], policy)}) \subseteq BlockedIn(r.roots[i])
                /\ BlockedIn(r.roots[i])
                     \subseteq Places({sc \in Blockable(roots[i], mode) : ~Harmless(sc[2], policy) \/ Undecided(sc[2])})
                /\ \A f \in r.roots[i].findings : \A p \in DOMAIN f.changes :
                     p[1] \in roots[i].secret
                       => f.changes[p].before = Null /\ f.changes[p].after = Null
                          /\ f.changes[p].added \cup f.changes[p].removed = {}
                /\ \A e \in r.roots[i].guidance :
                     /\ \E q \in rules : q.lane = e.lane /\ q.id = e.id /\ Covers(q, e.type)
                     /\ \E f \in r.roots[i].findings : f.status = Blocked /\ e.at \in f.paths
    <2> DEFINE row == r.roots[i]
               root == roots[i]
               found == PlanFindings(roots[i].plan, policy, Null, Adoptable(mode), roots[i].secret)
    <2>1. i \in 1..done /\ i \in DOMAIN roots
      BY <1>4, <1>9 DEF Rows
    <2>0. RecordsTyped(root.plan)
      BY <1>4, <1>2, <1>9 DEF Rows
    <2>2. assessed[i].findings = found
      BY <1>4, <2>1, AssessedFields
    <2>3. row.findings = Reportable(found) /\ row.guidance = (IF i \in DOMAIN groups THEN groups[i] ELSE {})
      BY <1>4, <1>9, <2>1, <2>2 DEF Rows
    <2>4. \A c \in roots[i].plan.changes \cup roots[i].plan.drift : c.actions \in SupportedActionSequences
      <3>1. ValidateAssessmentPlan(roots[i].plan, roots[i].attested, Null)
        BY <1>1, <1>3, <2>1 DEF OutsideContract, Reached
      <3> QED BY <3>1 DEF ValidateAssessmentPlan, ValidChangeRecord
    <2>5. /\ Places({sc \in Blockable(roots[i], mode) : ~Harmless(sc[2], policy)}) \subseteq BlockedIn(row)
          /\ BlockedIn(row)
               \subseteq Places({sc \in Blockable(roots[i], mode) : ~Harmless(sc[2], policy) \/ Undecided(sc[2])})
      <3>1. row.findings = Reportable(PlanFindings(root.plan, policy, Null, Adoptable(mode), root.secret))
        BY <2>3
      <3>2. \A c \in root.plan.changes \cup root.plan.drift : c.actions \in SupportedActionSequences
        BY <2>4
      <3> HIDE DEF row, found
      <3> QED BY <2>0, <3>1, <3>2, BlockedIsUnexplained
    <2>6. \A f \in row.findings : FindingIsFit(f, roots[i].secret)
      BY <2>3, FindingsAreFit DEF Reportable, Adoptable
    <2>7. ASSUME NEW e \in row.guidance
          PROVE  /\ \E q \in rules : q.lane = e.lane /\ q.id = e.id /\ Covers(q, e.type)
                 /\ \E f \in row.findings : f.status = Blocked /\ e.at \in f.paths
      <3>1. e \in CollectAssessmentGuidance(rules, roots[i].plan, roots[i].members, found)
        BY <1>6, <2>2, <2>3
      <3>2. /\ \E q \in rules : q.lane = e.lane /\ q.id = e.id /\ Covers(q, e.type)
            /\ \E f \in found : f.status = Blocked /\ e.at \in f.paths
        BY <3>1, GuidanceIsOfRules
      <3> QED BY <2>3, <3>2 DEF Reportable, Blocked, Clean
    <2> QED BY <2>5, <2>6, <2>7 DEF FindingIsFit
  <1>11. TellsTheTruth(r, unguided, mode, policy, rules, roots)
    BY <1>8, <1>9, <1>10 DEF TellsTheTruth
  <1> QED BY <1>11 DEF ReportTellsTheTruth, r, unguided

-----------------------------------------------------------------------------
(* The instance MCTopics *)

PlanRecords == Updates \cup Others

\* The plans that are generated: records of the two kinds, nothing errored.
PlanTyped ==
    plan \in [complete : BOOLEAN, errored : {FALSE}, outputsOK : {TRUE},
              changes : SUBSET PlanRecords, drift : SUBSET PlanRecords]

\* Generated plans hold generated records: at first, and after a step.
LEMMA PlanInitTyped == ASSUME PlanInit PROVE PlanTyped
  BY DEF PlanInit, PlanTyped

LEMMA PlanNextTyped == ASSUME PlanTyped, [PlanNext]_plan PROVE PlanTyped'
  <1>1. ASSUME NEW c \in PlanRecords, AddChange(c) \/ AddDrift(c)
        PROVE  PlanTyped'
    BY <1>1 DEF PlanTyped, AddChange, AddDrift
  <1>2. CASE PlanNext
    BY <1>1, <1>2 DEF PlanNext, PlanRecords
  <1>3. CASE UNCHANGED plan
    BY <1>3 DEF PlanTyped
  <1> QED BY <1>2, <1>3

\* A generated record says of its metadata whether they differ.
LEMMA PlanIsTyped == ASSUME PlanTyped PROVE RecordsTyped(plan)
  <1>1. \A c \in PlanRecords : c.identity \in BOOLEAN /\ c.sensitivity \in BOOLEAN
    BY DEF PlanRecords, Updates, Others
  <1>2. plan.changes \cup plan.drift \subseteq PlanRecords
    BY DEF PlanTyped
  <1> QED BY <1>1, <1>2 DEF RecordsTyped

\* An update is cleared only when no value of it moved (classifyChange).
THEOREM ClearedUpdatesNeverMove == PlanInit /\ [][PlanNext]_plan => []ClearedUpdatesAreUnchanged
  <1>1. PlanTyped => ClearedUpdatesAreUnchanged
    BY PlanIsTyped, ClearedUpdateIsUnchanged DEF RecordsTyped, ClearedUpdatesAreUnchanged
  <1> QED BY <1>1, PlanInitTyped, PlanNextTyped, PTL

\* What passes the gates of apply is consented to (applyExactPlanRoot).
THEOREM GatedPlansHaveConsent == PlanInit /\ [][PlanNext]_plan => []GatedPlansAreConsented
  <1>1. PlanTyped => GatedPlansAreConsented
    BY PlanIsTyped, GatedIsConsented DEF GatedPlansAreConsented
  <1> QED BY <1>1, PlanInitTyped, PlanNextTyped, PTL

\* Apply refuses nothing that assert-clean accepted without a policy (ValidateAssessmentPlan,
\* requireExactApplyTypedComplete).
THEOREM AssertCleanMeansApplicable == PlanInit /\ [][PlanNext]_plan => []AssertCleanImpliesApplicable
  <1>1. PlanTyped => AssertCleanImpliesApplicable
    BY AssertedCleanIsApplicable DEF AssertCleanImpliesApplicable
  <1> QED BY <1>1, PlanInitTyped, PlanNextTyped, PTL

\* No scope of an assertion hides drift inside it, or a resource left to write
\* (AcceptIncompleteTargetedPostImportPlan, ClassifyPlanWithOptions).
THEOREM ScopedAssertsSeeDrift == PlanInit /\ [][PlanNext]_plan => []ScopedAssertSeesImportedDrift
  <1>1. PlanTyped => ScopedAssertSeesImportedDrift
    BY PlanIsTyped, ScopedAssertHidesNoDrift DEF ScopedAssertSeesImportedDrift
  <1> QED BY <1>1, PlanInitTyped, PlanNextTyped, PTL

\* The roots of the instance's assessments.
FirstRoot(root) == root.tenant = "t" /\ root.label = "y" /\ root.members = {"z"} /\ root.plan = NoChange
LastRoot(root, document) ==
    /\ root.tenant = "t" /\ root.label = "x" /\ root.members = {"p_rule", "p_group"}
    /\ root.plan \in {document, Errored}

\* Every assessment of the instance can be asked for.
LEMMA ReportsAreAskable ==
  ASSUME doc \in ReportTopic
  PROVE  Askable(doc.mode, [tenant |-> "t", policy |-> doc.policy], doc.reads, doc.policy, doc.roots)
  <1>1. PICK modes, policies, reads, secrets :
           /\ doc \in Reports(modes, policies, reads, secrets)
           /\ \/ policies = {Null} /\ reads = TRUE
              \/ modes = {"assert-adoptable"} /\ reads = TRUE
              \/ modes = {"assert-adoptable"} /\ policies = {{<<"s">>}} /\ reads = FALSE
    BY DEF ReportTopic
  <1>2. /\ doc.mode = "assert-clean" => doc.policy = Null
        /\ doc.reads \in BOOLEAN /\ (doc.reads \/ doc.policy # Null)
    <2>1. doc.mode \in modes /\ doc.policy \in policies /\ doc.reads = reads
      BY <1>1 DEF Reports
    <2> QED BY <1>1, <2>1, PolicyAssumption
  <1>3. PICK document \in PlansOf : \E secret : doc.roots \in RootsOf(document, secret)
    BY <1>1 DEF Reports
  <1>4. RecordsTyped(document) /\ RecordsTyped(NoChange) /\ RecordsTyped(Errored)
    <2>1. \A c \in ChangesOf("a1") \cup ChangesOf("a2") : c.identity \in BOOLEAN /\ c.sensitivity \in BOOLEAN
      <3>1. ASSUME NEW c, \E a, actions, imported, to, unknown : c = Change(a, actions, imported, to, unknown)
            PROVE  c.identity = FALSE /\ c.sensitivity = FALSE
        BY <3>1 DEF Change
      <3>2. ASSUME NEW a, NEW c \in ChangesOf(a)
            PROVE  \E actions, imported, to, unknown : c = Change(a, actions, imported, to, unknown)
        BY Zenon DEF ChangesOf
      <3> QED BY <3>1, <3>2
    <2>2. document.changes \cup document.drift \subseteq ChangesOf("a1") \cup ChangesOf("a2")
      BY DEF PlansOf
    <2>3. NoChange.changes \cup NoChange.drift = {} /\ Errored.changes \cup Errored.drift = {}
      BY DEF NoChange, Errored
    <2> QED BY <2>1, <2>2, <2>3 DEF RecordsTyped
  <1>5. \/ doc.roots = <<>>
        \/ \E last : doc.roots = <<last>> /\ LastRoot(last, document)
        \/ \E first, last : doc.roots = <<first, last>> /\ FirstRoot(first) /\ LastRoot(last, document)
    BY <1>3 DEF RootsOf, AssessedOf, FirstRoot, LastRoot
  <1>6. CASE doc.roots = <<>>
    <2>1. DOMAIN doc.roots = {} /\ doc.roots \in Seq({doc.roots[i] : i \in DOMAIN doc.roots})
      BY <1>6
    <2> QED BY <1>2, <2>1 DEF Askable, RootsApart
  <1>7. ASSUME NEW last, doc.roots = <<last>>, LastRoot(last, document)
        PROVE  Askable(doc.mode, [tenant |-> "t", policy |-> doc.policy], doc.reads, doc.policy, doc.roots)
    <2>1. DOMAIN doc.roots = {1} /\ doc.roots[1] = last
      BY <1>7
    <2>2. doc.roots \in Seq({doc.roots[i] : i \in DOMAIN doc.roots})
      BY <1>7, <2>1
    <2> QED BY <1>2, <1>4, <1>7, <2>1, <2>2 DEF Askable, RootsApart, LastRoot
  <1>8. ASSUME NEW first, NEW last, doc.roots = <<first, last>>, FirstRoot(first), LastRoot(last, document)
        PROVE  Askable(doc.mode, [tenant |-> "t", policy |-> doc.policy], doc.reads, doc.policy, doc.roots)
    <2>1. DOMAIN doc.roots = {1, 2} /\ doc.roots[1] = first /\ doc.roots[2] = last
      BY <1>8
    <2>2. doc.roots \in Seq({doc.roots[i] : i \in DOMAIN doc.roots})
      BY <1>8, <2>1
    <2>3. RootsApart("t", doc.roots)
      BY <1>8, <2>1 DEF RootsApart, FirstRoot, LastRoot
    <2>4. \A i \in DOMAIN doc.roots : RecordsTyped(doc.roots[i].plan)
      BY <1>4, <1>8, <2>1 DEF FirstRoot, LastRoot
    <2> QED BY <1>2, <2>2, <2>3, <2>4 DEF Askable
  <1> QED BY <1>5, <1>6, <1>7, <1>8

\* Every report of the instance tells the truth (AssessSavedPlansReport).
THEOREM ReportsHereTellTheTruth == [](doc.topic = "report" => doc \in ReportTopic) => []ReportTruthHere
  <1>1. (doc.topic = "report" => doc \in ReportTopic) => ReportTruthHere
    BY ReportsAreAskable, ReportsTellTheTruth DEF ReportTruthHere
  <1> QED BY <1>1, PTL

-----------------------------------------------------------------------------
(* Moves *)

LEMMA AtMostOne ==
  ASSUME NEW S, IsFiniteSet(S), ~ (Cardinality(S) > 1), NEW a \in S, NEW b \in S
  PROVE  a = b
  <1> SUFFICES ASSUME a # b PROVE FALSE
    OBVIOUS
  <1>1. IsFiniteSet(S \ {a}) /\ Cardinality(S \ {a}) = Cardinality(S) - 1 /\ Cardinality(S) \in Nat
    BY FS_RemoveElement, FS_CardinalityType
  <1>2. Cardinality(S \ {a}) = 0
    BY <1>1, FS_CardinalityType
  <1> QED
    BY <1>1, <1>2, FS_EmptySet

LEMMA OneAlone ==
  ASSUME NEW S, IsFiniteSet(S), Cardinality(S) = 1, NEW a \in S
  PROVE  S = {a}
  <1>1. ASSUME NEW b \in S PROVE b = a
    BY <1>1, AtMostOne
  <1> QED
    BY <1>1

LEMMA CandidatesAreFinite ==
  ASSUME NEW old, NEW new, IsFiniteSet(DOMAIN old), IsFiniteSet(DOMAIN new)
  PROVE  /\ IsFiniteSet(MoveCandidates(old, new))
         /\ \A c \in MoveCandidates(old, new) :
               /\ c.from \in DOMAIN old /\ c.to \in DOMAIN new /\ c.id = old[c.from] /\ c.id = new[c.to] /\ c.from # c.to
               /\ c = [id |-> c.id, from |-> c.from, to |-> c.to]
         /\ \A k \in DOMAIN old, j \in DOMAIN new :
               old[k] = new[j] /\ k # j => [id |-> old[k], from |-> k, to |-> j] \in MoveCandidates(old, new)
  <1> DEFINE pairs == {q \in (DOMAIN old) \X (DOMAIN new) : old[q[1]] = new[q[2]] /\ q[1] # q[2]}
             Candidate(p) == [id |-> old[p[1]], from |-> p[1], to |-> p[2]]
  <1>1. MoveCandidates(old, new) = {Candidate(p) : p \in pairs}
    BY DEF MoveCandidates
  <1>2. IsFiniteSet((DOMAIN old) \X (DOMAIN new))
    BY FS_Product
  <1>3. IsFiniteSet(pairs)
    BY <1>2, FS_Subset
  <1>4. IsFiniteSet({Candidate(p) : p \in pairs})
    <2> DEFINE f == [p \in pairs |-> Candidate(p)]
               M == {Candidate(p) : p \in pairs}
    <2>1. f \in Surjection(pairs, M)
      BY DEF Surjection
    <2> HIDE DEF f, M
    <2>2. IsFiniteSet(M)
      BY <1>3, <2>1, FS_Surjection
    <2> QED
      BY <2>2 DEF M
  <1>5. ASSUME NEW c \in {Candidate(p) : p \in pairs}
        PROVE  /\ c.from \in DOMAIN old /\ c.to \in DOMAIN new /\ c.id = old[c.from] /\ c.id = new[c.to] /\ c.from # c.to
               /\ c = [id |-> c.id, from |-> c.from, to |-> c.to]
    OBVIOUS
  <1>6. ASSUME NEW k \in DOMAIN old, NEW j \in DOMAIN new, old[k] = new[j], k # j
        PROVE  [id |-> old[k], from |-> k, to |-> j] \in {Candidate(p) : p \in pairs}
    <2>1. <<k, j>> \in pairs /\ Candidate(<<k, j>>) = [id |-> old[k], from |-> k, to |-> j]
      BY <1>6
    <2> QED
      BY <2>1
  <1> QED
    BY <1>1, <1>4, <1>5, <1>6

\* A move is suppressed for four reasons.
LEMMA MovedOnly ==
  ASSUME NEW c, NEW candidates, NEW old, NEW new
  PROVE  SuppressedBecause(c, candidates, old, new) = "moved"
           <=> /\ ~ (Cardinality({k \in DOMAIN old : old[k] = c.id}) > 1)
               /\ ~ (Cardinality({d \in candidates : d.from = c.from}) > 1)
               /\ ~ IsKeySwap(c, old, new)
               /\ c.to \notin DOMAIN old /\ c.from \notin DOMAIN new
  BY DEF SuppressedBecause

\* Whatever the imports of a type were and become: every move takes an object to the one key
\* that now names its identity, no two moves meet, and a plain rename is always a move
\* (DeriveImportMoves).
THEOREM MovesAlwaysReconcile ==
  ASSUME NEW old, NEW new, IsFiniteSet(DOMAIN old), IsFiniteSet(DOMAIN new)
  PROVE  MovesReconcile(old, new)
  <1> DEFINE candidates == MoveCandidates(old, new)
             moves == {c \in candidates : SuppressedBecause(c, candidates, old, new) = "moved"}
             gone == DOMAIN old \ DOMAIN new
             fresh == DOMAIN new \ DOMAIN old
  <1>1. CASE HasFailed(DeriveImportMoves(old, new))
    BY <1>1 DEF MovesReconcile
  <1>2. CASE ~ HasFailed(DeriveImportMoves(old, new))
    <2>1. DeriveImportMoves(old, new).moves = moves
      <3>1. ~ (Cardinality(candidates) > MaxImportMoves)
        BY <1>2, Zenon DEF DeriveImportMoves, HasFailed, Failed
      <3> QED
        BY <3>1 DEF DeriveImportMoves
    <2>2. ASSUME NEW m \in moves
          PROVE  /\ m.id = old[m.from] /\ m.id = new[m.to] /\ m.from \in gone /\ m.to \in fresh
                 /\ \A n \in moves : (m.from = n.from \/ m.to = n.to) => m = n
      <3> DEFINE named == {k \in DOMAIN old : old[k] = m.id}
                 leaving == {d \in candidates : d.from = m.from}
      <3>1. /\ m \in candidates /\ ~ (Cardinality(named) > 1) /\ ~ (Cardinality(leaving) > 1)
            /\ m.to \notin DOMAIN old /\ m.from \notin DOMAIN new
        BY MovedOnly
      <3>2. /\ IsFiniteSet(candidates) /\ m.from \in DOMAIN old /\ m.to \in DOMAIN new
            /\ m.id = old[m.from] /\ m.id = new[m.to]
        BY <3>1, CandidatesAreFinite
      <3>3. IsFiniteSet(named) /\ IsFiniteSet(leaving)
        BY <3>2, FS_Subset
      <3>4. ASSUME NEW n \in moves, m.from = n.from PROVE m = n
        <4>1. m \in leaving /\ n \in leaving
          BY <3>1, <3>4
        <4> HIDE DEF leaving
        <4> QED
          BY <3>1, <3>3, <4>1, AtMostOne
      <3>5. ASSUME NEW n \in moves, m.to = n.to PROVE m = n
        <4>1. n \in candidates
          OBVIOUS
        <4>2. n.from \in DOMAIN old /\ n.id = old[n.from] /\ n.id = new[n.to]
          BY <4>1, CandidatesAreFinite
        <4>3. m.from \in named /\ n.from \in named
          BY <3>2, <3>5, <4>2
        <4> HIDE DEF named
        <4>4. m.from = n.from
          BY <3>1, <3>3, <4>3, AtMostOne
        <4> QED
          BY <3>4, <4>4
      <3> QED
        BY <3>1, <3>2, <3>4, <3>5
    <2>3. ASSUME NEW k \in gone, NEW j \in fresh, old[k] = new[j],
                 Cardinality({i \in DOMAIN old : old[i] = old[k]}) = 1,
                 Cardinality({i \in DOMAIN new : new[i] = old[k]}) = 1
          PROVE  [id |-> old[k], from |-> k, to |-> j] \in moves
      <3> DEFINE c == [id |-> old[k], from |-> k, to |-> j]
                 renamed == {i \in DOMAIN new : new[i] = old[k]}
                 leaving == {d \in candidates : d.from = k}
      <3>1. c \in candidates /\ c.id = old[k] /\ c.from = k /\ c.to = j
        BY <2>3, CandidatesAreFinite
      <3>2. renamed = {j}
        <4>1. IsFiniteSet(renamed) /\ j \in renamed
          BY <2>3, FS_Subset
        <4> QED
          BY <2>3, <4>1, OneAlone
      <3>3. leaving = {c}
        <4>1. ASSUME NEW d \in leaving PROVE d = c
          <5>1. d.to \in DOMAIN new /\ d.id = old[k] /\ d.id = new[d.to] /\ d = [id |-> d.id, from |-> d.from, to |-> d.to]
                /\ d.from = k
            BY <4>1, CandidatesAreFinite
          <5>2. d.to = j
            BY <3>2, <5>1
          <5> QED
            BY <5>1, <5>2
        <4> QED
          BY <3>1, <4>1
      <3>4. Cardinality(leaving) = 1
        BY <3>3, FS_Singleton
      <3>5. ~ IsKeySwap(c, old, new)
        BY <3>1 DEF IsKeySwap
      <3> HIDE DEF c
      <3>6. SuppressedBecause(c, candidates, old, new) = "moved"
        BY <2>3, <3>1, <3>4, <3>5, MovedOnly
      <3> QED
        BY <3>1, <3>6 DEF c
    <2> HIDE DEF moves
    <2> QED
      BY <1>2, <2>1, <2>2, <2>3 DEF MovesReconcile
  <1> QED
    BY <1>1, <1>2

\* The imports of the instance (DeriveImportMoves).
THEOREM MovesHereReconcile == [](doc.topic = "moves" => doc \in MovesTopic) => []MovesReconcileHere
  <1>1. ASSUME NEW m \in PartialMaps PROVE IsFiniteSet(DOMAIN m)
    <2>1. DOMAIN m \subseteq {"k1"} \cup ({"k2"} \cup {"k3"})
      BY DEF PartialMaps
    <2>2. IsFiniteSet({"k1"} \cup ({"k2"} \cup {"k3"}))
      BY FS_Singleton, FS_Union
    <2> QED
      BY <2>1, <2>2, FS_Subset
  <1>2. (doc.topic = "moves" => doc \in MovesTopic) => MovesReconcileHere
    <2> SUFFICES ASSUME doc \in MovesTopic PROVE MovesReconcile(doc.old, doc.new)
      BY DEF MovesReconcileHere
    <2>1. doc.old \in PartialMaps /\ doc.new \in PartialMaps
      BY DEF MovesTopic
    <2> QED
      BY <1>1, <2>1, MovesAlwaysReconcile
  <1> QED
    BY <1>2, PTL

-----------------------------------------------------------------------------
(* Iteration *)

LEMMA LeastOf ==
  ASSUME NEW S \in SUBSET Nat, S # {}
  PROVE  \E i \in S : \A j \in S : i <= j
  <1>1. PICK i \in S : \A j \in S : ~ <<j, i>> \in OpToRel(<, Nat)
    BY NatLessThanWellFounded, WFMin
  <1>2. \A j \in S : ~ j < i
    BY <1>1 DEF OpToRel
  <1> QED
    BY <1>2

\* What holds of zero and of the next number holds of every number.
LEMMA EveryNumber ==
  ASSUME NEW S \in SUBSET Nat, 0 \in S, \A n \in S : n + 1 \in S
  PROVE  S = Nat
  <1> SUFFICES ASSUME Nat \ S # {} PROVE FALSE
    OBVIOUS
  <1>1. PICK k \in Nat \ S : \A j \in Nat \ S : k <= j
    BY LeastOf
  <1>2. k # 0 /\ k - 1 \in Nat
    BY <1>1
  <1>3. k - 1 \in S
    BY <1>1, <1>2
  <1> QED
    BY <1>1, <1>2, <1>3

LEMMA IteratedSteps ==
  ASSUME NEW S, NEW step \in [S -> S], NEW start \in S
  PROVE  /\ \A n \in Nat : Iterated(step, start)[n] \in S
         /\ Iterated(step, start)[0] = start
         /\ \A n \in Nat : Iterated(step, start)[n + 1] = step[Iterated(step, start)[n]]
  <1> DEFINE Upto(h, m) == /\ h \in [0..m -> S] /\ h[0] = start
                           /\ \A i \in 1..m : h[i] = step[h[i - 1]]
             Given(f) == f = [n \in Nat |-> IF n = 0 THEN start ELSE step[f[n - 1]]]
  <1>1. \A m \in Nat : \E h : Upto(h, m)
    <2> DEFINE T == {m \in Nat : \E h : Upto(h, m)}
    <2>1. 0 \in T
      <3>1. Upto([i \in 0..0 |-> start], 0)
        OBVIOUS
      <3> QED
        BY <3>1
    <2>2. ASSUME NEW n \in T PROVE n + 1 \in T
      <3>1. PICK h : Upto(h, n)
        OBVIOUS
      <3> DEFINE g == [i \in 0..(n + 1) |-> IF i <= n THEN h[i] ELSE step[h[n]]]
      <3>2. n \in Nat /\ n \in 0..n /\ 0 \in 0..n
        OBVIOUS
      <3>3. g \in [0..(n + 1) -> S] /\ g[0] = start
        BY <3>1, <3>2
      <3>4. ASSUME NEW i \in 1..(n + 1) PROVE g[i] = step[g[i - 1]]
        <4>1. CASE i <= n
          <5>1. i \in 1..n /\ i - 1 \in 0..(n + 1) /\ i - 1 <= n /\ i \in 0..(n + 1)
            BY <3>2, <4>1
          <5> QED
            BY <3>1, <4>1, <5>1
        <4>2. CASE ~ (i <= n)
          <5>1. i - 1 = n /\ n \in 0..(n + 1) /\ i \in 0..(n + 1)
            BY <3>2, <4>2
          <5> QED
            BY <4>2, <5>1
        <4> QED
          BY <4>1, <4>2
      <3> HIDE DEF g
      <3>5. Upto(g, n + 1)
        BY <3>3, <3>4
      <3> QED
        BY <3>2, <3>5
    <2> HIDE DEF T
    <2>3. T \in SUBSET Nat
      BY DEF T
    <2>4. T = Nat
      BY <2>1, <2>2, <2>3, EveryNumber
    <2> QED
      BY <2>4 DEF T
  <1>2. ASSUME NEW m \in Nat, NEW n \in Nat, NEW h, NEW g, Upto(h, m), Upto(g, n)
        PROVE  \A i \in Nat : i <= m /\ i <= n => h[i] = g[i]
    <2> DEFINE T == {i \in Nat : i <= m /\ i <= n => h[i] = g[i]}
    <2>1. 0 \in T
      BY <1>2
    <2>2. ASSUME NEW i \in T, i + 1 <= m, i + 1 <= n PROVE h[i + 1] = g[i + 1]
      <3>1. i \in Nat /\ i + 1 \in 1..m /\ i + 1 \in 1..n /\ i <= m /\ i <= n /\ (i + 1) - 1 = i
        BY <2>2
      <3> QED
        BY <1>2, <3>1
    <2>3. ASSUME NEW i \in T PROVE i + 1 \in T
      BY <2>2
    <2> HIDE DEF T
    <2>4. T \in SUBSET Nat
      BY DEF T
    <2>5. T = Nat
      BY <2>1, <2>3, <2>4, EveryNumber
    <2> QED
      BY <2>5 DEF T
  <1> DEFINE part == [n \in Nat |-> CHOOSE h : Upto(h, n)]
             whole == [n \in Nat |-> part[n][n]]
  <1>3. \A n \in Nat : Upto(part[n], n)
    BY <1>1
  <1> HIDE DEF part
  <1>4. Given(whole)
    <2>1. ASSUME NEW n \in Nat PROVE whole[n] = IF n = 0 THEN start ELSE step[whole[n - 1]]
      <3>1. CASE n = 0
        BY <1>3, <3>1
      <3>2. CASE n # 0
        <4>1. n - 1 \in Nat /\ n \in 1..n /\ n - 1 <= n /\ n - 1 <= n - 1
          BY <3>2
        <4>2. part[n][n] = step[part[n][n - 1]]
          BY <1>3, <4>1
        <4>3. part[n][n - 1] = part[n - 1][n - 1]
          <5> HIDE DEF Upto
          <5>1. Upto(part[n], n) /\ Upto(part[n - 1], n - 1)
            BY <1>3, <4>1
          <5>2. \A i \in Nat : i <= n /\ i <= n - 1 => part[n][i] = part[n - 1][i]
            BY <1>2, <4>1, <5>1
          <5> QED
            BY <4>1, <5>2
        <4> QED
          BY <3>2, <4>1, <4>2, <4>3
      <3> QED
        BY <3>1, <3>2
    <2> QED
      BY <2>1
  <1> HIDE DEF whole
  <1>5. Given(Iterated(step, start))
    <2>1. Iterated(step, start) = CHOOSE f : Given(f)
      BY DEF Iterated
    <2> HIDE DEF Given
    <2> QED
      BY <1>4, <2>1
  <1> DEFINE f == Iterated(step, start)
  <1>6. \A n \in Nat : f[n] = IF n = 0 THEN start ELSE step[f[n - 1]]
    BY <1>5
  <1> HIDE DEF f
  <1>7. ASSUME NEW n \in Nat PROVE f[n + 1] = step[f[n]]
    <2>1. n + 1 \in Nat /\ n + 1 # 0 /\ (n + 1) - 1 = n
      OBVIOUS
    <2> QED
      BY <1>6, <2>1
  <1>8. \A n \in Nat : f[n] \in S
    <2> DEFINE T == {n \in Nat : f[n] \in S}
    <2>1. 0 \in T
      BY <1>6
    <2>2. ASSUME NEW n \in T PROVE n + 1 \in T
      BY <1>7
    <2> HIDE DEF T
    <2>3. T \in SUBSET Nat
      BY DEF T
    <2>4. T = Nat
      BY <2>1, <2>2, <2>3, EveryNumber
    <2> QED
      BY <2>4 DEF T
  <1> QED
    BY <1>6, <1>7, <1>8 DEF f

(* The order of the types *)

LEMMA ForemostIsMember ==
  ASSUME NEW S \in SUBSET Range(NameOrder), S # {}
  PROVE  Foremost(S) \in S
  <1> DEFINE D == {i \in Nat : i \in DOMAIN NameOrder /\ NameOrder[i] \in S}
             P(s) == \A t \in S \ {s} : Before(s, t)
  <1>1. DOMAIN NameOrder \subseteq Nat
    BY ValuesAssumption
  <1>2. \A s \in S : \E i \in DOMAIN NameOrder : NameOrder[i] = s
    BY DEF Range
  <1>3. D # {} /\ D \in SUBSET Nat
    BY <1>1, <1>2
  <1>4. PICK i \in D : \A j \in D : i <= j
    BY <1>3, LeastOf
  <1>5. P(NameOrder[i])
    <2> SUFFICES ASSUME NEW t \in S \ {NameOrder[i]} PROVE Before(NameOrder[i], t)
      OBVIOUS
    <2>1. PICK j \in DOMAIN NameOrder : NameOrder[j] = t
      BY <1>2
    <2>2. j \in D /\ i # j
      BY <1>1, <2>1
    <2>3. i < j
      BY <1>3, <1>4, <2>2
    <2> QED
      BY <2>1, <2>3 DEF Before
  <1>6. NameOrder[i] \in S
    OBVIOUS
  <1>7. Foremost(S) = CHOOSE s \in S : P(s)
    BY DEF Foremost
  <1> HIDE DEF P
  <1> QED
    BY <1>5, <1>6, <1>7

\* Some of the selected types in an order: each once, after all it refers to.
PlacedWell(pack, selected, order) ==
    /\ order \in Seq(selected)
    /\ \A i, j \in 1..Len(order) : order[i] = order[j] => i = j
    /\ \A i \in 1..Len(order) : Referents(pack, order[i], selected) \subseteq {order[k] : k \in 1..(i - 1)}

LEMMA NextPlaced ==
  ASSUME NEW pack, NEW selected \in SUBSET Range(NameOrder), NEW order \in Seq(selected)
  PROVE  LET next == PlaceNext(pack, selected)[order]
         IN  /\ next \in Seq(selected)
             /\ PlacedWell(pack, selected, order) => PlacedWell(pack, selected, next)
  <1> DEFINE ready == ReadyTypes(pack, selected, Range(order))
             next == PlaceNext(pack, selected)[order]
  <1>1. next = IF ready = {} THEN order ELSE Append(order, Foremost(ready))
    BY DEF PlaceNext
  <1>2. CASE ready = {}
    BY <1>1, <1>2
  <1>3. CASE ready # {}
    <2>1. Foremost(ready) \in ready
      BY <1>3, ForemostIsMember DEF ReadyTypes
    <2>2. PICK t \in selected : /\ t = Foremost(ready) /\ t \notin Range(order)
                                /\ Referents(pack, t, selected) \subseteq Range(order)
      BY <2>1 DEF ReadyTypes
    <2> HIDE DEF ready, next
    <2> DEFINE longer == Append(order, t)
    <2>3. next = longer
      BY <1>1, <1>3, <2>2
    <2>4. /\ longer \in Seq(selected) /\ Len(order) \in Nat /\ Len(longer) = Len(order) + 1
          /\ \A i \in 1..Len(order) : longer[i] = order[i]
          /\ longer[Len(order) + 1] = t
      BY AppendProperties
    <2> HIDE DEF longer
    <2>5. Range(order) = {order[k] : k \in 1..Len(order)}
      BY DEF Range
    <2>6. ASSUME PlacedWell(pack, selected, order) PROVE PlacedWell(pack, selected, longer)
      <3>1. ASSUME NEW i \in 1..Len(longer), NEW j \in 1..Len(longer), longer[i] = longer[j] PROVE i = j
        <4>1. \A k \in 1..Len(longer) : k \in 1..Len(order) \/ k = Len(order) + 1
          BY <2>4
        <4>2. \A k \in 1..Len(order) : longer[k] # t
          BY <2>2, <2>4, <2>5
        <4>3. CASE i \in 1..Len(order) /\ j \in 1..Len(order)
          BY <2>4, <2>6, <3>1, <4>3 DEF PlacedWell
        <4> QED
          BY <2>4, <3>1, <4>1, <4>2, <4>3
      <3>2. ASSUME NEW i \in 1..Len(longer)
            PROVE  Referents(pack, longer[i], selected) \subseteq {longer[k] : k \in 1..(i - 1)}
        <4>1. CASE i \in 1..Len(order)
          <5>1. {order[k] : k \in 1..(i - 1)} \subseteq {longer[k] : k \in 1..(i - 1)}
            <6>1. \A k \in 1..(i - 1) : longer[k] = order[k]
              BY <2>4, <4>1
            <6> QED
              BY <6>1
          <5> QED
            BY <2>4, <2>6, <4>1, <5>1 DEF PlacedWell
        <4>2. CASE i = Len(order) + 1
          <5>1. i - 1 = Len(order)
            BY <2>4, <4>2
          <5>2. Range(order) \subseteq {longer[k] : k \in 1..(i - 1)}
            BY <2>4, <2>5, <5>1
          <5> QED
            BY <2>2, <2>4, <4>2, <5>2
        <4> QED
          BY <2>4, <4>1, <4>2
      <3> QED
        BY <2>4, <3>1, <3>2 DEF PlacedWell
    <2> QED
      BY <2>3, <2>4, <2>6 DEF next
  <1> HIDE DEF ready
  <1> QED
    BY <1>2, <1>3

LEMMA PlacedTypesAreWell ==
  ASSUME NEW pack, NEW selected \in SUBSET Range(NameOrder), IsFiniteSet(selected)
  PROVE  PlacedWell(pack, selected, PlacedTypes(pack, selected))
  <1> DEFINE step == PlaceNext(pack, selected)
             after == Iterated(step, <<>>)
             T == {n \in Nat : PlacedWell(pack, selected, after[n])}
  <1>1. step \in [Seq(selected) -> Seq(selected)]
    <2>1. step = [order \in Seq(selected) |-> step[order]]
      BY DEF PlaceNext
    <2>2. \A order \in Seq(selected) : step[order] \in Seq(selected)
      BY NextPlaced
    <2> HIDE DEF step
    <2> QED
      BY <2>1, <2>2
  <1>2. <<>> \in Seq(selected)
    OBVIOUS
  <1> HIDE DEF step
  <1>3. /\ \A n \in Nat : after[n] \in Seq(selected)
        /\ after[0] = <<>>
        /\ \A n \in Nat : after[n + 1] = step[after[n]]
    <2> DEFINE Orders == Seq(selected)
               none == <<>>
    <2>1. step \in [Orders -> Orders] /\ none \in Orders
      BY <1>1, <1>2
    <2> HIDE DEF T, Orders, none
    <2>2. /\ \A n \in Nat : Iterated(step, none)[n] \in Orders
          /\ Iterated(step, none)[0] = none
          /\ \A n \in Nat : Iterated(step, none)[n + 1] = step[Iterated(step, none)[n]]
      BY <2>1, IteratedSteps
    <2> QED
      BY <2>2 DEF Orders, none
  <1> HIDE DEF after
  <1>4. 0 \in T
    BY <1>3 DEF PlacedWell
  <1>5. ASSUME NEW n \in T PROVE n + 1 \in T
    <2>1. n \in Nat /\ after[n] \in Seq(selected) /\ PlacedWell(pack, selected, after[n])
      BY <1>3
    <2>2. PlacedWell(pack, selected, step[after[n]])
      BY <2>1, NextPlaced DEF step
    <2>3. n + 1 \in Nat /\ after[n + 1] = step[after[n]]
      BY <1>3, <2>1
    <2> QED
      BY <2>2, <2>3
  <1>6. T \in SUBSET Nat
    OBVIOUS
  <1> HIDE DEF T
  <1>7. T = Nat
    BY <1>4, <1>5, <1>6, EveryNumber
  <1>8. Cardinality(selected) \in Nat
    BY FS_CardinalityType
  <1> QED
    BY <1>7, <1>8 DEF T, PlacedTypes, after, step

\* Every selected type is transformed once, and after all it refers to (referenceOrder).
LEMMA OrderIsSound ==
  ASSUME NEW pack, NEW selected \in SUBSET Range(NameOrder), IsFiniteSet(selected),
         ~ HasFailed(ReferenceOrder(pack, selected))
  PROVE  LET order == ReferenceOrder(pack, selected).order
         IN  /\ Range(order) = selected /\ Len(order) = Cardinality(selected)
             /\ \A i, j \in DOMAIN order : order[j] \in Referents(pack, order[i], selected) => j < i
  <1> DEFINE order == PlacedTypes(pack, selected)
  <1>1. ReferenceOrder(pack, selected) = [order |-> order] /\ Range(order) = selected
    BY DEF ReferenceOrder, Failed, HasFailed
  <1>2. PlacedWell(pack, selected, order)
    BY PlacedTypesAreWell
  <1> HIDE DEF order
  <1>3. Len(order) \in Nat /\ DOMAIN order = 1..Len(order) /\ order \in [1..Len(order) -> selected]
    BY <1>2 DEF PlacedWell
  <1>4. Len(order) = Cardinality(selected)
    <2>1. order \in Injection(1..Len(order), selected)
      BY <1>2, <1>3 DEF Injection, IsInjective, PlacedWell
    <2>2. order \in Surjection(1..Len(order), selected)
      BY <1>1, <1>3 DEF Surjection, Range
    <2>3. ExistsBijection(1..Len(order), selected)
      BY <2>1, <2>2 DEF ExistsBijection, Bijection
    <2>4. IsFiniteSet(1..Len(order)) /\ Cardinality(1..Len(order)) = Len(order)
      BY <1>3, FS_Interval
    <2> QED
      BY <2>3, <2>4, FS_Bijection
  <1>5. ASSUME NEW i \in DOMAIN order, NEW j \in DOMAIN order, order[j] \in Referents(pack, order[i], selected)
        PROVE  j < i
    <2>1. PICK k \in 1..(i - 1) : order[k] = order[j]
      BY <1>2, <1>3, <1>5 DEF PlacedWell
    <2>2. k = j
      BY <1>2, <1>3, <2>1 DEF PlacedWell
    <2> QED
      BY <1>3, <2>2
  <1> QED
    BY <1>1, <1>4, <1>5

(* Paths *)

LEMMA UnderBase ==
  ASSUME NEW S, NEW base \in Seq(S), NEW rest \in Seq(S), Len(rest) > 0
  PROVE  RelativeUnder(base \o rest, base) = {rest}
  <1> DEFINE path == base \o rest
             low == SubSeq(path, 1, Len(base))
             high == SubSeq(path, Len(base) + 1, Len(path))
  <1>1. /\ path \in Seq(S) /\ Len(path) = Len(base) + Len(rest) /\ Len(base) \in Nat /\ Len(rest) \in Nat
        /\ \A i \in 1..(Len(base) + Len(rest)) : path[i] = IF i <= Len(base) THEN base[i] ELSE rest[i - Len(base)]
    BY ConcatProperties
  <1> HIDE DEF path
  <1>2. \A i \in 1..Len(path) : path[i] \in S
    BY <1>1
  <1>3. low = base
    <2>1. \A i \in 1..Len(base) : path[i] \in S
      BY <1>1, <1>2
    <2>2. /\ low \in Seq(S) /\ Len(low) = Len(base)
          /\ \A i \in 1..Len(base) : low[i] = path[i]
      <3>1. /\ low \in Seq(S) /\ Len(low) = (IF 1 <= Len(base) THEN Len(base) - 1 + 1 ELSE 0)
            /\ \A i \in 1..(Len(base) - 1 + 1) : low[i] = path[1 + i - 1]
        BY <1>1, <2>1, SubSeqProperties
      <3> HIDE DEF low
      <3> QED
        BY <1>1, <3>1
    <2> HIDE DEF low
    <2>3. \A i \in 1..Len(low) : low[i] = base[i]
      BY <1>1, <2>2
    <2> QED
      BY <2>2, <2>3, SeqEqual
  <1>4. high = rest
    <2>1. \A i \in (Len(base) + 1)..Len(path) : path[i] \in S
      BY <1>1, <1>2
    <2>2. /\ high \in Seq(S) /\ Len(high) = Len(rest)
          /\ \A i \in 1..Len(rest) : high[i] = path[Len(base) + i]
      <3>1. /\ high \in Seq(S)
            /\ Len(high) = (IF Len(base) + 1 <= Len(path) THEN Len(path) - (Len(base) + 1) + 1 ELSE 0)
            /\ \A i \in 1..(Len(path) - (Len(base) + 1) + 1) : high[i] = path[(Len(base) + 1) + i - 1]
        BY <1>1, <2>1, SubSeqProperties
      <3> HIDE DEF high
      <3>2. \A i \in 1..Len(rest) : i \in 1..(Len(path) - (Len(base) + 1) + 1) /\ (Len(base) + 1) + i - 1 = Len(base) + i
        BY <1>1
      <3>3. Len(base) + 1 <= Len(path) /\ Len(path) - (Len(base) + 1) + 1 = Len(rest)
        BY <1>1
      <3>4. \A i \in 1..Len(rest) : high[i] = path[Len(base) + i]
        BY <3>1, <3>2
      <3> QED
        BY <3>1, <3>3, <3>4
    <2> HIDE DEF high
    <2>3. ASSUME NEW i \in 1..Len(high) PROVE high[i] = rest[i]
      <3>1. Len(base) + i \in 1..(Len(base) + Len(rest)) /\ ~ (Len(base) + i <= Len(base)) /\ (Len(base) + i) - Len(base) = i
        BY <1>1, <2>2
      <3> QED
        BY <1>1, <2>2, <3>1
    <2> QED
      BY <2>2, <2>3, SeqEqual
  <1>5. RelativeUnder(path, base) = IF Len(path) > Len(base) /\ low = base THEN {high} ELSE {}
    BY DEF RelativeUnder
  <1> HIDE DEF low, high
  <1>6. Len(path) > Len(base)
    BY <1>1
  <1> QED
    BY <1>3, <1>4, <1>5, <1>6 DEF path

LEMMA PairPath ==
  ASSUME NEW S, NEW a \in S, NEW b \in S
  PROVE  <<a>> \o <<b>> = <<a, b>> /\ <<a>> \in Seq(S) /\ <<b>> \in Seq(S) /\ <<a, b>> \in Seq(S)
  <1>1. <<a>> \in Seq(S) /\ <<b>> \in Seq(S) /\ <<a, b>> \in Seq(S)
    OBVIOUS
  <1>2. Len(<<a>>) = 1 /\ Len(<<b>>) = 1 /\ Len(<<a, b>>) = 2
    OBVIOUS
  <1>3. <<a>>[1] = a /\ <<b>>[1] = b /\ <<a, b>>[1] = a /\ <<a, b>>[2] = b
    OBVIOUS
  <1> DEFINE one == <<a>>
             two == <<b>>
             ab == <<a, b>>
  <1> HIDE DEF one, two, ab
  <1>4. one \o two = ab
    <2> DEFINE s == one \o two
    <2>1. s \in Seq(S) /\ Len(s) = 1 + 1 /\ s[1] = one[1] /\ s[2] = two[2 - 1]
      BY <1>1, <1>2, ConcatProperties DEF one, two
    <2> HIDE DEF s
    <2>2. \A i \in 1..Len(s) : s[i] = ab[i]
      BY <1>3, <2>1 DEF one, two, ab
    <2>3. s = ab
      BY <1>1, <1>2, <2>1, <2>2, SeqEqual DEF ab
    <2> QED
      BY <2>3 DEF s
  <1> QED
    BY <1>1, <1>4 DEF one, two, ab

LEMMA ShortPaths ==
  ASSUME NEW S, NEW a \in S, NEW b \in S, NEW c \in S
  PROVE  /\ <<a>> \o <<b>> = <<a, b>> /\ <<a>> \o <<b, c>> = <<a, b, c>>
         /\ <<a, b>> \o <<c>> = <<a, b, c>>
         /\ <<a>> \in Seq(S) /\ <<a, b>> \in Seq(S) /\ <<a, b, c>> \in Seq(S)
  <1>1. <<a>> \in Seq(S) /\ <<b>> \in Seq(S) /\ <<c>> \in Seq(S) /\ <<a, b>> \in Seq(S) /\ <<b, c>> \in Seq(S)
        /\ <<a, b, c>> \in Seq(S)
    OBVIOUS
  <1>2. Len(<<a>>) = 1 /\ Len(<<b>>) = 1 /\ Len(<<c>>) = 1 /\ Len(<<a, b>>) = 2 /\ Len(<<b, c>>) = 2 /\ Len(<<a, b, c>>) = 3
    OBVIOUS
  <1>3. /\ <<a>>[1] = a /\ <<b>>[1] = b /\ <<c>>[1] = c /\ <<a, b>>[1] = a /\ <<a, b>>[2] = b
        /\ <<b, c>>[1] = b /\ <<b, c>>[2] = c /\ <<a, b, c>>[1] = a /\ <<a, b, c>>[2] = b /\ <<a, b, c>>[3] = c
    OBVIOUS
  <1> DEFINE one == <<a>>
             two == <<b>>
             three == <<c>>
             ab == <<a, b>>
             bc == <<b, c>>
             abc == <<a, b, c>>
  <1> HIDE DEF one, two, three, ab, bc, abc
  <1>4. one \o two = ab
    <2> DEFINE s == one \o two
    <2>1. s \in Seq(S) /\ Len(s) = 1 + 1 /\ s[1] = one[1] /\ s[2] = two[2 - 1]
      BY <1>1, <1>2, ConcatProperties DEF one, two
    <2> HIDE DEF s
    <2>2. \A i \in 1..Len(s) : s[i] = ab[i]
      BY <1>3, <2>1 DEF one, two, ab
    <2>3. s = ab
      BY <1>1, <1>2, <2>1, <2>2, SeqEqual DEF ab
    <2> QED
      BY <2>3 DEF s
  <1>5. ab \o three = abc
    <2> DEFINE s == ab \o three
    <2>1. s \in Seq(S) /\ Len(s) = 2 + 1 /\ s[1] = ab[1] /\ s[2] = ab[2] /\ s[3] = three[3 - 2]
      BY <1>1, <1>2, ConcatProperties DEF ab, three
    <2> HIDE DEF s
    <2>2. \A i \in 1..Len(s) : s[i] = abc[i]
      BY <1>3, <2>1 DEF ab, three, abc
    <2>3. s = abc
      BY <1>1, <1>2, <2>1, <2>2, SeqEqual DEF abc
    <2> QED
      BY <2>3 DEF s
  <1>6. two \o three = bc
    <2> DEFINE s == two \o three
    <2>1. s \in Seq(S) /\ Len(s) = 1 + 1 /\ s[1] = two[1] /\ s[2] = three[2 - 1]
      BY <1>1, <1>2, ConcatProperties DEF two, three
    <2> HIDE DEF s
    <2>2. \A i \in 1..Len(s) : s[i] = bc[i]
      BY <1>3, <2>1 DEF two, three, bc
    <2>3. s = bc
      BY <1>1, <1>2, <2>1, <2>2, SeqEqual DEF bc
    <2> QED
      BY <2>3 DEF s
  <1>7. one \o bc = abc
    <2>1. one \o (two \o three) = (one \o two) \o three
      BY <1>1, ConcatAssociative DEF one, two, three
    <2> QED
      BY <1>4, <1>5, <1>6, <2>1
  <1> QED
    BY <1>1, <1>4, <1>5, <1>7 DEF one, two, three, ab, bc, abc

LEMMA TriplePath ==
  ASSUME NEW S, NEW a \in S, NEW b \in S, NEW c \in S
  PROVE  <<a>> \o <<b, c>> = <<a, b, c>>
  BY ShortPaths

\* The files c of directory <<a, b>> of d, and of its directory e, in the code's two ways; and
\* the file e of directory c of d.
FileIn(d, a, b, c) == Append(d \o <<a, b>>, c)
LaneFileIn(d, a, b, e, c) == Append((d \o <<a, b>>) \o <<e>>, c)
DeepFileIn(d, a, b, e, c) == (d \o <<a, b>>) \o <<e, c>>
ModuleFileIn(d, c, e) == Append(d, c) \o <<e>>

\* What is left of each path below the directory a, or below d.
LEMMA UnderOverlay ==
  ASSUME NEW S, NEW d \in Seq(S), NEW a \in S, NEW b \in S, NEW c \in S, NEW e \in S
  PROVE  /\ RelativeUnder(FileIn(d, a, b, c), Append(d, a)) = {<<b, c>>}
         /\ RelativeUnder(LaneFileIn(d, a, b, e, c), Append(d, a)) = {<<b, e, c>>}
         /\ RelativeUnder(DeepFileIn(d, a, b, e, c), Append(d, a)) = {<<b, e, c>>}
         /\ RelativeUnder(ModuleFileIn(d, c, e), d) = {<<c, e>>}
  <1>1. /\ <<a>> \o <<b>> = <<a, b>> /\ <<b>> \o <<c>> = <<b, c>> /\ <<b>> \o <<e, c>> = <<b, e, c>>
        /\ <<e>> \o <<c>> = <<e, c>> /\ <<c>> \o <<e>> = <<c, e>>
        /\ <<b>> \in Seq(S) /\ <<c>> \in Seq(S) /\ <<e>> \in Seq(S) /\ <<e, c>> \in Seq(S) /\ <<a, b>> \in Seq(S)
    <2>1. <<a>> \o <<b>> = <<a, b>> /\ <<a, b>> \in Seq(S)
      BY PairPath
    <2>2. <<b>> \o <<c>> = <<b, c>> /\ <<b>> \in Seq(S)
      BY PairPath
    <2>3. <<b>> \o <<e, c>> = <<b, e, c>>
      BY TriplePath
    <2>4. <<e>> \o <<c>> = <<e, c>> /\ <<e, c>> \in Seq(S) /\ <<e>> \in Seq(S)
      BY PairPath
    <2>5. <<c>> \o <<e>> = <<c, e>> /\ <<c>> \in Seq(S)
      BY PairPath
    <2> QED
      BY <2>1, <2>2, <2>3, <2>4, <2>5
  <1> DEFINE base == d \o <<a, b>>
             one == <<b>>
             last == <<c>>
             mid == <<e>>
             two == <<e, c>>
             top == Append(d, a)
  <1>2. base \in Seq(S) /\ base \o last = top \o (one \o last) /\ base \o two = top \o (one \o two)
    <2> DEFINE front == <<a, b>>
               h == <<a>>
    <2>1. h \in Seq(S) /\ one \in Seq(S) /\ last \in Seq(S) /\ two \in Seq(S)
      BY <1>1
    <2>2. front = h \o one
      BY <1>1
    <2>3. top = d \o h /\ top \in Seq(S)
      BY <2>1, AppendIsConcat, AppendProperties
    <2>4. base = d \o front
      OBVIOUS
    <2> HIDE DEF h, one, last, two, front, top, base
    <2>5. d \o (h \o one) = (d \o h) \o one
      BY <2>1, ConcatAssociative, SMTT(30)
    <2>6. base = top \o one
      BY <2>2, <2>3, <2>4, <2>5
    <2>7. base \in Seq(S)
      BY <2>1, <2>3, <2>6, ConcatProperties
    <2>8. (top \o one) \o last = top \o (one \o last)
      BY <2>1, <2>3, ConcatAssociative, SMTT(30)
    <2>9. (top \o one) \o two = top \o (one \o two)
      BY <2>1, <2>3, ConcatAssociative, SMTT(30)
    <2> QED
      BY <2>6, <2>7, <2>8, <2>9
  <1>3. Append(base, c) = base \o last
    <2> HIDE DEF base
    <2> QED
      BY <1>2, AppendIsConcat
  <1>4. Append(base \o mid, c) = base \o two
    <2> HIDE DEF base
    <2>1. base \o mid \in Seq(S)
      BY <1>1, <1>2, ConcatProperties
    <2>2. Append(base \o mid, c) = (base \o mid) \o last
      BY <2>1, AppendIsConcat
    <2>3. (base \o mid) \o last = base \o (mid \o last)
      BY <1>1, <1>2, ConcatAssociative
    <2> QED
      BY <1>1, <2>2, <2>3
  <1>5. Append(d, c) \o mid = d \o (last \o mid)
    <2>1. Append(d, c) = d \o last
      BY AppendIsConcat
    <2>2. (d \o last) \o mid = d \o (last \o mid)
      BY <1>1, ConcatAssociative
    <2> QED
      BY <2>1, <2>2
  <1> HIDE DEF base, top
  <1>6. Append(base, c) = top \o <<b, c>> /\ Append(base \o mid, c) = top \o <<b, e, c>> /\ base \o two = top \o <<b, e, c>>
        /\ Append(d, c) \o mid = d \o <<c, e>>
    BY <1>1, <1>2, <1>3, <1>4, <1>5
  <1>7. <<b, c>> \in Seq(S) /\ <<b, e, c>> \in Seq(S) /\ <<c, e>> \in Seq(S)
    OBVIOUS
  <1>8. Len(<<b, c>>) > 0 /\ Len(<<b, e, c>>) > 0 /\ Len(<<c, e>>) > 0
    OBVIOUS
  <1>9. top \in Seq(S)
    BY AppendProperties DEF top
  <1> DEFINE r2 == <<b, c>>
             r3 == <<b, e, c>>
             rm == <<c, e>>
  <1>10. top \in Seq(S) /\ r2 \in Seq(S) /\ r3 \in Seq(S) /\ rm \in Seq(S) /\ Len(r2) > 0 /\ Len(r3) > 0 /\ Len(rm) > 0
    BY <1>7, <1>8, <1>9
  <1> HIDE DEF r2, r3, rm
  <1>11. RelativeUnder(top \o r2, top) = {r2} /\ RelativeUnder(top \o r3, top) = {r3}
    BY <1>10, UnderBase
  <1>12. RelativeUnder(d \o rm, d) = {rm}
    BY <1>10, UnderBase
  <1>13. /\ FileIn(d, a, b, c) = top \o r2 /\ LaneFileIn(d, a, b, e, c) = top \o r3
         /\ DeepFileIn(d, a, b, e, c) = top \o r3 /\ ModuleFileIn(d, c, e) = d \o rm
    BY <1>6 DEF FileIn, LaneFileIn, DeepFileIn, ModuleFileIn, base, mid, two, r2, r3, rm
  <1> QED
    BY <1>11, <1>12, <1>13 DEF top, r2, r3, rm

\* Each type has a name for each of its files.
FilesNamed(types) ==
    \A t \in types, s \in ConfigSuffixes \cup ImportSuffixes :
        \E n \in DOMAIN FileNames : FileNames[n] = [resource |-> t, suffix |-> s]

LEMMA FileOfNames ==
  ASSUME NEW types, FilesNamed(types),
         NEW t \in types, NEW s \in ConfigSuffixes \cup ImportSuffixes
  PROVE  FileOf(t, s) \in DOMAIN FileNames
         /\ FileNames[FileOf(t, s)].resource = t /\ FileNames[FileOf(t, s)].suffix = s
  <1> DEFINE f == [resource |-> t, suffix |-> s]
  <1>1. \E n \in DOMAIN FileNames : FileNames[n] = f
    BY DEF FilesNamed
  <1>2. FileOf(t, s) = CHOOSE n \in DOMAIN FileNames : FileNames[n] = f
    BY DEF FileOf
  <1>3. f.resource = t /\ f.suffix = s
    OBVIOUS
  <1> HIDE DEF f
  <1> QED
    BY <1>1, <1>2, <1>3

LEMMA FileIsMatched ==
  ASSUME NEW types, FilesNamed(types), NEW t \in types,
         NEW suffixes \in SUBSET (ConfigSuffixes \cup ImportSuffixes), NEW s \in suffixes
  PROVE  ResourceFromArtifact(FileOf(t, s), suffixes, types) = {t}
  BY FileOfNames DEF ResourceFromArtifact

\* What is below the workspace's directory of that name.
\* The topology of every root: one for each type that can have state.
LEMMA TopologyIs ==
  ASSUME NEW pack, NEW dep, ~ HasFailed(RootTopologyFromIndex(pack, dep, {}))
  PROVE  LET topology == RootTopologyFromIndex(pack, dep, {})
             stateful == Generated(pack) \cup DataReferents(pack)
         IN  /\ DOMAIN topology.members = stateful
             /\ \A l \in stateful : topology.members[l] = {l} /\ RootOf(topology, l) = l
             /\ UNION {topology.members[l] : l \in DOMAIN topology.members} = stateful
  <1> DEFINE topology == RootTopologyFromIndex(pack, dep, {})
             stateful == Generated(pack) \cup DataReferents(pack)
             members == [label \in stateful |-> {label}]
             roots == ResolveRoots(pack, dep)
             targets == ExpandRootTargets(pack, {})
             chosen == {m \in DOMAIN roots.members : TRUE \/ roots.members[m] \cap targets.types # {}}
  <1>1. topology = IF HasFailed(roots) THEN roots ELSE IF HasFailed(targets) THEN targets
                   ELSE [members |-> [l \in chosen |-> roots.members[l]]]
    BY DEF RootTopologyFromIndex, SelectedRoots
  <1>2. HasFailed(roots) \/ roots = [members |-> members]
    <2>1. roots = Failed("undeclared provider") \/ roots = [members |-> members]
      BY DEF ResolveRoots
    <2> HIDE DEF roots, members
    <2>2. ASSUME roots = Failed("undeclared provider") PROVE HasFailed(roots)
      BY <2>2 DEF Failed, HasFailed
    <2> QED
      BY <2>1, <2>2
  <1> HIDE DEF topology, roots, targets, chosen, stateful
  <1>3. ~ HasFailed(roots) /\ topology = [members |-> [l \in chosen |-> roots.members[l]]]
    BY <1>1 DEF topology
  <1>4. roots.members = members /\ chosen = stateful
    BY <1>2, <1>3 DEF chosen
  <1>5. topology.members = members
    BY <1>3, <1>4
  <1>6. ASSUME NEW l \in stateful PROVE RootOf(topology, l) = l
    BY <1>5, <1>6 DEF RootOf
  <1>7. UNION {topology.members[l] : l \in DOMAIN topology.members} = stateful
    BY <1>5
  <1> QED
    BY <1>5, <1>6, <1>7 DEF topology, stateful

\* What a path that concerns a type makes of the scope.
LEMMA ScopeNamesRoot ==
  ASSUME NEW pack, NEW dep, NEW deploymentPath, NEW path, ~ HasFailed(RootTopologyFromIndex(pack, dep, {})),
         NEW t \in ScopeOnePath(pack, dep, deploymentPath, path)
  PROVE  LET scope == ChangedPathScope(pack, dep, deploymentPath, {path})
         IN  RootOf(RootTopologyFromIndex(pack, dep, {}), t) \in DOMAIN scope.roots /\ scope.unmatched = {}
  BY DEF ChangedPathScope

\* The names that the segments of a workspace's paths are made of.
Segments(S, dep, tenant, types) ==
    /\ {"config", "imports", "envs", "modules", "default", "data", "lookups", "main.tf", tenant} \subseteq S
    /\ types \subseteq S /\ DOMAIN FileNames \subseteq S
    /\ dep.overlay \in Seq(S) /\ (dep.moduleDir = Null \/ dep.moduleDir \in Seq(S))

\* The files of a type are matched to it, each in its own way.
LEMMA ConfigIsMatched ==
  ASSUME NEW S, NEW dep, NEW tenant, NEW types, Segments(S, dep, tenant, types), FilesNamed(types),
         NEW t \in types, NEW s \in ConfigSuffixes
  PROVE  /\ t \in ConfigMatch(dep, Append(ConfigDir(dep, tenant), FileOf(t, s)), types)
         /\ t \in ConfigMatch(dep, Append(ConfigDir(dep, tenant) \o <<"data">>, FileOf(t, s)), types)
         /\ t \in ConfigMatch(dep, ConfigDir(dep, tenant) \o <<"lookups", FileOf(t, s)>>, types)
  <1> DEFINE n == FileOf(t, s)
             d == dep.overlay
             found == ResourceFromArtifact(n, ConfigSuffixes, types)
  <1>1. n \in S /\ found = {t}
    BY FileOfNames, FileIsMatched DEF Segments
  <1>2. d \in Seq(S) /\ "config" \in S /\ tenant \in S /\ "data" \in S /\ "lookups" \in S
    BY DEF Segments
  <1> HIDE DEF n, d
  <1>3. RelativeUnder(FileIn(d, "config", tenant, n), Append(d, "config")) = {<<tenant, n>>}
    BY <1>1, <1>2, UnderOverlay
  <1>4. RelativeUnder(LaneFileIn(d, "config", tenant, "data", n), Append(d, "config")) = {<<tenant, "data", n>>}
    BY <1>1, <1>2, UnderOverlay
  <1>5. RelativeUnder(DeepFileIn(d, "config", tenant, "lookups", n), Append(d, "config")) = {<<tenant, "lookups", n>>}
    BY <1>1, <1>2, UnderOverlay
  <1> DEFINE match(r) == IF Len(r) = 2 THEN ResourceFromArtifact(r[2], ConfigSuffixes, types)
                         ELSE IF Len(r) = 3 /\ r[2] \in {"data", "lookups"}
                         THEN ResourceFromArtifact(r[3], ConfigSuffixes, types) ELSE {}
  <1>6. match(<<tenant, n>>) = {t} /\ match(<<tenant, "data", n>>) = {t} /\ match(<<tenant, "lookups", n>>) = {t}
    BY <1>1
  <1>7. \A p : ConfigMatch(dep, p, types) = UNION {match(r) : r \in RelativeUnder(p, Append(d, "config"))}
    BY DEF ConfigMatch, d
  <1> HIDE DEF match
  <1> DEFINE plain == <<tenant, n>>
             data == <<tenant, "data", n>>
             lookup == <<tenant, "lookups", n>>
  <1>8. match(plain) = {t} /\ match(data) = {t} /\ match(lookup) = {t}
    BY <1>6
  <1>9. /\ RelativeUnder(FileIn(d, "config", tenant, n), Append(d, "config")) = {plain}
        /\ RelativeUnder(LaneFileIn(d, "config", tenant, "data", n), Append(d, "config")) = {data}
        /\ RelativeUnder(DeepFileIn(d, "config", tenant, "lookups", n), Append(d, "config")) = {lookup}
    BY <1>3, <1>4, <1>5
  <1>10. ASSUME NEW p, NEW r, RelativeUnder(p, Append(d, "config")) = {r}, match(r) = {t}
        PROVE  t \in ConfigMatch(dep, p, types)
    <2>1. {match(q) : q \in RelativeUnder(p, Append(d, "config"))} = {match(r)}
      BY <1>10
    <2> QED
      BY <1>7, <1>10, <2>1
  <1> HIDE DEF plain, data, lookup
  <1>11. t \in ConfigMatch(dep, FileIn(d, "config", tenant, n), types)
    BY <1>8, <1>9, <1>10
  <1>12. t \in ConfigMatch(dep, LaneFileIn(d, "config", tenant, "data", n), types)
    BY <1>8, <1>9, <1>10
  <1>13. t \in ConfigMatch(dep, DeepFileIn(d, "config", tenant, "lookups", n), types)
    BY <1>8, <1>9, <1>10
  <1> QED
    BY <1>11, <1>12, <1>13 DEF FileIn, LaneFileIn, DeepFileIn, ConfigDir, n, d

LEMMA ImportsAreMatched ==
  ASSUME NEW S, NEW dep, NEW tenant, NEW types, Segments(S, dep, tenant, types), FilesNamed(types),
         NEW t \in types, NEW s \in ImportSuffixes
  PROVE  t \in ImportsMatch(dep, Append(ImportsDir(dep, tenant), FileOf(t, s)), types)
  <1> DEFINE n == FileOf(t, s)
             d == dep.overlay
             match(r) == IF Len(r) = 2 THEN ResourceFromArtifact(r[2], ImportSuffixes, types) ELSE {}
  <1>1. n \in S /\ ResourceFromArtifact(n, ImportSuffixes, types) = {t}
    BY FileOfNames, FileIsMatched DEF Segments
  <1>2. d \in Seq(S) /\ "imports" \in S /\ tenant \in S
    BY DEF Segments
  <1> HIDE DEF n, d
  <1>3. RelativeUnder(FileIn(d, "imports", tenant, n), Append(d, "imports")) = {<<tenant, n>>}
    BY <1>1, <1>2, UnderOverlay
  <1>4. match(<<tenant, n>>) = {t}
    BY <1>1
  <1>5. \A p : ImportsMatch(dep, p, types) = UNION {match(r) : r \in RelativeUnder(p, Append(d, "imports"))}
    BY DEF ImportsMatch, d
  <1> HIDE DEF match
  <1>6. t \in ImportsMatch(dep, FileIn(d, "imports", tenant, n), types)
    BY <1>3, <1>4, <1>5
  <1> QED
    BY <1>6 DEF FileIn, ImportsDir, n, d

LEMMA EnvironmentIsMatched ==
  ASSUME NEW S, NEW dep, NEW tenant, NEW types, Segments(S, dep, tenant, types), NEW t \in types,
         NEW topology, t \in DOMAIN topology.members, topology.members[t] = {t}
  PROVE  t \in EnvsMatch(dep, EnvsDir(dep, tenant) \o <<t, "main.tf">>, topology)
  <1> DEFINE d == dep.overlay
             match(r) == IF Len(r) >= 2 /\ r[2] \in DOMAIN topology.members THEN topology.members[r[2]] ELSE {}
  <1>1. d \in Seq(S) /\ "envs" \in S /\ tenant \in S /\ t \in S /\ "main.tf" \in S
    BY DEF Segments
  <1> HIDE DEF d
  <1>2. RelativeUnder(DeepFileIn(d, "envs", tenant, t, "main.tf"), Append(d, "envs")) = {<<tenant, t, "main.tf">>}
    BY <1>1, UnderOverlay
  <1>3. match(<<tenant, t, "main.tf">>) = {t}
    OBVIOUS
  <1>4. \A p : EnvsMatch(dep, p, topology) = UNION {match(r) : r \in RelativeUnder(p, Append(d, "envs"))}
    BY DEF EnvsMatch, d
  <1> DEFINE rest == <<tenant, t, "main.tf">>
  <1>5. match(rest) = {t} /\ RelativeUnder(DeepFileIn(d, "envs", tenant, t, "main.tf"), Append(d, "envs")) = {rest}
    BY <1>2, <1>3
  <1> HIDE DEF match, rest
  <1>6. t \in EnvsMatch(dep, DeepFileIn(d, "envs", tenant, t, "main.tf"), topology)
    <2> DEFINE p == DeepFileIn(d, "envs", tenant, t, "main.tf")
    <2>1. {match(q) : q \in RelativeUnder(p, Append(d, "envs"))} = {match(rest)}
      BY <1>5
    <2>2. EnvsMatch(dep, p, topology) = UNION {match(rest)}
      BY <1>4, <2>1
    <2> QED
      BY <1>5, <2>2
  <1> QED
    BY <1>6 DEF DeepFileIn, EnvsDir, d

LEMMA ModuleIsMatched ==
  ASSUME NEW S, NEW dep, NEW tenant, NEW types, Segments(S, dep, tenant, types), NEW t \in types
  PROVE  t \in ModuleMatch(dep, Append(ModuleDir(dep), t) \o <<"main.tf">>, types)
  <1> DEFINE d == ModuleDir(dep)
             match(r) == {r[1]} \cap types
  <1>1. d \in Seq(S) /\ t \in S /\ "main.tf" \in S
    <2>1. dep.overlay \in Seq(S) /\ (dep.moduleDir = Null \/ dep.moduleDir \in Seq(S)) /\ "modules" \in S /\ "default" \in S
          /\ t \in S /\ "main.tf" \in S
      BY DEF Segments
    <2>2. <<"modules">> \in Seq(S) /\ <<"modules", "default">> \in Seq(S)
      BY <2>1
    <2>3. dep.overlay \o <<"modules", "default">> \in Seq(S)
      BY <2>1, <2>2, ConcatProperties
    <2> QED
      BY <2>1, <2>2, <2>3 DEF ModuleDir
  <1> HIDE DEF d
  <1>2. RelativeUnder(ModuleFileIn(d, t, "main.tf"), d) = {<<t, "main.tf">>}
    BY <1>1, UnderOverlay
  <1>3. match(<<t, "main.tf">>) = {t}
    OBVIOUS
  <1>4. \A p : ModuleMatch(dep, p, types) = UNION {match(r) : r \in RelativeUnder(p, d)}
    BY DEF ModuleMatch, d
  <1> HIDE DEF match
  <1>5. t \in ModuleMatch(dep, ModuleFileIn(d, t, "main.tf"), types)
    BY <1>2, <1>3, <1>4
  <1> QED
    BY <1>5 DEF ModuleFileIn, d

\* Every file of a type concerns it.
LEMMA FilesAreMatched ==
  ASSUME NEW S, NEW pack, NEW dep, NEW deploymentPath, NEW tenant, NEW dataLane,
         ~ HasFailed(RootTopologyFromIndex(pack, dep, {})), NEW t \in Generated(pack) \cup DataReferents(pack),
         Segments(S, dep, tenant, Generated(pack) \cup DataReferents(pack)),
         FilesNamed(Generated(pack) \cup DataReferents(pack))
  PROVE  LET artifacts == ComputeTransformArtifactPaths(dep, t, tenant, dataLane)
         IN  /\ \A a \in DOMAIN artifacts : t \in ScopeOnePath(pack, dep, deploymentPath, artifacts[a])
             /\ t \in ScopeOnePath(pack, dep, deploymentPath, Append(ModuleDir(dep), t) \o <<"main.tf">>)
             /\ t \in ScopeOnePath(pack, dep, deploymentPath, EnvsDir(dep, tenant) \o <<t, "main.tf">>)
  <1> DEFINE types == Generated(pack) \cup DataReferents(pack)
             topology == RootTopologyFromIndex(pack, dep, {})
             artifacts == ComputeTransformArtifactPaths(dep, t, tenant, dataLane)
             config == ConfigDir(dep, tenant)
  <1>1. /\ UNION {topology.members[l] : l \in DOMAIN topology.members} = types
        /\ t \in DOMAIN topology.members /\ topology.members[t] = {t}
    BY TopologyIs
  <1>2. ASSUME NEW p, \/ t \in ConfigMatch(dep, p, types) \/ t \in ImportsMatch(dep, p, types)
                     \/ t \in EnvsMatch(dep, p, topology) \/ t \in ModuleMatch(dep, p, types)
        PROVE  t \in ScopeOnePath(pack, dep, deploymentPath, p)
    <2>1. ScopeOnePath(pack, dep, deploymentPath, p) =
             (IF p = deploymentPath THEN types ELSE {})
             \cup ConfigMatch(dep, p, types) \cup ImportsMatch(dep, p, types)
             \cup EnvsMatch(dep, p, topology) \cup ModuleMatch(dep, p, types)
      BY <1>1 DEF ScopeOnePath
    <2> HIDE DEF types, topology
    <2> QED
      BY <1>2, <2>1
  <1>3. Segments(S, dep, tenant, types) /\ FilesNamed(types) /\ t \in types
    OBVIOUS
  <1>4. /\ t \in ModuleMatch(dep, Append(ModuleDir(dep), t) \o <<"main.tf">>, types)
        /\ t \in EnvsMatch(dep, EnvsDir(dep, tenant) \o <<t, "main.tf">>, topology)
    <2> HIDE DEF types, topology
    <2> QED
      BY <1>1, <1>3, ModuleIsMatched, EnvironmentIsMatched
  <1>5. ASSUME NEW s \in ConfigSuffixes
        PROVE  /\ t \in ScopeOnePath(pack, dep, deploymentPath, Append(config, FileOf(t, s)))
               /\ t \in ScopeOnePath(pack, dep, deploymentPath, Append(config \o <<"data">>, FileOf(t, s)))
               /\ t \in ScopeOnePath(pack, dep, deploymentPath, config \o <<"lookups", FileOf(t, s)>>)
    <2> HIDE DEF types, topology
    <2>1. /\ t \in ConfigMatch(dep, Append(config, FileOf(t, s)), types)
          /\ t \in ConfigMatch(dep, Append(config \o <<"data">>, FileOf(t, s)), types)
          /\ t \in ConfigMatch(dep, config \o <<"lookups", FileOf(t, s)>>, types)
      BY <1>3, ConfigIsMatched
    <2> QED
      BY <1>2, <2>1
  <1>6. ASSUME NEW s \in ImportSuffixes
        PROVE  t \in ScopeOnePath(pack, dep, deploymentPath, Append(ImportsDir(dep, tenant), FileOf(t, s)))
    <2> HIDE DEF types, topology
    <2>1. t \in ImportsMatch(dep, Append(ImportsDir(dep, tenant), FileOf(t, s)), types)
      BY <1>3, ImportsAreMatched
    <2> QED
      BY <1>2, <2>1
  <1>7. /\ {ConfigExt(dep), StaleExt(dep), ".generated.expressions.json", ".lookup.json"} \subseteq ConfigSuffixes
        /\ {"_imports.tf", "_moves.tf"} \subseteq ImportSuffixes
    BY DEF ConfigExt, StaleExt, ConfigSuffixes, ImportSuffixes
  <1>8. ASSUME NEW a \in DOMAIN artifacts
        PROVE  \/ \E s \in ConfigSuffixes : \/ artifacts[a] = Append(config, FileOf(t, s))
                                             \/ artifacts[a] = Append(config \o <<"data">>, FileOf(t, s))
                                             \/ artifacts[a] = config \o <<"lookups", FileOf(t, s)>>
               \/ \E s \in ImportSuffixes : artifacts[a] = Append(ImportsDir(dep, tenant), FileOf(t, s))
    <2> DEFINE lane == IF dataLane THEN config \o <<"data">> ELSE config
    <2>1. DOMAIN artifacts = {"config", "staleConfig", "legacyConfig", "legacyStaleConfig", "generatedBindings",
                              "imports", "moves", "lookup", "legacyLookup"}
      BY DEF ComputeTransformArtifactPaths
    <2>2. /\ artifacts["config"] = Append(lane, FileOf(t, ConfigExt(dep)))
          /\ artifacts["staleConfig"] = Append(lane, FileOf(t, StaleExt(dep)))
          /\ artifacts["legacyConfig"] = Append(config, FileOf(t, ConfigExt(dep)))
          /\ artifacts["legacyStaleConfig"] = Append(config, FileOf(t, StaleExt(dep)))
          /\ artifacts["generatedBindings"] = Append(config, FileOf(t, ".generated.expressions.json"))
          /\ artifacts["imports"] = Append(ImportsDir(dep, tenant), FileOf(t, "_imports.tf"))
          /\ artifacts["moves"] = Append(ImportsDir(dep, tenant), FileOf(t, "_moves.tf"))
          /\ artifacts["lookup"] = config \o <<"lookups", FileOf(t, ".lookup.json")>>
          /\ artifacts["legacyLookup"] = Append(config, FileOf(t, ".lookup.json"))
      BY DEF ComputeTransformArtifactPaths
    <2>3. lane \in {config, config \o <<"data">>}
      OBVIOUS
    <2> HIDE DEF artifacts, config, lane
    <2>4. CASE a \in {"config", "staleConfig"}
      BY <1>7, <2>2, <2>3, <2>4
    <2>5. CASE a \in {"legacyConfig", "legacyStaleConfig", "generatedBindings", "lookup", "legacyLookup"}
      BY <1>7, <2>2, <2>5
    <2>6. CASE a \in {"imports", "moves"}
      BY <1>7, <2>2, <2>6
    <2> QED
      BY <2>1, <2>4, <2>5, <2>6
  <1>9. ASSUME NEW a \in DOMAIN artifacts PROVE t \in ScopeOnePath(pack, dep, deploymentPath, artifacts[a])
    <2> HIDE DEF artifacts, config
    <2> QED
      BY <1>5, <1>6, <1>8
  <1> HIDE DEF types, topology
  <1> QED
    BY <1>2, <1>4, <1>9

\* A changed file of a type names the root of the type, and every type comes after what it
\* refers to (scopeOnePath, computeTransformArtifactPaths, referenceOrder).
THEOREM ScopeAlwaysCoversFiles ==
  ASSUME NEW S, NEW pack, NEW dep, NEW deploymentPath, NEW tenant,
         Segments(S, dep, tenant, Generated(pack) \cup DataReferents(pack)),
         FilesNamed(Generated(pack) \cup DataReferents(pack)),
         NEW selected \in SUBSET Range(NameOrder), IsFiniteSet(selected)
  PROVE  ScopeCoversFiles(pack, dep, deploymentPath, tenant, selected)
  <1> DEFINE topology == RootTopologyFromIndex(pack, dep, {})
             types == UNION {topology.members[l] : l \in DOMAIN topology.members}
             artifacts(t) == ComputeTransformArtifactPaths(dep, t, tenant, pack.resources[t].dataReferent)
             files(t) == {artifacts(t)[a] : a \in DOMAIN artifacts(t)}
                         \cup {Append(ModuleDir(dep), t) \o <<"main.tf">>,
                               EnvsDir(dep, tenant) \o <<RootOf(topology, t), "main.tf">>}
  <1>1. ASSUME ~ HasFailed(topology), NEW t \in types, NEW p \in files(t)
        PROVE  LET scope == ChangedPathScope(pack, dep, deploymentPath, {p})
               IN  RootOf(topology, t) \in DOMAIN scope.roots /\ scope.unmatched = {}
    <2>1. t \in Generated(pack) \cup DataReferents(pack) /\ RootOf(topology, t) = t
      BY <1>1, TopologyIs
    <2>2. /\ \A a \in DOMAIN artifacts(t) : t \in ScopeOnePath(pack, dep, deploymentPath, artifacts(t)[a])
          /\ t \in ScopeOnePath(pack, dep, deploymentPath, Append(ModuleDir(dep), t) \o <<"main.tf">>)
          /\ t \in ScopeOnePath(pack, dep, deploymentPath, EnvsDir(dep, tenant) \o <<t, "main.tf">>)
      BY <1>1, <2>1, FilesAreMatched
    <2>3. t \in ScopeOnePath(pack, dep, deploymentPath, p)
      <3> HIDE DEF artifacts, topology
      <3> QED
        BY <2>1, <2>2
    <2> QED
      BY <1>1, <2>3, ScopeNamesRoot
  <1>2. ASSUME ~ HasFailed(ReferenceOrder(pack, selected))
        PROVE  LET order == ReferenceOrder(pack, selected).order
               IN  /\ Range(order) = selected /\ Len(order) = Cardinality(selected)
                   /\ \A i, j \in DOMAIN order : order[j] \in Referents(pack, order[i], selected) => j < i
    BY <1>2, OrderIsSound
  <1> QED
    BY <1>1, <1>2 DEF ScopeCoversFiles

\* What the instance chooses from.
LEMMA TopologyInputs ==
  ASSUME doc \in TopologyTopic
  PROVE  /\ \E references, data : doc.pack = PackOf(references, data)
         /\ doc.deployment.overlay \in {<<>>, <<"o">>}
         /\ doc.deployment.moduleDir \in {Null, <<"m">>, <<"o", "envs">>}
         /\ doc.selected \subseteq AllSelected
  <1>1. {"a", "b"} \subseteq AllSelected
    BY DEF AllSelected, MCTypes, Range
  <1>2. \A d \in DeploymentsOf \cup {DeploymentOf(<<"o">>, Null, FALSE, TRUE)} :
           d.overlay \in {<<>>, <<"o">>} /\ d.moduleDir \in {Null, <<"m">>, <<"o", "envs">>}
    <2>1. \A d \in DeploymentsOf : d.overlay \in {<<>>, <<"o">>} /\ d.moduleDir \in {Null, <<"m">>, <<"o", "envs">>}
      BY DEF DeploymentsOf
    <2>2. DeploymentOf(<<"o">>, Null, FALSE, TRUE).overlay = <<"o">> /\ DeploymentOf(<<"o">>, Null, FALSE, TRUE).moduleDir = Null
      BY DEF DeploymentOf
    <2> QED
      BY <2>1, <2>2
  <1>3. \A p \in PacksOf \cup {PackOf(Refers("b" :> "a"), {"d"})} : \E references, data : p = PackOf(references, data)
    BY DEF PacksOf
  <1>4. /\ doc.pack \in PacksOf \cup {PackOf(Refers("b" :> "a"), {"d"})}
        /\ doc.deployment \in DeploymentsOf \cup {DeploymentOf(<<"o">>, Null, FALSE, TRUE)}
        /\ doc.selected \in {AllSelected, {"a", "b"}}
    BY DEF TopologyTopic
  <1>5. \E references, data : doc.pack = PackOf(references, data)
    BY <1>3, <1>4
  <1>6. doc.selected \subseteq AllSelected
    BY <1>1, <1>4
  <1> QED
    BY <1>2, <1>4, <1>5, <1>6

\* The packs and deployments of the instance (scopeOnePath, referenceOrder).
THEOREM ScopesHereCoverFiles ==
  [](doc.topic = "topology" => doc \in TopologyTopic) => []ScopeCoversFilesHere
  <1> DEFINE types == Generated(doc.pack) \cup DataReferents(doc.pack)
             S == AllSelected \cup DOMAIN FileNames
                  \cup {"config", "imports", "envs", "modules", "default", "data", "lookups", "main.tf", "t", "o", "m"}
  <1>1. ASSUME doc \in TopologyTopic PROVE types \subseteq AllSelected
    <2>1. PICK references, data : doc.pack = PackOf(references, data)
      BY <1>1, TopologyInputs
    <2>2. DOMAIN doc.pack.resources = AllSelected
      BY <2>1 DEF PackOf, AllSelected
    <2> QED
      BY <2>2 DEF Generated, DataReferents, Types
  <1>2. ASSUME doc \in TopologyTopic PROVE Segments(S, doc.deployment, "t", types)
    <2> DEFINE o == doc.deployment.overlay
               m == doc.deployment.moduleDir
    <2>1. o \in {<<>>, <<"o">>} /\ m \in {Null, <<"m">>, <<"o", "envs">>}
      BY <1>2, TopologyInputs
    <2>2. "o" \in S /\ "m" \in S /\ "envs" \in S /\ AllSelected \subseteq S /\ DOMAIN FileNames \subseteq S
          /\ {"config", "imports", "envs", "modules", "default", "data", "lookups", "main.tf", "t"} \subseteq S
      OBVIOUS
    <2> HIDE DEF S, types
    <2>3. <<"o">> \in Seq(S) /\ <<"m">> \in Seq(S) /\ <<"o", "envs">> \in Seq(S) /\ <<>> \in Seq(S)
      BY <2>2
    <2>4. o \in Seq(S) /\ (m = Null \/ m \in Seq(S))
      BY <2>1, <2>3
    <2>5. types \subseteq S
      BY <1>1, <1>2, <2>2
    <2> QED
      BY <2>2, <2>4, <2>5 DEF Segments
  <1>3. IsFiniteSet(AllSelected)
    <2>1. AllSelected = {"a"} \cup ({"b"} \cup {"d"})
      BY DEF AllSelected, MCTypes, Range
    <2> QED
      BY <2>1, FS_Singleton, FS_Union
  <1>4. ASSUME doc \in TopologyTopic
        PROVE  ScopeCoversFiles(doc.pack, doc.deployment, <<"deployment.json">>, "t", doc.selected)
    <2>1. FilesNamed(types)
      BY <1>1, <1>4, TypesAssumption DEF FilesNamed
    <2>2. doc.selected \subseteq AllSelected /\ doc.selected \in SUBSET Range(NameOrder) /\ IsFiniteSet(doc.selected)
      BY <1>3, <1>4, TopologyInputs, TypesAssumption, FS_Subset
    <2>3. Segments(S, doc.deployment, "t", types)
      BY <1>2, <1>4
    <2> HIDE DEF S
    <2> QED
      BY <2>1, <2>2, <2>3, ScopeAlwaysCoversFiles
  <1>5. (doc.topic = "topology" => doc \in TopologyTopic) => ScopeCoversFilesHere
    BY <1>4 DEF ScopeCoversFilesHere
  <1> QED
    BY <1>5, PTL

-----------------------------------------------------------------------------
(* What is collected: sequences of pages, one after the other. *)

\* How FlattenSeq goes over s.
Flattens(f, s, n) == f = [i \in 1..n |-> IF i = 1 THEN s[i] ELSE f[i - 1] \o s[i]]

LEMMA FlattensExists ==
  ASSUME NEW s, NEW n \in Nat
  PROVE  \E f : Flattens(f, s, n)
  <1> DEFINE T == {m \in Nat : \E f : Flattens(f, s, m)}
  <1>1. 0 \in T
    <2>1. Flattens([i \in 1..0 |-> s], s, 0)
      BY DEF Flattens
    <2> QED
      BY <2>1
  <1>2. ASSUME NEW m \in T PROVE m + 1 \in T
    <2>1. m \in Nat /\ m + 1 \in Nat
      OBVIOUS
    <2>2. PICK f : Flattens(f, s, m)
      OBVIOUS
    <2> DEFINE g == [i \in 1..(m + 1) |-> IF i = 1 THEN s[i] ELSE f[i - 1] \o s[i]]
    <2>3. ASSUME NEW i \in 1..(m + 1), i # 1 PROVE f[i - 1] = g[i - 1]
      <3>1. i - 1 \in 1..m /\ i - 1 \in 1..(m + 1)
        BY <2>1, <2>3
      <3>2. f[i - 1] = IF i - 1 = 1 THEN s[i - 1] ELSE f[(i - 1) - 1] \o s[i - 1]
        BY <2>2, <3>1 DEF Flattens
      <3> QED
        BY <3>1, <3>2
    <2>4. g = [i \in 1..(m + 1) |-> IF i = 1 THEN s[i] ELSE g[i - 1] \o s[i]]
      <3> DEFINE h == [i \in 1..(m + 1) |-> IF i = 1 THEN s[i] ELSE g[i - 1] \o s[i]]
      <3>1. \A i \in 1..(m + 1) : g[i] = h[i]
        BY <2>3
      <3>2. DOMAIN g = 1..(m + 1) /\ DOMAIN h = 1..(m + 1) /\ g = [i \in DOMAIN g |-> g[i]] /\ h = [i \in DOMAIN h |-> h[i]]
        OBVIOUS
      <3> HIDE DEF g, h
      <3>3. g = h
        BY <3>1, <3>2
      <3> QED
        BY <3>3 DEF h
    <2>5. Flattens(g, s, m + 1)
      <3> HIDE DEF g
      <3> QED
        BY <2>4 DEF Flattens
    <2> HIDE DEF g
    <2> QED
      BY <2>1, <2>5
  <1> HIDE DEF T
  <1>3. T \in SUBSET Nat
    BY DEF T
  <1>4. T = Nat
    BY <1>1, <1>2, <1>3, EveryNumber
  <1> QED
    BY <1>4 DEF T

LEMMA FlattenIs ==
  ASSUME NEW V, NEW n \in Nat, NEW s \in [1..n -> Seq(V)]
  PROVE  /\ n = 0 => FlattenSeq(s) = <<>>
         /\ n # 0 => \E f : Flattens(f, s, n) /\ FlattenSeq(s) = f[n]
  <1>1. s \in Seq(Seq(V)) /\ Len(s) = n
    OBVIOUS
  <1>2. CASE n = 0
    <2>1. s = <<>>
      BY <1>1, <1>2, EmptySeq
    <2> QED
      BY <1>1, <1>2, <2>1 DEF FlattenSeq
  <1>3. CASE n # 0
    <2> DEFINE F == CHOOSE f : f = [i \in 1..n |-> IF i = 1 THEN s[i] ELSE f[i - 1] \o s[i]]
    <2>1. \E f : f = [i \in 1..n |-> IF i = 1 THEN s[i] ELSE f[i - 1] \o s[i]]
      BY FlattensExists DEF Flattens
    <2>2. F = [i \in 1..n |-> IF i = 1 THEN s[i] ELSE F[i - 1] \o s[i]]
      BY <2>1
    <2>3. FlattenSeq(s) = F[n]
      BY <1>1, <1>3 DEF FlattenSeq
    <2> HIDE DEF F
    <2> QED
      BY <1>3, <2>2, <2>3 DEF Flattens
  <1> QED
    BY <1>2, <1>3

\* A sequence of sequences, and one more.
LEMMA FlattenGrows ==
  ASSUME NEW V, NEW n \in Nat, NEW s \in [1..(n + 1) -> Seq(V)],
         FlattenSeq([k \in 1..n |-> s[k]]) \in Seq(V)
  PROVE  /\ FlattenSeq(s) = FlattenSeq([k \in 1..n |-> s[k]]) \o s[n + 1]
         /\ FlattenSeq(s) \in Seq(V)
  <1> DEFINE t == [k \in 1..n |-> s[k]]
  <1>1. t \in [1..n -> Seq(V)] /\ n + 1 \in Nat /\ n + 1 # 0 /\ s[n + 1] \in Seq(V)
    OBVIOUS
  <1>2. PICK f : Flattens(f, s, n + 1) /\ FlattenSeq(s) = f[n + 1]
    BY <1>1, FlattenIs
  <1>3. CASE n = 0
    <2>1. f[1] = s[1]
      BY <1>2, <1>3 DEF Flattens
    <2>2. FlattenSeq(t) = <<>>
      BY <1>1, <1>3, FlattenIs
    <2> HIDE DEF t
    <2> QED
      BY <1>1, <1>2, <1>3, <2>1, <2>2 DEF t
  <1>4. CASE n # 0
    <2>1. PICK g : Flattens(g, t, n) /\ FlattenSeq(t) = g[n]
      BY <1>1, <1>4, FlattenIs
    <2>2. \A i \in 1..n : t[i] = s[i]
      OBVIOUS
    <2> HIDE DEF t
    <2> DEFINE T == {i \in Nat : i \in 1..n => g[i] = f[i]}
    <2>3. g[n] = f[n]
      <3>1. 0 \in T
        OBVIOUS
      <3>2. ASSUME NEW i \in T PROVE i + 1 \in T
        <4>1. SUFFICES ASSUME i + 1 \in 1..n PROVE g[i + 1] = f[i + 1]
          OBVIOUS
        <4>2. i \in Nat /\ i + 1 \in 1..(n + 1) /\ (i + 1) - 1 = i
          BY <4>1
        <4>3. /\ g[i + 1] = IF i + 1 = 1 THEN t[i + 1] ELSE g[i] \o t[i + 1]
              /\ f[i + 1] = IF i + 1 = 1 THEN s[i + 1] ELSE f[i] \o s[i + 1]
          BY <1>2, <2>1, <4>1, <4>2 DEF Flattens
        <4>4. i + 1 # 1 => i \in 1..n
          BY <4>1, <4>2
        <4> QED
          BY <2>2, <4>1, <4>3, <4>4
      <3> HIDE DEF T
      <3>3. T \in SUBSET Nat
        BY DEF T
      <3>4. n \in T
        BY <3>1, <3>2, <3>3, EveryNumber
      <3>5. n \in 1..n
        BY <1>4
      <3> QED
        BY <3>4, <3>5 DEF T
    <2>4. f[n + 1] = f[n] \o s[n + 1]
      <3>1. n + 1 \in 1..(n + 1) /\ n + 1 # 1 /\ (n + 1) - 1 = n
        BY <1>4
      <3> QED
        BY <1>2, <3>1 DEF Flattens
    <2>5. FlattenSeq(s) = FlattenSeq(t) \o s[n + 1]
      BY <1>2, <2>1, <2>3, <2>4
    <2>6. FlattenSeq(t) \in Seq(V)
      BY DEF t
    <2>7. FlattenSeq(t) \o s[n + 1] \in Seq(V)
      BY <1>1, <2>6, ConcatProperties
    <2> QED
      BY <2>5, <2>7 DEF t
  <1> QED
    BY <1>3, <1>4

LEMMA FlattenIsTyped ==
  ASSUME NEW V, NEW n \in Nat, NEW s \in [1..n -> Seq(V)]
  PROVE  FlattenSeq(s) \in Seq(V)
  <1> DEFINE part(m) == [k \in 1..m |-> s[k]]
             T == {m \in Nat : m <= n => FlattenSeq(part(m)) \in Seq(V)}
  <1>1. 0 \in T
    <2>1. part(0) \in [1..0 -> Seq(V)] /\ <<>> \in Seq(V)
      OBVIOUS
    <2> QED
      BY <2>1, FlattenIs
  <1>2. ASSUME NEW m \in T PROVE m + 1 \in T
    <2>1. SUFFICES ASSUME m + 1 <= n PROVE FlattenSeq(part(m + 1)) \in Seq(V)
      OBVIOUS
    <2>2. m \in Nat /\ m <= n /\ FlattenSeq(part(m)) \in Seq(V)
      BY <2>1
    <2>3. part(m + 1) \in [1..(m + 1) -> Seq(V)]
      BY <2>1, <2>2
    <2>4. [k \in 1..m |-> part(m + 1)[k]] = part(m)
      BY <2>2
    <2> HIDE DEF part
    <2> QED
      BY <2>2, <2>3, <2>4, FlattenGrows
  <1> HIDE DEF T
  <1>3. T \in SUBSET Nat
    BY DEF T
  <1>4. n \in T
    BY <1>1, <1>2, <1>3, EveryNumber
  <1>5. part(n) = s
    OBVIOUS
  <1> HIDE DEF part
  <1> QED
    BY <1>4, <1>5 DEF T

LEMMA FlattenSteps ==
  ASSUME NEW V, NEW n \in Nat, NEW s \in [1..(n + 1) -> Seq(V)]
  PROVE  FlattenSeq(s) = FlattenSeq([k \in 1..n |-> s[k]]) \o s[n + 1]
  <1> DEFINE t == [k \in 1..n |-> s[k]]
  <1>1. t \in [1..n -> Seq(V)]
    OBVIOUS
  <1> HIDE DEF t
  <1>2. FlattenSeq(t) \in Seq(V)
    BY <1>1, FlattenIsTyped
  <1> QED
    BY <1>2, FlattenGrows DEF t

(* Pages *)

LEMMA PageIs ==
  ASSUME NEW V, NEW items \in Seq(V), NEW size \in Nat \ {0}, NEW k \in Nat \ {0}
  PROVE  /\ PageOf(items, size, k) \in Seq(V)
         /\ Len(PageOf(items, size, k)) <= size
         /\ k * size <= Len(items) => Len(PageOf(items, size, k)) = size
         /\ (k - 1) * size < Len(items) => PageOf(items, size, k) # <<>>
  <1> DEFINE to == k * size
             from == (k - 1) * size
  <1>1. to \in Nat /\ from \in Nat /\ to = from + size
    OBVIOUS
  <1>2. Len(items) \in Nat
    OBVIOUS
  <1> HIDE DEF to, from
  <1> DEFINE upto == IF to < Len(items) THEN to ELSE Len(items)
             page == SubSeq(items, from + 1, upto)
  <1>3. PageOf(items, size, k) = page
    BY DEF PageOf, to, from
  <1>4. upto \in Nat /\ upto <= Len(items) /\ upto <= to
    BY <1>1, <1>2
  <1>5. upto = to \/ (upto = Len(items) /\ Len(items) <= to)
    BY <1>1, <1>2
  <1> HIDE DEF upto
  <1>6. \A i \in (from + 1)..upto : items[i] \in V
    <2>1. \A i \in (from + 1)..upto : i \in 1..Len(items)
      BY <1>1, <1>2, <1>4
    <2> QED
      BY <2>1, ElementOfSeq
  <1>7. page \in Seq(V) /\ Len(page) = IF from + 1 <= upto THEN upto - from ELSE 0
    <2>1. from + 1 \in Int /\ upto \in Int /\ upto - (from + 1) + 1 = upto - from
      BY <1>1, <1>4
    <2> QED
      BY <1>6, <2>1, SubSeqProperties
  <1> HIDE DEF page
  <1>8. /\ Len(page) <= size
        /\ to <= Len(items) => Len(page) = size
        /\ from < Len(items) => Len(page) # 0
    BY <1>1, <1>2, <1>4, <1>5, <1>7
  <1>9. page # <<>> \/ Len(page) = 0
    OBVIOUS
  <1> QED
    BY <1>3, <1>7, <1>8, <1>9 DEF to, from

\* The first pages, one after the other.
Pages(items, size, n) == [k \in 1..n |-> PageOf(items, size, k)]

LEMMA PagesAre ==
  ASSUME NEW V, NEW items \in Seq(V), NEW size \in Nat \ {0}, NEW n \in Nat
  PROVE  FlattenSeq(Pages(items, size, n)) =
            SubSeq(items, 1, IF n * size < Len(items) THEN n * size ELSE Len(items))
  <1> DEFINE Cut(m) == IF m * size < Len(items) THEN m * size ELSE Len(items)
             T == {m \in Nat : FlattenSeq(Pages(items, size, m)) = SubSeq(items, 1, Cut(m))}
  <1>1. \A m \in Nat : Pages(items, size, m) \in [1..m -> Seq(V)]
    <2> SUFFICES ASSUME NEW m \in Nat PROVE Pages(items, size, m) \in [1..m -> Seq(V)]
      OBVIOUS
    <2>1. \A k \in 1..m : PageOf(items, size, k) \in Seq(V)
      BY PageIs
    <2> QED
      BY <2>1 DEF Pages
  <1>2. 0 \in T
    <2>1. Cut(0) = 0
      BY LenProperties
    <2>2. SubSeq(items, 1, 0) = <<>>
      <3>1. \A i \in 1..0 : items[i] \in V
        OBVIOUS
      <3>2. SubSeq(items, 1, 0) \in Seq(V) /\ Len(SubSeq(items, 1, 0)) = 0
        BY <3>1, SubSeqProperties
      <3> QED
        BY <3>2, EmptySeq
    <2>3. FlattenSeq(Pages(items, size, 0)) = <<>>
      BY <1>1, FlattenIs
    <2> QED
      BY <2>1, <2>2, <2>3
  <1>3. ASSUME NEW m \in T PROVE m + 1 \in T
    <2>1. m \in Nat /\ FlattenSeq(Pages(items, size, m)) = SubSeq(items, 1, Cut(m))
      OBVIOUS
    <2>2. Pages(items, size, m + 1) \in [1..(m + 1) -> Seq(V)]
      BY <1>1, <2>1
    <2>3. /\ [k \in 1..m |-> Pages(items, size, m + 1)[k]] = Pages(items, size, m)
          /\ Pages(items, size, m + 1)[m + 1] = PageOf(items, size, m + 1)
      BY <2>1 DEF Pages
    <2>4. FlattenSeq(Pages(items, size, m + 1)) = SubSeq(items, 1, Cut(m)) \o PageOf(items, size, m + 1)
      BY <2>1, <2>2, <2>3, FlattenSteps
    <2> DEFINE a == m * size
               b == (m + 1) * size
               l == Len(items)
    <2>5. a \in Nat /\ b \in Nat /\ l \in Nat /\ b = a + size
      BY <2>1
    <2>6. PageOf(items, size, m + 1) = SubSeq(items, a + 1, Cut(m + 1))
      <3>1. (m + 1) - 1 = m
        BY <2>1
      <3> QED
        BY <3>1 DEF PageOf
    <2>7. SubSeq(items, 1, Cut(m)) \o SubSeq(items, a + 1, Cut(m + 1)) = SubSeq(items, 1, Cut(m + 1))
      <3>1. Cut(m) = (IF a < l THEN a ELSE l) /\ Cut(m + 1) = (IF b < l THEN b ELSE l)
        OBVIOUS
      <3> HIDE DEF a, b, l, Cut
      <3> DEFINE p == Cut(m)
                 q == Cut(m + 1)
      <3>2. p \in Nat /\ q \in Nat /\ p <= q /\ q <= l /\ (p = a \/ (p = l /\ q = l /\ a >= l))
        BY <2>5, <3>1
      <3> HIDE DEF p, q
      <3>3. \A i \in 1..q : items[i] \in V
        BY <3>2, ElementOfSeq DEF l
      <3>4. CASE p = a
        <4>1. 1 \in 1..(Len(items) + 1) /\ p \in (1 - 1)..Len(items) /\ q \in p..Len(items)
          BY <2>5, <3>2 DEF l
        <4>2. SubSeq(items, 1, p) \o SubSeq(items, p + 1, q) = SubSeq(items, 1, q)
          BY <4>1, ConcatAdjacentSubSeq
        <4> QED
          BY <3>4, <4>2 DEF p, q
      <3>5. CASE p = l /\ q = l /\ a >= l
        <4>1. \A i \in (a + 1)..q : items[i] \in V
          BY <2>5, <3>2, <3>3
        <4>2. SubSeq(items, a + 1, q) \in Seq(V) /\ Len(SubSeq(items, a + 1, q)) = 0
          <5>1. a + 1 \in Int /\ q \in Int /\ ~ (a + 1 <= q)
            BY <2>5, <3>2, <3>5
          <5> QED
            BY <4>1, <5>1, SubSeqProperties
        <4>3. SubSeq(items, a + 1, q) = <<>>
          BY <4>2, EmptySeq
        <4>4. SubSeq(items, 1, p) \in Seq(V)
          BY <3>2, <3>3, SubSeqProperties
        <4>5. SubSeq(items, 1, p) \o <<>> = SubSeq(items, 1, p)
          BY <4>4, ConcatEmptySeq
        <4> QED
          BY <3>5, <4>3, <4>5 DEF p, q
      <3> QED
        BY <3>2, <3>4, <3>5
    <2>8. FlattenSeq(Pages(items, size, m + 1)) = SubSeq(items, 1, Cut(m + 1))
      <3> HIDE DEF Cut
      <3> QED
        BY <2>4, <2>6, <2>7
    <2> HIDE DEF Cut
    <2> QED
      BY <2>1, <2>8
  <1>4. n \in T
    <2> HIDE DEF T
    <2>1. T \in SUBSET Nat
      BY DEF T
    <2> QED
      BY <1>2, <1>3, <2>1, EveryNumber
  <1> QED
    BY <1>4

LEMMA PagesJoin ==
  ASSUME NEW V, NEW items \in Seq(V), NEW size \in Nat \ {0}, NEW n \in Nat
  PROVE  /\ n * size >= Len(items) => FlattenSeq(Pages(items, size, n)) = items
         /\ Len(FlattenSeq(Pages(items, size, n))) >= Len(items) => n * size >= Len(items)
  <1> DEFINE whole == n * size
             cut == IF whole < Len(items) THEN whole ELSE Len(items)
  <1>1. whole \in Nat /\ Len(items) \in Nat
    OBVIOUS
  <1>2. FlattenSeq(Pages(items, size, n)) = SubSeq(items, 1, cut)
    BY PagesAre
  <1> HIDE DEF whole
  <1>3. Len(SubSeq(items, 1, cut)) = cut
    <2>1. \A i \in 1..cut : items[i] \in V
      BY <1>1, ElementOfSeq
    <2>2. cut \in Nat /\ (1 <= cut \/ cut = 0)
      BY <1>1
    <2> HIDE DEF cut
    <2> QED
      BY <2>1, <2>2, SubSeqProperties
  <1>4. SubSeq(items, 1, Len(items)) = items
    BY SubSeqFull
  <1>5. (cut = Len(items) /\ whole >= Len(items)) \/ (cut = whole /\ whole < Len(items))
    BY <1>1
  <1>6. whole >= Len(items) => cut = Len(items)
    BY <1>1
  <1> HIDE DEF cut
  <1>7. cut >= Len(items) => whole >= Len(items)
    BY <1>1, <1>5
  <1> QED
    BY <1>2, <1>3, <1>4, <1>6, <1>7 DEF whole

(* Results in turn *)

LEMMA NotFailed ==
  /\ \A why : HasFailed(Failed(why))
  /\ \A v : ~ HasFailed([items |-> v])
  BY DEF HasFailed, Failed

LEMMA MinIsLeast ==
  ASSUME NEW S \in SUBSET Nat, S # {}
  PROVE  Min(S) \in S /\ \A k \in S : Min(S) <= k
  BY LeastOf DEF Min

LEMMA InTurnIs ==
  ASSUME NEW n \in Nat, NEW results, DOMAIN results = 1..n, ~ HasFailed(InTurn(results))
  PROVE  /\ \A k \in 1..n : ~ HasFailed(results[k])
         /\ InTurn(results) = [items |-> FlattenSeq([k \in 1..n |-> results[k].items])]
  <1>1. Refusals(results) \in SUBSET Nat
    BY DEF Refusals
  <1>2. Refusals(results) = {}
    <2> SUFFICES ASSUME Refusals(results) # {} PROVE FALSE
      OBVIOUS
    <2>1. HasFailed(results[Min(Refusals(results))])
      BY <1>1, MinIsLeast DEF Refusals
    <2> QED
      BY <2>1 DEF InTurn
  <1> QED
    BY <1>2 DEF InTurn, Refusals

\* The page that ends a collection, and what it is until then.
EndsAt(results, ends, last) ==
    /\ \A k \in 1..last : ~ HasFailed(results[k])
    /\ UpTo(results, ends) = [items |-> FlattenSeq([k \in 1..last |-> results[k].items])]

LEMMA UpToIs ==
  ASSUME NEW n \in Nat, NEW results, DOMAIN results = 1..n, NEW ends \in SUBSET 1..n,
         ~ HasFailed(UpTo(results, ends))
  PROVE  \E last \in ends : EndsAt(results, ends, last)
  <1> DEFINE stops == Refusals(results) \cup ends
  <1>1. stops # {} /\ stops \in SUBSET Nat
    <2>1. stops \in SUBSET Nat
      <3>1. Refusals(results) \subseteq 1..n /\ 1..n \subseteq Nat
        BY DEF Refusals
      <3> QED
        BY <3>1
    <2>2. stops = {} => UpTo(results, ends) = Failed("max pages")
      BY DEF UpTo
    <2> QED
      BY <2>1, <2>2, NotFailed
  <1> DEFINE last == Min(stops)
             part == [k \in 1..last |-> results[k]]
  <1>2. last \in stops /\ \A k \in stops : last <= k
    BY <1>1, MinIsLeast
  <1>3. UpTo(results, ends) = InTurn(part)
    BY <1>1 DEF UpTo
  <1> HIDE DEF last
  <1>4. last \in 1..n
    BY <1>2 DEF Refusals
  <1>5. /\ \A k \in 1..last : ~ HasFailed(part[k])
        /\ InTurn(part) = [items |-> FlattenSeq([k \in 1..last |-> part[k].items])]
    <2>1. last \in Nat /\ DOMAIN part = 1..last /\ ~ HasFailed(InTurn(part))
      BY <1>3, <1>4
    <2> HIDE DEF part
    <2> QED
      BY <2>1, InTurnIs
  <1>6. last \in ends
    <2>1. last \in 1..last /\ part[last] = results[last]
      BY <1>4
    <2> QED
      BY <1>2, <1>5, <2>1 DEF Refusals
  <1>7. [k \in 1..last |-> part[k].items] = [k \in 1..last |-> results[k].items]
    OBVIOUS
  <1>8. \A k \in 1..last : ~ HasFailed(results[k])
    BY <1>5
  <1> HIDE DEF part, stops
  <1> QED
    BY <1>3, <1>5, <1>6, <1>7, <1>8 DEF EndsAt

(* What a page gives *)

LEMMA AnswerIs ==
  ASSUME NEW entry, NEW held, NEW pages, NEW fault, NEW silent, NEW path, NEW k,
         ~ HasFailed(GetJSON(Answer(SiteOf(entry, held, pages, fault, silent), path, k)))
  PROVE  /\ path \in DOMAIN held /\ k \in 1..pages
         /\ GetJSON(Answer(SiteOf(entry, held, pages, fault, silent), path, k)) =
               [value |-> Served(entry, held[path], pages, fault, silent)[k].payload]
  <1> DEFINE site == SiteOf(entry, held, pages, fault, silent)
             response == Answer(site, path, k)
  <1>1. response.status = 200 /\ GetJSON(response) = [value |-> response.payload]
    BY NotFailed DEF GetJSON
  <1>2. path \in DOMAIN site /\ k \in DOMAIN site[path]
    BY <1>1 DEF Answer
  <1>3. path \in DOMAIN held /\ site[path] = Served(entry, held[path], pages, fault, silent)
    BY <1>2 DEF SiteOf
  <1>4. DOMAIN Served(entry, held[path], pages, fault, silent) = 1..pages
    BY DEF Served
  <1>5. response = Served(entry, held[path], pages, fault, silent)[k]
    BY <1>2, <1>3 DEF Answer
  <1> QED
    BY <1>1, <1>2, <1>3, <1>4, <1>5

\* The number of pages that a server announces.
PagesOf(items) == Min({n \in 1..(Len(items) + 1) : n * ZccPageSize >= Len(items)})

LEMMA ZiaPayload ==
  ASSUME NEW entry, NEW items, NEW pages, NEW fault, NEW silent, NEW k \in 1..pages,
         entry.mergePaths = <<>>, entry.pagination = "zia"
  PROVE  Served(entry, items, pages, fault, silent)[k].payload =
            IF entry.envelope = Null THEN List(PageOf(items, ZiaPageSize, k))
            ELSE Object(Entry1(entry.envelope, List(PageOf(items, ZiaPageSize, k))))
  BY DEF Served

LEMMA ZpaPayload ==
  ASSUME NEW entry, NEW items, NEW pages, NEW fault, NEW silent, NEW k \in 1..pages,
         entry.mergePaths = <<>>, entry.pagination = "zpa"
  PROVE  Served(entry, items, pages, fault, silent)[k].payload =
            Object([list |-> List(PageOf(items, ZccPageSize, k)), totalPages |-> Number(PagesOf(items))])
  BY DEF Served, PagesOf

\* A page of a server that may leave the total out.
ZccBody(page, whole, silent) ==
    IF silent THEN Object([items |-> List(page), count |-> Number(Len(page))])
    ELSE Object([items |-> List(page), count |-> Number(Len(page)), total |-> Number(whole)])

LEMMA ZccPayload ==
  ASSUME NEW entry, NEW items, NEW pages, NEW fault, NEW silent, NEW k \in 1..pages,
         entry.mergePaths = <<>>, entry.pagination = "zcc_v2"
  PROVE  Served(entry, items, pages, fault, silent)[k].payload =
            ZccBody(PageOf(items, ZccPageSize, k), Len(items), silent)
  BY DEF Served, ZccBody

LEMMA SinglePayload ==
  ASSUME NEW entry, NEW items, NEW pages, NEW fault, NEW silent, NEW k \in 1..pages,
         entry.mergePaths = <<>>, entry.pagination = "single"
  PROVE  Served(entry, items, pages, fault, silent)[k].payload =
            List(items)
  BY DEF Served

LEMMA Kinds ==
  /\ \A v : Is(List(v), "list") /\ List(v)[2] = v
  /\ \A v : Is(Object(v), "object") /\ Object(v)[2] = v /\ ~ Is(Object(v), "list")
  /\ \A v : Is(Number(v), "number") /\ Number(v)[2] = v
  BY DEF Is, KindOf, List, Object, Number

LEMMA TruthyLists ==
  /\ \A v : v # <<>> => Truthy(List(v))
  /\ ~ Truthy(List(<<>>)) /\ ~ Truthy(Nil)
  /\ \A n : n # 0 => Truthy(Number(n))
  BY DEF Truthy, List, Nil, Bool, Number, Text, Object

LEMMA ItemsOfList ==
  ASSUME NEW v
  PROVE  Items(List(v)) = [items |-> v]
  BY Kinds DEF Items

LEMMA OptionalListIs ==
  ASSUME NEW object, NEW f \in DOMAIN object, NEW v, object[f] = List(v)
  PROVE  OptionalList(object, f) = [items |-> v]
  <1>1. Member(object, f) = List(v)
    BY DEF Member
  <1>2. CASE v = <<>>
    BY <1>1, <1>2, TruthyLists DEF OptionalList
  <1>3. CASE v # <<>>
    BY <1>1, <1>3, TruthyLists, ItemsOfList DEF OptionalList
  <1> QED
    BY <1>2, <1>3

LEMMA ZiaBatchIs ==
  ASSUME NEW entry, NEW held, NEW pages, NEW fault, NEW silent, NEW path, NEW k,
         entry.mergePaths = <<>>, entry.pagination = "zia",
         ~ HasFailed(ZiaBatch(Answer(SiteOf(entry, held, pages, fault, silent), path, k), entry.envelope))
  PROVE  /\ path \in DOMAIN held
         /\ ZiaBatch(Answer(SiteOf(entry, held, pages, fault, silent), path, k), entry.envelope) =
               [items |-> PageOf(held[path], ZiaPageSize, k)]
  <1> DEFINE response == Answer(SiteOf(entry, held, pages, fault, silent), path, k)
             page == PageOf(held[path], ZiaPageSize, k)
  <1>1. ~ HasFailed(GetJSON(response))
    BY DEF ZiaBatch
  <1>2. /\ path \in DOMAIN held /\ k \in 1..pages
        /\ GetJSON(response) = [value |-> Served(entry, held[path], pages, fault, silent)[k].payload]
    BY <1>1, AnswerIs
  <1> DEFINE value == GetJSON(response).value
  <1>5. value = IF entry.envelope = Null THEN List(page) ELSE Object(Entry1(entry.envelope, List(page)))
    <2> DEFINE payload == Served(entry, held[path], pages, fault, silent)[k].payload
    <2>1. payload = IF entry.envelope = Null THEN List(page) ELSE Object(Entry1(entry.envelope, List(page)))
      BY <1>2, ZiaPayload
    <2>2. value = payload
      BY <1>2
    <2> HIDE DEF payload, value, page
    <2> QED
      BY <2>1, <2>2
  <1>6. ZiaBatch(response, entry.envelope) =
           IF entry.envelope = Null THEN Items(value)
           ELSE IF ~Is(value, "object") \/ entry.envelope \notin DOMAIN value[2]
                THEN Failed("no envelope")
                ELSE Items(value[2][entry.envelope])
    BY <1>1 DEF ZiaBatch
  <1>7. ZiaBatch(response, entry.envelope) = [items |-> page]
    <2> HIDE DEF response, page, value
    <2> DEFINE object == Entry1(entry.envelope, List(page))
    <2>1. entry.envelope \in DOMAIN object /\ object[entry.envelope] = List(page)
      BY DEF Entry1
    <2> HIDE DEF object
    <2>2. CASE entry.envelope = Null
      BY <1>5, <1>6, <2>2, ItemsOfList
    <2>3. CASE entry.envelope # Null
      <3>1. value = Object(object)
        BY <1>5, <2>3 DEF object
      <3>2. Is(value, "object") /\ value[2] = object
        BY <3>1, Kinds
      <3> QED
        BY <1>6, <2>1, <2>3, <3>2, ItemsOfList
    <2> QED
      BY <2>2, <2>3
  <1> QED
    BY <1>2, <1>7

LEMMA PagesOfIs ==
  ASSUME NEW V, NEW items \in Seq(V)
  PROVE  PagesOf(items) \in Nat \ {0} /\ PagesOf(items) * ZccPageSize >= Len(items)
  <1> DEFINE l == Len(items)
             S == {n \in 1..(l + 1) : n * ZccPageSize >= l}
  <1>1. l \in Nat /\ ZccPageSize \in Nat \ {0}
    BY CollectorsAssumption
  <1>2. PagesOf(items) = Min(S)
    BY DEF PagesOf
  <1> HIDE DEF l
  <1>3. (l + 1) * ZccPageSize >= l
    <2>1. (l + 1) * ZccPageSize = l * ZccPageSize + ZccPageSize /\ l * ZccPageSize >= l
      BY <1>1
    <2> QED
      BY <1>1, <2>1
  <1>4. l + 1 \in S /\ S \in SUBSET Nat
    BY <1>1, <1>3
  <1>5. Min(S) \in S
    <2> HIDE DEF S
    <2> QED
      BY <1>4, MinIsLeast
  <1> QED
    BY <1>1, <1>2, <1>5 DEF l

LEMMA ZpaBatchIs ==
  ASSUME NEW V, NEW entry, NEW held, NEW pages, NEW fault, NEW silent, NEW path, NEW k,
         \A p \in DOMAIN held : held[p] \in Seq(V), entry.mergePaths = <<>>, entry.pagination = "zpa",
         ~ HasFailed(ZpaBatch(Answer(SiteOf(entry, held, pages, fault, silent), path, k)))
  PROVE  /\ path \in DOMAIN held
         /\ ZpaBatch(Answer(SiteOf(entry, held, pages, fault, silent), path, k)) =
               [items |-> PageOf(held[path], ZccPageSize, k), total |-> PagesOf(held[path])]
  <1> DEFINE response == Answer(SiteOf(entry, held, pages, fault, silent), path, k)
             page == PageOf(held[path], ZccPageSize, k)
             total == PagesOf(held[path])
             object == [list |-> List(page), totalPages |-> Number(total)]
             value == GetJSON(response).value
  <1>1. ~ HasFailed(GetJSON(response))
    BY DEF ZpaBatch
  <1>2. /\ path \in DOMAIN held /\ k \in 1..pages
        /\ GetJSON(response) = [value |-> Served(entry, held[path], pages, fault, silent)[k].payload]
    BY <1>1, AnswerIs
  <1>3. value = Object(object)
    <2> DEFINE payload == Served(entry, held[path], pages, fault, silent)[k].payload
    <2>1. payload = Object(object)
      BY <1>2, ZpaPayload
    <2>2. value = payload
      BY <1>2
    <2> HIDE DEF payload, value, object
    <2> QED
      BY <2>1, <2>2
  <1>4. total # 0
    BY <1>2, PagesOfIs
  <1>5. ZpaBatch(response) =
           IF ~Is(value, "object") THEN Failed("not an object page")
           ELSE LET batch == OptionalList(value[2], "list")
                    count == IF Truthy(Member(value[2], "totalPages"))
                             THEN CollectorInt(value[2]["totalPages"]) ELSE [int |-> 1]
                IN  IF HasFailed(batch) THEN batch
                    ELSE IF HasFailed(count) THEN count
                    ELSE [items |-> batch.items, total |-> IF count.int = 0 THEN 1 ELSE count.int]
    BY <1>1 DEF ZpaBatch
  <1>6. Is(value, "object") /\ value[2] = object
    BY <1>3, Kinds
  <1>7. OptionalList(object, "list") = [items |-> page]
    <2>1. "list" \in DOMAIN object /\ object["list"] = List(page)
      OBVIOUS
    <2> HIDE DEF object
    <2> QED
      BY <2>1, OptionalListIs
  <1>8. Truthy(Member(object, "totalPages")) /\ object["totalPages"] = Number(total)
    BY <1>4, TruthyLists DEF Member
  <1>9. CollectorInt(Number(total)) = [int |-> total]
    BY DEF CollectorInt, Is, KindOf, Number
  <1>10. ~ HasFailed([items |-> page]) /\ ~ HasFailed([int |-> total])
    BY DEF HasFailed
  <1> HIDE DEF response, page, total, object, value
  <1>11. ZpaBatch(response) = [items |-> page, total |-> total]
    BY <1>4, <1>5, <1>6, <1>7, <1>8, <1>9, <1>10
  <1> QED
    BY <1>2, <1>11 DEF response, page, total

\* What is read from it.
ZccReads(object, page, total) ==
    /\ OptionalList(object, "items") = [items |-> page]
    /\ ZccNumeric(object, "count", 0) = [int |-> Len(page)]
    /\ ZccNumeric(object, "total", 0) = [int |-> total]
    /\ ZccNumeric(object, "limit", ZccPageSize) = [int |-> ZccPageSize]

LEMMA ZccBodyIs ==
  ASSUME NEW page, NEW whole, NEW silent \in BOOLEAN
  PROVE  \E object : \E total \in {0, whole} :
            ZccBody(page, whole, silent) = Object(object) /\ ZccReads(object, page, total)
  <1>1. ASSUME NEW object, "items" \in DOMAIN object, object["items"] = List(page)
        PROVE  OptionalList(object, "items") = [items |-> page]
    BY <1>1, OptionalListIs
  <1>2. CASE silent = TRUE
    <2> DEFINE object == [items |-> List(page), count |-> Number(Len(page))]
    <2>1. ZccBody(page, whole, silent) = Object(object)
      BY <1>2 DEF ZccBody
    <2>2. OptionalList(object, "items") = [items |-> page]
      BY <1>1
    <2>3. /\ ZccNumeric(object, "count", 0) = [int |-> Len(page)]
          /\ ZccNumeric(object, "total", 0) = [int |-> 0]
          /\ ZccNumeric(object, "limit", ZccPageSize) = [int |-> ZccPageSize]
      BY Kinds DEF ZccNumeric
    <2>4. ZccReads(object, page, 0)
      BY <2>2, <2>3 DEF ZccReads
    <2> HIDE DEF object
    <2> QED
      BY <2>1, <2>4
  <1>3. CASE silent = FALSE
    <2> DEFINE object == [items |-> List(page), count |-> Number(Len(page)), total |-> Number(whole)]
    <2>1. ZccBody(page, whole, silent) = Object(object)
      BY <1>3 DEF ZccBody
    <2>2. OptionalList(object, "items") = [items |-> page]
      BY <1>1
    <2>3. /\ ZccNumeric(object, "count", 0) = [int |-> Len(page)]
          /\ ZccNumeric(object, "total", 0) = [int |-> whole]
          /\ ZccNumeric(object, "limit", ZccPageSize) = [int |-> ZccPageSize]
      BY Kinds DEF ZccNumeric
    <2>4. ZccReads(object, page, whole)
      BY <2>2, <2>3 DEF ZccReads
    <2> HIDE DEF object
    <2> QED
      BY <2>1, <2>4
  <1> QED
    BY <1>2, <1>3

LEMMA ZccBatchIs ==
  ASSUME NEW V, NEW entry, NEW held, NEW pages, NEW fault, NEW silent \in BOOLEAN, NEW path, NEW k,
         entry.mergePaths = <<>>, entry.pagination = "zcc_v2",
         ~ HasFailed(ZccBatch(Answer(SiteOf(entry, held, pages, fault, silent), path, k)))
  PROVE  /\ path \in DOMAIN held
         /\ \E total \in {0, Len(held[path])} :
               ZccBatch(Answer(SiteOf(entry, held, pages, fault, silent), path, k)) =
               [items |-> PageOf(held[path], ZccPageSize, k), count |-> Len(PageOf(held[path], ZccPageSize, k)),
                total |-> total, limit |-> ZccPageSize]
  <1> DEFINE response == Answer(SiteOf(entry, held, pages, fault, silent), path, k)
             page == PageOf(held[path], ZccPageSize, k)
             whole == Len(held[path])
             value == GetJSON(response).value
  <1>1. ~ HasFailed(GetJSON(response))
    BY DEF ZccBatch
  <1>2. /\ path \in DOMAIN held /\ k \in 1..pages
        /\ GetJSON(response) = [value |-> Served(entry, held[path], pages, fault, silent)[k].payload]
    BY <1>1, AnswerIs
  <1>3. value = ZccBody(page, whole, silent)
    <2> DEFINE payload == Served(entry, held[path], pages, fault, silent)[k].payload
    <2>1. payload = ZccBody(page, whole, silent)
      BY <1>2, ZccPayload
    <2>2. value = payload
      BY <1>2
    <2> QED
      BY <2>1, <2>2
  <1>4. ZccBatch(response) =
           IF ~Is(value, "object") THEN Failed("not an object page")
           ELSE LET batch == OptionalList(value[2], "items")
                    count == ZccNumeric(value[2], "count", 0)
                    total == ZccNumeric(value[2], "total", 0)
                    limit == ZccNumeric(value[2], "limit", ZccPageSize)
                IN  IF \E part \in {batch, count, total, limit} : HasFailed(part)
                    THEN Failed("count or items")
                    ELSE [items |-> batch.items, count |-> count.int, total |-> total.int, limit |-> limit.int]
    BY <1>1 DEF ZccBatch
  <1> HIDE DEF response, page, whole, value
  <1>9. PICK object : \E total \in {0, whole} :
           ZccBody(page, whole, silent) = Object(object) /\ ZccReads(object, page, total)
    BY ZccBodyIs
  <1>5. PICK total \in {0, whole} : ZccBody(page, whole, silent) = Object(object) /\ ZccReads(object, page, total)
    BY <1>9
  <1>6. Is(value, "object") /\ value[2] = object
    BY <1>3, <1>5, Kinds
  <1>7. ~ HasFailed([items |-> page]) /\ \A n : ~ HasFailed([int |-> n])
    BY DEF HasFailed
  <1>8. ZccBatch(response) = [items |-> page, count |-> Len(page), total |-> total, limit |-> ZccPageSize]
    <2> DEFINE parts == {[items |-> page], [int |-> Len(page)], [int |-> total], [int |-> ZccPageSize]}
    <2>1. ~ \E part \in parts : HasFailed(part)
      BY <1>7
    <2>2. ZccBatch(response) =
             IF \E part \in parts : HasFailed(part) THEN Failed("count or items")
             ELSE [items |-> page, count |-> Len(page), total |-> total, limit |-> ZccPageSize]
      <3> DEFINE b == OptionalList(value[2], "items")
                 c == ZccNumeric(value[2], "count", 0)
                 t == ZccNumeric(value[2], "total", 0)
                 l == ZccNumeric(value[2], "limit", ZccPageSize)
      <3>1. b = [items |-> page] /\ c = [int |-> Len(page)] /\ t = [int |-> total] /\ l = [int |-> ZccPageSize]
        BY <1>5, <1>6 DEF ZccReads
      <3>2. ZccBatch(response) =
               IF \E part \in {b, c, t, l} : HasFailed(part) THEN Failed("count or items")
               ELSE [items |-> b.items, count |-> c.int, total |-> t.int, limit |-> l.int]
        BY <1>4, <1>6
      <3> HIDE DEF b, c, t, l
      <3>3. {b, c, t, l} = parts
        BY <3>1
      <3>4. b.items = page /\ c.int = Len(page) /\ t.int = total /\ l.int = ZccPageSize
        BY <3>1
      <3> HIDE DEF parts
      <3> QED
        BY <3>2, <3>3, <3>4
    <2> HIDE DEF parts
    <2> QED
      BY <2>1, <2>2
  <1> QED
    BY <1>2, <1>5, <1>8 DEF response, page, whole

(* A path, whatever the way of paging *)

LEMMA ZiaPathIs ==
  ASSUME NEW V, NEW entry, NEW held, NEW pages, NEW fault, NEW silent, NEW path,
         \A p \in DOMAIN held : held[p] \in Seq(V), entry.mergePaths = <<>>, entry.pagination = "zia",
         ~ HasFailed(PaginateZia(entry, SiteOf(entry, held, pages, fault, silent), path))
  PROVE  /\ path \in DOMAIN held
         /\ PaginateZia(entry, SiteOf(entry, held, pages, fault, silent), path) = [items |-> held[path]]
  <1> DEFINE site == SiteOf(entry, held, pages, fault, silent)
             batches == [k \in 1..ZiaMaxPages |-> ZiaBatch(Answer(site, path, k), entry.envelope)]
             ends == {k \in DOMAIN batches : ~ HasFailed(batches[k]) /\ Len(batches[k].items) < ZiaPageSize}
  <1>1. PaginateZia(entry, site, path) = UpTo(batches, ends)
    BY DEF PaginateZia
  <1>2. ZiaMaxPages \in Nat /\ ZiaPageSize \in Nat \ {0}
    BY CollectorsAssumption
  <1>3. PICK last \in ends : EndsAt(batches, ends, last)
    <2>1. DOMAIN batches = 1..ZiaMaxPages /\ ends \in SUBSET 1..ZiaMaxPages /\ ~ HasFailed(UpTo(batches, ends))
      BY <1>1
    <2> HIDE DEF batches, ends
    <2> QED
      BY <1>2, <2>1, UpToIs
  <1>4. last \in 1..ZiaMaxPages /\ Len(batches[last].items) < ZiaPageSize
    OBVIOUS
  <1>5. ASSUME NEW k \in 1..last
        PROVE  path \in DOMAIN held /\ batches[k].items = PageOf(held[path], ZiaPageSize, k)
    <2>1. k \in 1..ZiaMaxPages
      BY <1>2, <1>4
    <2>2. ~ HasFailed(ZiaBatch(Answer(site, path, k), entry.envelope))
      BY <1>3, <2>1 DEF EndsAt
    <2>3. path \in DOMAIN held
          /\ ZiaBatch(Answer(site, path, k), entry.envelope) = [items |-> PageOf(held[path], ZiaPageSize, k)]
      BY <2>2, ZiaBatchIs
    <2> QED
      BY <2>1, <2>3
  <1> HIDE DEF batches, ends, site
  <1>6. last \in 1..last
    BY <1>2, <1>4
  <1>7. path \in DOMAIN held /\ held[path] \in Seq(V)
    BY <1>5, <1>6
  <1>8. [k \in 1..last |-> batches[k].items] = Pages(held[path], ZiaPageSize, last)
    BY <1>5 DEF Pages
  <1>9. last * ZiaPageSize >= Len(held[path])
    <2>1. last \in Nat \ {0} /\ last * ZiaPageSize \in Nat /\ Len(held[path]) \in Nat
      BY <1>2, <1>4, <1>7
    <2>2. Len(PageOf(held[path], ZiaPageSize, last)) # ZiaPageSize
      BY <1>2, <1>4, <1>5, <1>6, <1>7, <2>1, PageIs
    <2>3. ~ (last * ZiaPageSize <= Len(held[path]))
      BY <1>2, <1>7, <2>1, <2>2, PageIs
    <2> QED
      BY <2>1, <2>3
  <1>10. FlattenSeq(Pages(held[path], ZiaPageSize, last)) = held[path]
    BY <1>2, <1>4, <1>7, <1>9, PagesJoin
  <1> QED
    BY <1>1, <1>3, <1>7, <1>8, <1>10 DEF site, EndsAt

LEMMA ZpaPathIs ==
  ASSUME NEW V, NEW entry, NEW held, NEW pages \in Nat, NEW fault, NEW silent, NEW path,
         \A p \in DOMAIN held : held[p] \in Seq(V), entry.mergePaths = <<>>, entry.pagination = "zpa",
         ~ HasFailed(PaginateZpa(SiteOf(entry, held, pages, fault, silent), path))
  PROVE  /\ path \in DOMAIN held
         /\ PaginateZpa(SiteOf(entry, held, pages, fault, silent), path) = [items |-> held[path]]
  <1> DEFINE site == SiteOf(entry, held, pages, fault, silent)
             count == IF path \in DOMAIN site THEN Len(site[path]) ELSE 0
             batches == [k \in 1..(count + 1) |-> ZpaBatch(Answer(site, path, k))]
             ends == {k \in DOMAIN batches : ~ HasFailed(batches[k]) /\ k >= batches[k].total}
  <1>1. PaginateZpa(site, path) = UpTo(batches, ends)
    BY DEF PaginateZpa
  <1>2. count \in Nat /\ ZccPageSize \in Nat \ {0}
    <2>1. ASSUME path \in DOMAIN site PROVE Len(site[path]) = pages
      <3>1. path \in DOMAIN held /\ site[path] = Served(entry, held[path], pages, fault, silent)
        BY <2>1 DEF SiteOf
      <3>2. DOMAIN Served(entry, held[path], pages, fault, silent) = 1..pages
        BY DEF Served
      <3> HIDE DEF site
      <3>3. Len(site[path]) = pages
        <4>1. site[path] = [k \in 1..pages |-> site[path][k]]
          BY <3>1 DEF Served
        <4>2. Len([k \in 1..pages |-> site[path][k]]) = pages
          OBVIOUS
        <4> QED
          BY <4>1, <4>2
      <3> QED
        BY <3>3
    <2> QED
      BY <2>1, CollectorsAssumption
  <1>3. PICK last \in ends : EndsAt(batches, ends, last)
    <2>1. DOMAIN batches = 1..(count + 1) /\ ends \in SUBSET 1..(count + 1) /\ ~ HasFailed(UpTo(batches, ends))
      BY <1>1
    <2>2. count + 1 \in Nat
      BY <1>2
    <2> HIDE DEF batches, ends, count
    <2> QED
      BY <2>1, <2>2, UpToIs
  <1>4. last \in 1..(count + 1) /\ last >= batches[last].total
    OBVIOUS
  <1>5. ASSUME NEW k \in 1..last
        PROVE  /\ path \in DOMAIN held /\ batches[k].items = PageOf(held[path], ZccPageSize, k)
               /\ batches[k].total = PagesOf(held[path])
    <2>1. k \in 1..(count + 1)
      <3> HIDE DEF count
      <3> QED
        BY <1>2, <1>4
    <2>2. ~ HasFailed(ZpaBatch(Answer(site, path, k)))
      <3> HIDE DEF count
      <3> QED
        BY <1>3, <2>1 DEF EndsAt
    <2>3. path \in DOMAIN held
          /\ ZpaBatch(Answer(site, path, k)) = [items |-> PageOf(held[path], ZccPageSize, k), total |-> PagesOf(held[path])]
      BY <2>2, ZpaBatchIs
    <2> HIDE DEF count
    <2> QED
      BY <2>1, <2>3
  <1> HIDE DEF batches, ends, site, count
  <1>6. last \in 1..last
    BY <1>2, <1>4
  <1>7. path \in DOMAIN held /\ held[path] \in Seq(V)
    BY <1>5, <1>6
  <1>8. [k \in 1..last |-> batches[k].items] = Pages(held[path], ZccPageSize, last)
    BY <1>5 DEF Pages
  <1>9. last * ZccPageSize >= Len(held[path])
    <2> DEFINE n == PagesOf(held[path])
    <2>1. n \in Nat \ {0} /\ n * ZccPageSize >= Len(held[path])
      BY <1>7, PagesOfIs
    <2>2. last >= n /\ last \in Nat
      BY <1>2, <1>4, <1>5, <1>6
    <2> HIDE DEF n
    <2>3. last * ZccPageSize = n * ZccPageSize + (last - n) * ZccPageSize /\ (last - n) * ZccPageSize >= 0
          /\ n * ZccPageSize \in Nat /\ (last - n) * ZccPageSize \in Nat /\ Len(held[path]) \in Nat
      BY <1>2, <1>7, <2>1, <2>2
    <2> QED
      BY <2>1, <2>3
  <1>10. FlattenSeq(Pages(held[path], ZccPageSize, last)) = held[path]
    BY <1>2, <1>4, <1>7, <1>9, PagesJoin
  <1> QED
    BY <1>1, <1>3, <1>7, <1>8, <1>10 DEF site, EndsAt

LEMMA ZccPathIs ==
  ASSUME NEW V, NEW entry, NEW held, NEW pages, NEW fault, NEW silent \in BOOLEAN, NEW path,
         \A p \in DOMAIN held : held[p] \in Seq(V), entry.mergePaths = <<>>, entry.pagination = "zcc_v2",
         ~ HasFailed(PaginateZccV2(SiteOf(entry, held, pages, fault, silent), path))
  PROVE  /\ path \in DOMAIN held
         /\ PaginateZccV2(SiteOf(entry, held, pages, fault, silent), path) = [items |-> held[path]]
  <1> DEFINE site == SiteOf(entry, held, pages, fault, silent)
             batches == [k \in 1..ZccMaxPages |-> ZccBatch(Answer(site, path, k))]
             Until(k) == InTurn([j \in 1..k |-> batches[j]])
             ends == {k \in DOMAIN batches : /\ ~ HasFailed(Until(k))
                                             /\ IsLastZccPage(batches[k], Len(Until(k).items))}
  <1>1. PaginateZccV2(site, path) = UpTo(batches, ends)
    BY DEF PaginateZccV2
  <1>2. ZccMaxPages \in Nat /\ ZccPageSize \in Nat \ {0}
    BY CollectorsAssumption
  <1>3. PICK last \in ends : EndsAt(batches, ends, last)
    <2>1. DOMAIN batches = 1..ZccMaxPages /\ ends \in SUBSET 1..ZccMaxPages /\ ~ HasFailed(UpTo(batches, ends))
      BY <1>1
    <2> HIDE DEF batches, ends
    <2> QED
      BY <1>2, <2>1, UpToIs
  <1>4. /\ last \in 1..ZccMaxPages /\ ~ HasFailed(Until(last))
        /\ IsLastZccPage(batches[last], Len(Until(last).items))
    OBVIOUS
  <1>5. ASSUME NEW k \in 1..last
        PROVE  /\ path \in DOMAIN held
               /\ \E total \in {0, Len(held[path])} :
                     batches[k] = [items |-> PageOf(held[path], ZccPageSize, k), count |-> Len(PageOf(held[path], ZccPageSize, k)),
                                   total |-> total, limit |-> ZccPageSize]
    <2>1. k \in 1..ZccMaxPages
      BY <1>2, <1>4
    <2>2. ~ HasFailed(ZccBatch(Answer(site, path, k)))
      BY <1>3, <2>1 DEF EndsAt
    <2>3. batches[k] = ZccBatch(Answer(site, path, k))
      BY <2>1
    <2> HIDE DEF batches
    <2> QED
      BY <2>2, <2>3, ZccBatchIs
  <1> HIDE DEF ends
  <1>6. last \in 1..last /\ last \in Nat \ {0}
    BY <1>2, <1>4
  <1>7. path \in DOMAIN held /\ held[path] \in Seq(V)
    BY <1>5, <1>6
  <1>8. \A k \in 1..last : batches[k].items = PageOf(held[path], ZccPageSize, k)
    <2> HIDE DEF batches
    <2> SUFFICES ASSUME NEW k \in 1..last PROVE batches[k].items = PageOf(held[path], ZccPageSize, k)
      OBVIOUS
    <2>1. PICK total \in {0, Len(held[path])} :
             batches[k] = [items |-> PageOf(held[path], ZccPageSize, k), count |-> Len(PageOf(held[path], ZccPageSize, k)),
                           total |-> total, limit |-> ZccPageSize]
      BY <1>5
    <2> QED
      BY <2>1
  <1>9. [k \in 1..last |-> batches[k].items] = Pages(held[path], ZccPageSize, last)
    BY <1>8 DEF Pages
  <1>10. Until(last).items = FlattenSeq(Pages(held[path], ZccPageSize, last))
    <2> DEFINE part == [j \in 1..last |-> batches[j]]
    <2>1. DOMAIN part = 1..last /\ ~ HasFailed(InTurn(part)) /\ last \in Nat
      BY <1>4, <1>6
    <2>2. [k \in 1..last |-> part[k].items] = Pages(held[path], ZccPageSize, last)
      BY <1>9
    <2>3. Until(last) = InTurn(part)
      OBVIOUS
    <2> HIDE DEF part, Until
    <2>4. InTurn(part) = [items |-> FlattenSeq([k \in 1..last |-> part[k].items])]
      BY <2>1, InTurnIs
    <2> QED
      BY <2>2, <2>3, <2>4
  <1>14. /\ PageOf(held[path], ZccPageSize, last) \in Seq(V)
         /\ last * ZccPageSize <= Len(held[path]) => Len(PageOf(held[path], ZccPageSize, last)) = ZccPageSize
         /\ (last - 1) * ZccPageSize < Len(held[path]) => PageOf(held[path], ZccPageSize, last) # <<>>
    <2> DEFINE items == held[path]
               size == ZccPageSize
    <2>1. items \in Seq(V) /\ size \in Nat \ {0} /\ last \in Nat \ {0}
      BY <1>2, <1>6, <1>7
    <2> HIDE DEF items, size
    <2>2. /\ PageOf(items, size, last) \in Seq(V)
          /\ last * size <= Len(items) => Len(PageOf(items, size, last)) = size
          /\ (last - 1) * size < Len(items) => PageOf(items, size, last) # <<>>
      BY <2>1, PageIs
    <2> QED
      BY <2>2 DEF items, size
  <1> DEFINE whole == last * ZccPageSize
             l == Len(held[path])
             page == PageOf(held[path], ZccPageSize, last)
  <1>11. whole \in Nat /\ l \in Nat /\ (last - 1) * ZccPageSize + ZccPageSize = whole
         /\ (last - 1) * ZccPageSize \in Nat
    BY <1>2, <1>6, <1>7
  <1>12. whole >= l
    <2>1. PICK total \in {0, l} : batches[last] = [items |-> page, count |-> Len(page), total |-> total, limit |-> ZccPageSize]
      <3> HIDE DEF batches
      <3> QED
        BY <1>5, <1>6
    <2>2. /\ page \in Seq(V) /\ Len(page) \in Nat
          /\ whole <= l => Len(page) = ZccPageSize
          /\ (last - 1) * ZccPageSize < l => page # <<>>
      <3>1. page \in Seq(V) => Len(page) \in Nat
        BY LenProperties
      <3>2. page \in Seq(V)
        BY <1>14
      <3>3. whole <= l => Len(page) = ZccPageSize
        BY <1>14
      <3>4. (last - 1) * ZccPageSize < l => page # <<>>
        BY <1>14
      <3> HIDE DEF site, batches, Until, page, whole, l
      <3> QED
        BY <3>1, <3>2, <3>3, <3>4
    <2>3. Len(FlattenSeq(Pages(held[path], ZccPageSize, last))) >= l => whole >= l
      BY <1>2, <1>6, <1>7, PagesJoin
    <2>4. Len(Until(last).items) = Len(FlattenSeq(Pages(held[path], ZccPageSize, last)))
      BY <1>10
    <2> DEFINE collected == Len(Until(last).items)
    <2> HIDE DEF whole, l, page, Until, batches
    <2>5. \/ Len(page) = 0 \/ page = <<>>
          \/ ZccPageSize > 0 /\ Len(page) < ZccPageSize
          \/ total > 0 /\ collected >= total
      BY <1>4, <2>1 DEF IsLastZccPage
    <2> HIDE DEF collected
    <2>6. CASE Len(page) = 0 \/ page = <<>>
      <3>1. page = <<>>
        BY <2>2, <2>6, EmptySeq
      <3> QED
        BY <1>2, <1>11, <2>2, <3>1
    <2>7. CASE Len(page) < ZccPageSize
      BY <1>2, <1>11, <2>2, <2>7
    <2>8. CASE total > 0 /\ collected >= total
      BY <1>11, <2>1, <2>3, <2>4, <2>8 DEF collected
    <2> QED
      BY <2>5, <2>6, <2>7, <2>8
  <1>13. FlattenSeq(Pages(held[path], ZccPageSize, last)) = held[path]
    BY <1>2, <1>6, <1>7, <1>12, PagesJoin
  <1> HIDE DEF batches
  <1> QED
    BY <1>1, <1>3, <1>7, <1>9, <1>13 DEF EndsAt

LEMMA SinglePathIs ==
  ASSUME NEW entry, NEW held, NEW pages, NEW fault, NEW silent, NEW path,
         entry.mergePaths = <<>>, entry.pagination = "single",
         ~ HasFailed(PaginateSingle(Answer(SiteOf(entry, held, pages, fault, silent), path, 1)))
  PROVE  /\ path \in DOMAIN held
         /\ PaginateSingle(Answer(SiteOf(entry, held, pages, fault, silent), path, 1)) = [items |-> held[path]]
  <1> DEFINE response == Answer(SiteOf(entry, held, pages, fault, silent), path, 1)
  <1>1. ~ HasFailed(GetJSON(response))
    BY DEF PaginateSingle
  <1>2. /\ path \in DOMAIN held /\ 1 \in 1..pages
        /\ GetJSON(response) = [value |-> Served(entry, held[path], pages, fault, silent)[1].payload]
    BY <1>1, AnswerIs
  <1>3. Served(entry, held[path], pages, fault, silent)[1].payload = List(held[path])
    BY <1>2, SinglePayload
  <1>4. GetJSON(response).value = List(held[path])
    BY <1>2, <1>3
  <1> HIDE DEF response
  <1>5. PaginateSingle(response) = [items |-> held[path]]
    BY <1>1, <1>4, Kinds DEF PaginateSingle
  <1> QED
    BY <1>2, <1>5 DEF response

WaysToPage == {"zia", "zpa", "single", "zcc_v2"}

LEMMA PathIs ==
  ASSUME NEW V, NEW entry, NEW held, NEW pages \in Nat, NEW fault, NEW silent \in BOOLEAN, NEW path,
         \A p \in DOMAIN held : held[p] \in Seq(V), entry.mergePaths = <<>>, entry.pagination \in WaysToPage,
         ~ HasFailed(FetchOnePath(entry, SiteOf(entry, held, pages, fault, silent), path))
  PROVE  FetchOnePath(entry, SiteOf(entry, held, pages, fault, silent), path) = [items |-> HeldAt(held, path)]
  <1> DEFINE site == SiteOf(entry, held, pages, fault, silent)
  <1>1. path \in DOMAIN held => HeldAt(held, path) = held[path]
    BY DEF HeldAt
  <1>2. CASE entry.pagination = "zia"
    <2>1. FetchOnePath(entry, site, path) = PaginateZia(entry, site, path)
      BY <1>2 DEF FetchOnePath
    <2> QED
      BY <1>1, <1>2, <2>1, ZiaPathIs
  <1>3. CASE entry.pagination = "zpa"
    <2>1. FetchOnePath(entry, site, path) = PaginateZpa(site, path)
      BY <1>3 DEF FetchOnePath
    <2> QED
      BY <1>1, <1>3, <2>1, ZpaPathIs
  <1>4. CASE entry.pagination = "single"
    <2>1. FetchOnePath(entry, site, path) = PaginateSingle(Answer(site, path, 1))
      BY <1>4 DEF FetchOnePath
    <2> QED
      BY <1>1, <1>4, <2>1, SinglePathIs
  <1>5. CASE entry.pagination = "zcc_v2"
    <2>1. FetchOnePath(entry, site, path) = PaginateZccV2(site, path)
      BY <1>5 DEF FetchOnePath
    <2> QED
      BY <1>1, <1>5, <2>1, ZccPathIs
  <1> QED
    BY <1>2, <1>3, <1>4, <1>5 DEF WaysToPage

(* A resource *)

\* What a server holds, and how a resource is asked for.
Serves(V, entry, held, pages, silent) ==
    /\ \A p \in DOMAIN held : held[p] \in Seq(V)
    /\ pages \in Nat /\ silent \in BOOLEAN /\ entry.pagination \in WaysToPage

LEMMA HeldIsTyped ==
  ASSUME NEW V, NEW held, NEW path, \A p \in DOMAIN held : held[p] \in Seq(V)
  PROVE  HeldAt(held, path) \in Seq(V)
  <1>1. <<>> \in Seq(V)
    OBVIOUS
  <1> QED
    BY <1>1 DEF HeldAt

LEMMA PathsAre ==
  ASSUME NEW V, NEW entry, NEW held, NEW pages, NEW fault, NEW silent,
         Serves(V, entry, held, pages, silent), entry.mergePaths = <<>>,
         NEW n \in Nat, NEW paths, DOMAIN paths = 1..n,
         ~ HasFailed(FetchPaths(entry, SiteOf(entry, held, pages, fault, silent), paths))
  PROVE  FetchPaths(entry, SiteOf(entry, held, pages, fault, silent), paths) =
            [items |-> FlattenSeq([i \in 1..n |-> HeldAt(held, paths[i])])]
  <1> DEFINE site == SiteOf(entry, held, pages, fault, silent)
             results == [i \in 1..n |-> FetchOnePath(entry, site, paths[i])]
  <1>1. FetchPaths(entry, site, paths) = InTurn(results)
    BY DEF FetchPaths
  <1>2. /\ \A k \in 1..n : ~ HasFailed(results[k])
        /\ InTurn(results) = [items |-> FlattenSeq([k \in 1..n |-> results[k].items])]
    <2>1. DOMAIN results = 1..n /\ ~ HasFailed(InTurn(results))
      BY <1>1
    <2> HIDE DEF results
    <2> QED
      BY <2>1, InTurnIs
  <1>3. ASSUME NEW i \in 1..n PROVE results[i].items = HeldAt(held, paths[i])
    <2>1. results[i] = FetchOnePath(entry, site, paths[i]) /\ ~ HasFailed(results[i])
      BY <1>2
    <2> HIDE DEF results
    <2>2. FetchOnePath(entry, site, paths[i]) = [items |-> HeldAt(held, paths[i])]
      BY <2>1, PathIs DEF Serves
    <2> QED
      BY <2>1, <2>2
  <1> HIDE DEF results
  <1>4. [k \in 1..n |-> results[k].items] = [i \in 1..n |-> HeldAt(held, paths[i])]
    BY <1>3
  <1> QED
    BY <1>1, <1>2, <1>4 DEF site

LEMMA FollowItemIs ==
  ASSUME NEW V, NEW entry, NEW held, NEW pages, NEW fault, NEW silent, NEW follow, NEW item,
         Serves(V, entry, held, pages, silent), entry.mergePaths = <<>>,
         ~ HasFailed(FollowItem(entry, SiteOf(entry, held, pages, fault, silent), follow, item))
  PROVE  FollowItem(entry, SiteOf(entry, held, pages, fault, silent), follow, item) =
            [items |-> Following(held, follow, item)]
  <1> DEFINE site == SiteOf(entry, held, pages, fault, silent)
             value == IF Is(item, "object") THEN Member(item[2], follow.fromField) ELSE Nil
  <1>1. CASE value = Nil
    BY <1>1 DEF FollowItem, Following
  <1>2. CASE value # Nil
    <2>1. Is(item, "object") /\ Member(item[2], follow.fromField) # Nil /\ value = item[2][follow.fromField]
      BY <1>2 DEF Member
    <2>2. FollowItem(entry, site, follow, item) =
             IF ~ Scalar(value) \/ value[2] \in UnsafeSegments THEN Failed("follow value")
             ELSE FetchOnePath(entry, site, <<follow.path, value[2]>>)
      BY <1>2 DEF FollowItem
    <2>3. FollowItem(entry, site, follow, item) = FetchOnePath(entry, site, <<follow.path, value[2]>>)
      BY <2>2, NotFailed
    <2>4. Following(held, follow, item) = HeldAt(held, <<follow.path, value[2]>>)
      BY <2>1 DEF Following
    <2> HIDE DEF value
    <2>5. FetchOnePath(entry, site, <<follow.path, value[2]>>) = [items |-> HeldAt(held, <<follow.path, value[2]>>)]
      BY <2>3, PathIs DEF Serves
    <2> QED
      BY <2>3, <2>4, <2>5
  <1> QED
    BY <1>1, <1>2

\* One followed path: what is asked for of every item, and what there is.
FollowPath(entry, site, follow, base) ==
    InTurn([j \in DOMAIN base |-> FollowItem(entry, site, follow, base[j])])
FollowedFrom(held, follow, base) ==
    FlattenSeq([j \in DOMAIN base |-> Following(held, follow, base[j])])

LEMMA FollowPathIs ==
  ASSUME NEW V, NEW entry, NEW held, NEW pages, NEW fault, NEW silent, NEW follow,
         Serves(V, entry, held, pages, silent), entry.mergePaths = <<>>,
         NEW base \in Seq(V),
         ~ HasFailed(FollowPath(entry, SiteOf(entry, held, pages, fault, silent), follow, base))
  PROVE  FollowPath(entry, SiteOf(entry, held, pages, fault, silent), follow, base) =
            [items |-> FollowedFrom(held, follow, base)]
  <1> DEFINE site == SiteOf(entry, held, pages, fault, silent)
             n == Len(base)
             results == [j \in DOMAIN base |-> FollowItem(entry, site, follow, base[j])]
  <1>1. n \in Nat /\ DOMAIN base = 1..n
    BY LenProperties
  <1>2. /\ \A k \in 1..n : ~ HasFailed(results[k])
        /\ InTurn(results) = [items |-> FlattenSeq([k \in 1..n |-> results[k].items])]
    <2>1. DOMAIN results = 1..n /\ ~ HasFailed(InTurn(results))
      BY <1>1 DEF FollowPath
    <2> HIDE DEF results, n
    <2> QED
      BY <1>1, <2>1, InTurnIs
  <1>3. ASSUME NEW j \in 1..n PROVE results[j].items = Following(held, follow, base[j])
    <2>1. results[j] = FollowItem(entry, site, follow, base[j]) /\ ~ HasFailed(results[j])
      BY <1>1, <1>2
    <2> HIDE DEF results, n
    <2>2. FollowItem(entry, site, follow, base[j]) = [items |-> Following(held, follow, base[j])]
      BY <2>1, FollowItemIs
    <2> QED
      BY <2>1, <2>2
  <1> HIDE DEF results, n
  <1>4. [k \in 1..n |-> results[k].items] = [j \in DOMAIN base |-> Following(held, follow, base[j])]
    BY <1>1, <1>3
  <1> QED
    BY <1>2, <1>4 DEF results, site, FollowPath, FollowedFrom

\* All that is followed.
FollowedItems(entry, held, base) ==
    FlattenSeq([i \in DOMAIN entry.followPaths |->
        FlattenSeq([j \in DOMAIN base |-> Following(held, entry.followPaths[i], base[j])])])

LEMMA FollowPathsAre ==
  ASSUME NEW V, NEW entry, NEW held, NEW pages, NEW fault, NEW silent,
         Serves(V, entry, held, pages, silent), entry.mergePaths = <<>>,
         NEW base \in Seq(V), NEW n \in Nat, DOMAIN entry.followPaths = 1..n,
         ~ HasFailed(FollowPathItems(entry, SiteOf(entry, held, pages, fault, silent), base))
  PROVE  FollowPathItems(entry, SiteOf(entry, held, pages, fault, silent), base) =
            [items |-> FollowedItems(entry, held, base)]
  <1> DEFINE site == SiteOf(entry, held, pages, fault, silent)
             One(i) == FollowPath(entry, site, entry.followPaths[i], base)
             Followed(i) == FollowedFrom(held, entry.followPaths[i], base)
             results == [i \in 1..n |-> One(i)]
  <1>1. FollowPathItems(entry, site, base) = InTurn(results)
    BY DEF FollowPathItems, FollowPath
  <1>2. /\ \A k \in 1..n : ~ HasFailed(results[k])
        /\ InTurn(results) = [items |-> FlattenSeq([k \in 1..n |-> results[k].items])]
    <2>1. DOMAIN results = 1..n /\ ~ HasFailed(InTurn(results))
      BY <1>1
    <2> HIDE DEF results
    <2> QED
      BY <2>1, InTurnIs
  <1>3. ASSUME NEW i \in 1..n PROVE results[i].items = Followed(i)
    <2>1. results[i] = One(i) /\ ~ HasFailed(results[i])
      BY <1>2
    <2> HIDE DEF results
    <2>2. One(i) = [items |-> Followed(i)]
      BY <2>1, FollowPathIs
    <2> HIDE DEF One, Followed
    <2> QED
      BY <2>1, <2>2
  <1> HIDE DEF results
  <1>4. [k \in 1..n |-> results[k].items] = [i \in DOMAIN entry.followPaths |-> Followed(i)]
    <2> HIDE DEF Followed
    <2> QED
      BY <1>3
  <1> QED
    BY <1>1, <1>2, <1>4 DEF site, FollowedFrom, FollowedItems

LEMMA FlattenOne ==
  ASSUME NEW V, NEW s \in [1..1 -> Seq(V)]
  PROVE  FlattenSeq(s) = s[1]
  <1>1. 1 \in Nat /\ 1 # 0
    OBVIOUS
  <1>2. PICK f : Flattens(f, s, 1) /\ FlattenSeq(s) = f[1]
    BY <1>1, FlattenIs
  <1> QED
    BY <1>2 DEF Flattens

\* What the paths of a resource hold, before anything is followed.
BaseOf(entry, held) ==
    LET values == entry.expand[CHOOSE k \in DOMAIN entry.expand : TRUE]
    IN  IF DOMAIN entry.expand = {} THEN HeldAt(held, <<entry.path>>)
        ELSE FlattenSeq([i \in DOMAIN values |-> HeldAt(held, <<entry.path, values[i]>>)])

LEMMA BaseIs ==
  ASSUME NEW V, NEW entry, NEW held, NEW pages, NEW fault, NEW silent, NEW W,
         Serves(V, entry, held, pages, silent), entry.mergePaths = <<>>,
         \A k \in DOMAIN entry.expand : entry.expand[k] \in Seq(W),
         ~ HasFailed(ExpandedPaths(entry)),
         ~ HasFailed(FetchPaths(entry, SiteOf(entry, held, pages, fault, silent), ExpandedPaths(entry).paths))
  PROVE  /\ FetchPaths(entry, SiteOf(entry, held, pages, fault, silent), ExpandedPaths(entry).paths) =
               [items |-> BaseOf(entry, held)]
         /\ BaseOf(entry, held) \in Seq(V)
  <1> DEFINE site == SiteOf(entry, held, pages, fault, silent)
  <1>1. \A p \in DOMAIN held : held[p] \in Seq(V)
    BY DEF Serves
  <1>2. \A p : HeldAt(held, p) \in Seq(V)
    BY <1>1, HeldIsTyped
  <1>3. CASE DOMAIN entry.expand = {}
    <2>1. ExpandedPaths(entry) = [paths |-> <<<<entry.path>>>>]
      BY <1>3, NotFailed DEF ExpandedPaths
    <2> DEFINE paths == <<<<entry.path>>>>
               one == [i \in 1..1 |-> HeldAt(held, paths[i])]
    <2>2. DOMAIN paths = 1..1 /\ paths[1] = <<entry.path>> /\ 1 \in Nat
      OBVIOUS
    <2>3. ExpandedPaths(entry).paths = paths
      BY <2>1
    <2> HIDE DEF paths
    <2>4. FetchPaths(entry, site, paths) = [items |-> FlattenSeq(one)]
      <3>1. ~ HasFailed(FetchPaths(entry, site, paths))
        BY <2>3
      <3> QED
        BY <2>2, <3>1, PathsAre, SMTT(30)
    <2>5. one \in [1..1 -> Seq(V)] /\ one[1] = HeldAt(held, <<entry.path>>)
      BY <1>2, <2>2
    <2> HIDE DEF one
    <2>6. FlattenSeq(one) = HeldAt(held, <<entry.path>>)
      BY <2>5, FlattenOne
    <2> QED
      BY <1>2, <1>3, <2>3, <2>4, <2>6 DEF BaseOf
  <1>4. CASE DOMAIN entry.expand # {}
    <2> DEFINE values == entry.expand[CHOOSE k \in DOMAIN entry.expand : TRUE]
               paths == [i \in DOMAIN values |-> <<entry.path, values[i]>>]
               n == Len(values)
    <2>1. values \in Seq(W)
      BY <1>4
    <2>2. ExpandedPaths(entry) = [paths |-> paths]
      BY <1>4, NotFailed DEF ExpandedPaths
    <2>3. n \in Nat /\ DOMAIN values = 1..n
      <3> HIDE DEF values
      <3> QED
        BY <2>1, LenProperties
    <2>4. BaseOf(entry, held) = FlattenSeq([i \in DOMAIN values |-> HeldAt(held, <<entry.path, values[i]>>)])
      BY <1>4 DEF BaseOf
    <2> HIDE DEF values, n
    <2>5. DOMAIN paths = 1..n /\ \A i \in 1..n : paths[i] = <<entry.path, values[i]>>
      BY <2>3
    <2> DEFINE all == [i \in 1..n |-> HeldAt(held, paths[i])]
    <2>6. all = [i \in DOMAIN values |-> HeldAt(held, <<entry.path, values[i]>>)]
      BY <2>3, <2>5
    <2>7. ExpandedPaths(entry).paths = paths
      BY <2>2
    <2> HIDE DEF paths
    <2>8. FetchPaths(entry, site, paths) = [items |-> FlattenSeq(all)]
      <3>1. ~ HasFailed(FetchPaths(entry, site, paths))
        BY <2>7
      <3> QED
        BY <2>3, <2>5, <3>1, PathsAre
    <2>9. all \in [1..n -> Seq(V)]
      BY <1>2
    <2> HIDE DEF all
    <2>10. FlattenSeq(all) \in Seq(V)
      BY <2>3, <2>9, FlattenIsTyped
    <2> QED
      BY <2>4, <2>6, <2>7, <2>8, <2>10
  <1> QED
    BY <1>3, <1>4

LEMMA ResourceIs ==
  ASSUME NEW V, NEW entry, NEW held, NEW pages, NEW fault, NEW silent, NEW W, NEW n \in Nat,
         Serves(V, entry, held, pages, silent), entry.mergePaths = <<>>,
         \A k \in DOMAIN entry.expand : entry.expand[k] \in Seq(W),
         DOMAIN entry.followPaths = 1..n,
         ~ HasFailed(FetchResource(entry, SiteOf(entry, held, pages, fault, silent)))
  PROVE  FetchResource(entry, SiteOf(entry, held, pages, fault, silent)).items = Holdings(entry, held)
  <1> DEFINE site == SiteOf(entry, held, pages, fault, silent)
             paths == ExpandedPaths(entry)
             base == IF HasFailed(paths) THEN paths ELSE FetchPaths(entry, site, paths.paths)
             followed == FollowPathItems(entry, site, base.items)
  <1>1. ~ HasFailed(base) /\ ~ HasFailed(followed)
        /\ FetchResource(entry, site) = [items |-> base.items \o followed.items]
    <2>1. FetchResource(entry, site) =
             IF FollowRefused(entry) THEN Failed("follow paths")
             ELSE IF HasFailed(base) THEN base
             ELSE IF HasFailed(followed) THEN followed ELSE [items |-> base.items \o followed.items]
      BY DEF FetchResource
    <2> HIDE DEF base, followed
    <2> QED
      BY <2>1, NotFailed
  <1>2. ~ HasFailed(paths) /\ base = FetchPaths(entry, site, paths.paths)
    BY <1>1
  <1>3. base = [items |-> BaseOf(entry, held)] /\ BaseOf(entry, held) \in Seq(V)
    BY <1>1, <1>2, BaseIs
  <1>4. followed = FollowPathItems(entry, site, BaseOf(entry, held))
    BY <1>3
  <1> DEFINE more == FollowedItems(entry, held, BaseOf(entry, held))
  <1>5. Holdings(entry, held) = BaseOf(entry, held) \o more
    BY DEF Holdings, BaseOf, FollowedItems
  <1> HIDE DEF base, followed
  <1>6. followed = [items |-> more]
    <2> DEFINE all == BaseOf(entry, held)
    <2>1. all \in Seq(V) /\ ~ HasFailed(FollowPathItems(entry, site, all))
      BY <1>1, <1>3, <1>4
    <2>2. followed = FollowPathItems(entry, site, all)
      BY <1>4
    <2>3. FollowPathItems(entry, site, all) = [items |-> FollowedItems(entry, held, all)]
      BY <2>1, FollowPathsAre
    <2> QED
      BY <2>2, <2>3
  <1> QED
    BY <1>1, <1>3, <1>5, <1>6

\* What is read of one settings path.
LEMMA SettingsAre ==
  ASSUME NEW entry, NEW held, NEW pages, NEW fault, NEW silent, NEW path, entry.mergePaths # <<>>,
         ~ HasFailed(FetchSingleObject(Answer(SiteOf(entry, held, pages, fault, silent), path, 1)))
  PROVE  FetchSingleObject(Answer(SiteOf(entry, held, pages, fault, silent), path, 1)) =
            [settings |-> held[path][1][2]]
  <1> DEFINE response == Answer(SiteOf(entry, held, pages, fault, silent), path, 1)
             object == GetJSON(response)
  <1>1. ~ HasFailed(object) /\ FetchSingleObject(response) = [settings |-> object.value[2]]
    BY NotFailed DEF FetchSingleObject
  <1>2. object = [value |-> Served(entry, held[path], pages, fault, silent)[1].payload] /\ 1 \in 1..pages
    BY <1>1, AnswerIs
  <1>3. Served(entry, held[path], pages, fault, silent)[1].payload = held[path][1]
    BY <1>2 DEF Served
  <1>4. object.value = held[path][1]
    BY <1>2, <1>3
  <1> HIDE DEF object, response
  <1> QED
    BY <1>1, <1>4 DEF response

LEMMA MergedIs ==
  ASSUME NEW entry, NEW held, NEW pages, NEW fault, NEW silent, NEW W,
         entry.path \in W, entry.mergePaths \in Seq(W), entry.mergePaths # <<>>,
         ~ HasFailed(FetchResource(entry, SiteOf(entry, held, pages, fault, silent)))
  PROVE  LET got == FetchResource(entry, SiteOf(entry, held, pages, fault, silent))
         IN  Len(got.items) = 1 /\ HoldsSettings(entry, held, got.items[1])
  <1> DEFINE site == SiteOf(entry, held, pages, fault, silent)
             got == FetchResource(entry, site)
             paths == <<entry.path>> \o entry.mergePaths
             read == [i \in DOMAIN paths |-> FetchSingleObject(Answer(site, <<paths[i]>>, 1))]
             Of(i) == read[i].settings
             merged == [f \in UNION {DOMAIN Of(i) : i \in DOMAIN read} |->
                           Of(CHOOSE i \in DOMAIN read : f \in DOMAIN Of(i))[f]]
  <1>1. got = FetchMergedSingle(entry, site)
    BY NotFailed DEF FetchResource
  <1>2. DOMAIN paths \in SUBSET Nat
    <2>1. <<entry.path>> \in Seq(W)
      OBVIOUS
    <2>2. paths \in Seq(W)
      BY <2>1, ConcatProperties
    <2> HIDE DEF paths
    <2> QED
      BY <2>2, LenProperties
  <1>3. /\ Refusals(read) = {}
        /\ ~ \E i, j \in DOMAIN read : i # j /\ DOMAIN Of(i) \cap DOMAIN Of(j) # {}
        /\ got = [items |-> <<Object(merged)>>]
    <2>1. FetchMergedSingle(entry, site) =
             IF MergedFetchRefused(entry) THEN Failed("merge paths")
             ELSE IF Refusals(read) # {} THEN read[Min(Refusals(read))]
             ELSE IF \E i, j \in DOMAIN read : i # j /\ DOMAIN Of(i) \cap DOMAIN Of(j) # {} THEN Failed("collision")
             ELSE [items |-> <<Object(merged)>>]
      BY DEF FetchMergedSingle
    <2>2. Refusals(read) # {} => HasFailed(read[Min(Refusals(read))])
      <3>1. Refusals(read) \in SUBSET Nat /\ \A k \in Refusals(read) : HasFailed(read[k])
        BY <1>2 DEF Refusals
      <3> QED
        BY <3>1, MinIsLeast
    <2>3. ~ HasFailed(got)
      OBVIOUS
    <2> HIDE DEF read, Of, merged, got
    <2> QED
      BY <1>1, <2>1, <2>2, <2>3, NotFailed
  <1>4. ASSUME NEW i \in DOMAIN paths PROVE Of(i) = held[<<paths[i]>>][1][2]
    <2>1. read[i] = FetchSingleObject(Answer(site, <<paths[i]>>, 1)) /\ ~ HasFailed(read[i])
      BY <1>3 DEF Refusals
    <2> HIDE DEF read, paths
    <2>2. read[i] = [settings |-> held[<<paths[i]>>][1][2]]
      BY <2>1, SettingsAre
    <2> QED
      BY <2>2
  <1>5. DOMAIN read = DOMAIN paths
    OBVIOUS
  <1> HIDE DEF read, paths
  <1>6. ASSUME NEW i \in DOMAIN paths, NEW f \in DOMAIN Of(i)
        PROVE  f \in DOMAIN merged /\ merged[f] = Of(i)[f]
    <2> DEFINE j == CHOOSE k \in DOMAIN read : f \in DOMAIN Of(k)
    <2>1. j \in DOMAIN read /\ f \in DOMAIN Of(j)
      BY <1>5
    <2>2. f \in DOMAIN merged /\ merged[f] = Of(j)[f]
      BY <1>5
    <2> HIDE DEF j, Of, merged
    <2>3. j = i
      BY <1>3, <1>5, <2>1
    <2> QED
      BY <2>2, <2>3
  <1>7. HoldsSettings(entry, held, Object(merged))
    <2> HIDE DEF merged, Of
    <2>1. Object(merged)[2] = merged
      BY Kinds
    <2>2. \A path \in Range(paths) : \E i \in DOMAIN paths : path = paths[i]
      BY DEF Range
    <2>3. ASSUME NEW path \in Range(paths)
          PROVE  \A f \in DOMAIN held[<<path>>][1][2] : f \in DOMAIN merged /\ merged[f] = held[<<path>>][1][2][f]
      <3>1. PICK i \in DOMAIN paths : path = paths[i]
        BY <2>2
      <3> QED
        BY <1>4, <1>6, <3>1
    <2> QED
      BY <2>1, <2>3 DEF HoldsSettings, paths
  <1> HIDE DEF merged
  <1>8. Len(got.items) = 1 /\ got.items[1] = Object(merged)
    BY <1>3
  <1> HIDE DEF got
  <1>9. Len(got.items) = 1 /\ HoldsSettings(entry, held, got.items[1])
    BY <1>7, <1>8
  <1> QED
    BY <1>9 DEF got, site

\* What the registry says of a fetch: paths and values are lists.
Registered(entry, W) ==
    /\ entry.path \in W /\ entry.mergePaths \in Seq(W)
    /\ \A k \in DOMAIN entry.expand : entry.expand[k] \in Seq(W)
    /\ \E n \in Nat : DOMAIN entry.followPaths = 1..n

\* For any items, any size and number of pages, any bound on the pages and any page that
\* fails: what is fetched is all there is, in order, or nothing (FetchResource, paginateZia,
\* paginateZpa, paginateZccV2, fetchMergedSingle).
THEOREM PullsAreAlwaysComplete ==
  ASSUME NEW V, NEW W, NEW entry, NEW held, NEW pages, NEW fault, NEW silent,
         Serves(V, entry, held, pages, silent), Registered(entry, W)
  PROVE  PullsAreComplete(entry, held, pages, fault, silent)
  <1> DEFINE got == FetchResource(entry, SiteOf(entry, held, pages, fault, silent))
  <1>1. CASE HasFailed(got)
    BY <1>1 DEF PullsAreComplete
  <1>2. CASE ~ HasFailed(got) /\ entry.mergePaths = <<>>
    <2>1. got.items = Holdings(entry, held)
      BY <1>2, ResourceIs DEF Registered
    <2> QED
      BY <1>2, <2>1 DEF PullsAreComplete
  <1>3. CASE ~ HasFailed(got) /\ entry.mergePaths # <<>>
    <2>1. Len(got.items) = 1 /\ HoldsSettings(entry, held, got.items[1])
      BY <1>3, MergedIs DEF Registered
    <2> QED
      BY <1>3, <2>1 DEF PullsAreComplete
  <1> QED
    BY <1>1, <1>2, <1>3

\* For any environment, products and answer to the sign-in (acquireZiaLegacy,
\* composeProductURL, CollectorContext).
THEOREM SignedInAreReachable ==
  ASSUME NEW env, NEW products, NEW product, NEW response
  PROVE  SignedInProductsAreReachable(env, products, product, response)
  <1> DEFINE context == CollectorContext(env, products)
             auth == Acquire(product, context, env, response)
             url == ComposeURL(product, context)
  <1> SUFFICES ASSUME ~ HasFailed(context), ~ HasFailed(auth)
               PROVE  ~ HasFailed(url) /\ (auth.session # Null => auth.session = url.host)
    BY DEF SignedInProductsAreReachable
  <1>1. context.mode \in {"oneapi", "legacy"}
    BY NotFailed DEF CollectorContext
  <1> HIDE DEF context
  <1> DEFINE at == IF context.mode = "oneapi" THEN OneAPIGateway(context) ELSE LegacySessionHost(product, context)
             session == context.mode = "legacy" /\ product = "zia"
  <1>2. ~ (context.mode = "legacy" /\ product \notin {"zia", "zpa"})
    BY NotFailed DEF Acquire
  <1>3. ~ HasFailed(at) /\ auth = [bearer |-> ~ session, session |-> IF session THEN at.host ELSE Null]
    <2>1. auth \in {Failed("no legacy path"), Failed("credentials"), at, Failed(response.status), Failed("no token"),
                    [bearer |-> ~ session, session |-> IF session THEN at.host ELSE Null]}
      BY DEF Acquire
    <2>2. HasFailed(at) => HasFailed(auth)
      BY NotFailed DEF Acquire
    <2>3. ~ HasFailed(at) => auth # at \/ HasFailed(auth) \/ auth = [bearer |-> ~ session, session |-> IF session THEN at.host ELSE Null]
      BY NotFailed DEF Acquire
    <2> HIDE DEF auth, at, session
    <2> QED
      BY <2>1, <2>2, <2>3, NotFailed
  <1>4. url = at
    BY <1>1, <1>2 DEF ComposeURL, LegacySessionHost
  <1> HIDE DEF auth, at, url
  <1> QED
    BY <1>3, <1>4

(* The instance *)

LEMMA NamedIsTyped ==
  ASSUME NEW S, NEW ids \in Seq(S)
  PROVE  Named(ids) \in Seq({Object("id" :> Text(x)) : x \in S})
  <1> DEFINE T == {Object("id" :> Text(x)) : x \in S}
             n == Len(ids)
  <1>1. n \in Nat /\ DOMAIN ids = 1..n /\ \A i \in 1..n : ids[i] \in S
    BY LenProperties, ElementOfSeq
  <1>2. \A i \in 1..n : Object("id" :> Text(ids[i])) \in T
    BY <1>1
  <1> HIDE DEF T, n
  <1>3. Named(ids) = [i \in 1..n |-> Object("id" :> Text(ids[i]))]
    BY <1>1 DEF Named
  <1>4. Named(ids) \in [1..n -> T]
    BY <1>2, <1>3
  <1>5. Named(ids) \in Seq(T)
    BY <1>1, <1>4
  <1> QED
    BY <1>5 DEF T

Identities == {"x", "y", "z", "a", "b", "c"}
MCItems == {Object("id" :> Text(x)) : x \in Identities} \cup {Object("id" :> Nil), Text("x")} \cup Settings

LEMMA HeldIsListed ==
  /\ \A one \in Held : one \in Seq(MCItems)
  /\ Named(<<"a">>) \in Seq(MCItems) /\ Named(<<"a", "b", "c">>) \in Seq(MCItems)
  /\ \A one \in Settings : <<one>> \in Seq(MCItems)
  <1> DEFINE T == {Object("id" :> Text(x)) : x \in Identities}
  <1>1. \A ids \in Seq(Identities) : Named(ids) \in Seq(MCItems)
    <2> SUFFICES ASSUME NEW ids \in Seq(Identities) PROVE Named(ids) \in Seq(MCItems)
      OBVIOUS
    <2>1. Named(ids) \in Seq(T)
      BY NamedIsTyped
    <2>2. T \subseteq MCItems
      BY DEF MCItems
    <2> HIDE DEF T
    <2> QED
      BY <2>1, <2>2
  <1>2. \A s \in {<<>>, <<"x">>, <<"x", "y">>, <<"x", "y", "z">>, <<"x", "y", "z", "a">>, <<"a">>, <<"a", "b", "c">>} :
           s \in Seq(Identities)
    <2>1. "x" \in Identities /\ "y" \in Identities /\ "z" \in Identities /\ "a" \in Identities
          /\ "b" \in Identities /\ "c" \in Identities
      BY DEF Identities
    <2>2. <<>> \in Seq(Identities) /\ <<"x">> \in Seq(Identities) /\ <<"a">> \in Seq(Identities)
      BY <2>1
    <2>3. <<"x", "y">> \in Seq(Identities)
      BY <2>1
    <2>4. <<"x", "y", "z">> \in Seq(Identities) /\ <<"a", "b", "c">> \in Seq(Identities)
      BY <2>1
    <2>5. <<"x", "y", "z", "a">> \in Seq(Identities)
      BY <2>1
    <2> QED
      BY <2>2, <2>3, <2>4, <2>5, Zenon
  <1>3. Object("id" :> Nil) \in MCItems /\ Text("x") \in MCItems /\ Settings \subseteq MCItems
    BY DEF MCItems
  <1>4. <<Object("id" :> Nil), Text("x")>> \in Seq(MCItems)
    BY <1>3
  <1>5. \A one \in Settings : <<one>> \in Seq(MCItems)
    BY <1>3
  <1>6. \A one \in Held : one \in Seq(MCItems)
    BY <1>1, <1>2, <1>4 DEF Held
  <1> QED
    BY <1>1, <1>2, <1>5, <1>6

LEMMA FetchesAreRegistered ==
  \A entry \in Fetches \cup MergedFetches : Registered(entry, {"base", "sub", "1", "2"}) /\ entry.pagination \in WaysToPage
  <1> DEFINE W == {"base", "sub", "1", "2"}
  <1> SUFFICES ASSUME NEW entry \in Fetches \cup MergedFetches
               PROVE  Registered(entry, W) /\ entry.pagination \in WaysToPage
    OBVIOUS
  <1>1. ASSUME entry \in Fetches
        PROVE  /\ entry.path = "base" /\ entry.expand \in {<<>>, Entry1("k", <<"1", "2">>)} /\ entry.mergePaths = <<>>
               /\ entry.pagination \in WaysToPage /\ entry.followPaths \in {<<>>, <<[path |-> "sub", fromField |-> "id"]>>}
    BY <1>1 DEF Fetches, FetchOf, WaysToPage
  <1>2. ASSUME entry \in MergedFetches
        PROVE  /\ entry.path = "base" /\ entry.expand = <<>> /\ entry.mergePaths \in {<<"sub">>, <<"sub", "sub">>}
               /\ entry.pagination \in WaysToPage /\ entry.followPaths = <<>>
    BY <1>2 DEF MergedFetches, FetchOf, WaysToPage
  <1>3. /\ entry.path = "base" /\ entry.expand \in {<<>>, Entry1("k", <<"1", "2">>)}
        /\ entry.mergePaths \in {<<>>, <<"sub">>, <<"sub", "sub">>}
        /\ entry.pagination \in WaysToPage /\ entry.followPaths \in {<<>>, <<[path |-> "sub", fromField |-> "id"]>>}
    BY <1>1, <1>2
  <1>4. "base" \in W /\ "sub" \in W /\ "1" \in W /\ "2" \in W
    OBVIOUS
  <1> HIDE DEF W
  <1>5. <<>> \in Seq(W) /\ <<"sub">> \in Seq(W) /\ <<"sub", "sub">> \in Seq(W) /\ <<"1", "2">> \in Seq(W)
    BY <1>4
  <1>6. entry.mergePaths \in Seq(W)
    BY <1>3, <1>5, Zenon
  <1>7. \A k \in DOMAIN entry.expand : entry.expand[k] \in Seq(W)
    <2>1. DOMAIN <<>> = {}
      OBVIOUS
    <2> QED
      BY <1>3, <1>5, <2>1 DEF Entry1
  <1>8. \E n \in Nat : DOMAIN entry.followPaths = 1..n
    <2>1. DOMAIN <<[path |-> "sub", fromField |-> "id"]>> = 1..1 /\ DOMAIN <<>> = 1..0 /\ 1 \in Nat /\ 0 \in Nat
      OBVIOUS
    <2> QED
      BY <1>3, <2>1
  <1> QED
    BY <1>3, <1>4, <1>6, <1>7, <1>8 DEF Registered

LEMMA ServersAreListed ==
  \A held \in Servers \cup SettingsServers : \A p \in DOMAIN held : held[p] \in Seq(MCItems)
  <1>1. ASSUME NEW one \in Seq(MCItems), NEW two \in Seq(MCItems)
        PROVE  \A p \in DOMAIN ServerOf(one, two) : ServerOf(one, two)[p] \in Seq(MCItems)
    BY DEF ServerOf
  <1>2. ASSUME NEW one, NEW two, <<one>> \in Seq(MCItems), <<two>> \in Seq(MCItems)
        PROVE  \A p \in DOMAIN SettingsOf(one, two) : SettingsOf(one, two)[p] \in Seq(MCItems)
    BY <1>2 DEF SettingsOf
  <1>3. ASSUME NEW held \in Servers PROVE \A p \in DOMAIN held : held[p] \in Seq(MCItems)
    <2>1. \E one \in Held, two \in {Named(<<"a">>), Named(<<"a", "b", "c">>)} : held = ServerOf(one, two)
      BY DEF Servers
    <2> QED
      BY <1>1, <2>1, HeldIsListed
  <1>4. ASSUME NEW held \in SettingsServers PROVE \A p \in DOMAIN held : held[p] \in Seq(MCItems)
    <2>1. \E one \in Settings, two \in Settings : held = SettingsOf(one, two)
      BY DEF SettingsServers
    <2> QED
      BY <1>2, <2>1, HeldIsListed
  <1> QED
    BY <1>3, <1>4

LEMMA PullInputs ==
  ASSUME NEW d \in PullTopic
  PROVE  Serves(MCItems, d.entry, d.held, d.pages, d.silent) /\ Registered(d.entry, {"base", "sub", "1", "2"})
  <1>1. d.entry \in Fetches \cup MergedFetches /\ d.held \in Servers \cup SettingsServers /\ d.pages \in Nat /\ d.silent \in BOOLEAN
    <2> DEFINE A == [topic : {"pull"}, entry : Fetches, held : Servers, pages : {4}, fault : 0..2, silent : BOOLEAN]
               B == [topic : {"pull"}, entry : MergedFetches, held : SettingsServers, pages : {1}, fault : 0..1, silent : {FALSE}]
    <2>1. d \in A \/ d \in B
      BY DEF PullTopic
    <2>2. d \in A => d.entry \in Fetches /\ d.held \in Servers /\ d.pages \in Nat /\ d.silent \in BOOLEAN
      OBVIOUS
    <2>3. d \in B => d.entry \in MergedFetches /\ d.held \in SettingsServers /\ d.pages \in Nat /\ d.silent \in BOOLEAN
      <3>1. d \in B => d.entry \in MergedFetches /\ d.held \in SettingsServers /\ d.pages \in Nat
        OBVIOUS
      <3>2. d \in B => d.silent \in {FALSE}
        OBVIOUS
      <3>3. {FALSE} \subseteq BOOLEAN
        OBVIOUS
      <3> HIDE DEF B
      <3> QED
        BY <3>1, <3>2, <3>3
    <2> HIDE DEF A, B
    <2> QED
      BY <2>1, <2>2, <2>3
  <1> QED
    BY <1>1, FetchesAreRegistered, ServersAreListed DEF Serves

\* The resources and servers of the instance, and any sign-in (FetchResource,
\* CollectorContext, composeProductURL).
THEOREM CollectionsHereAreSound ==
  [](doc.topic = "pull" => doc \in PullTopic) => []CollectionsAreSound
  <1>1. (doc.topic = "pull" => doc \in PullTopic) => CollectionsAreSound
    <2> SUFFICES ASSUME doc.topic = "pull" => doc \in PullTopic PROVE CollectionsAreSound
      OBVIOUS
    <2>1. ASSUME doc.topic = "pull" PROVE PullsAreComplete(doc.entry, doc.held, doc.pages, doc.fault, doc.silent)
      BY <2>1, PullInputs, PullsAreAlwaysComplete
    <2>2. SignedInProductsAreReachable(doc.env, doc.products, doc.product, doc.response)
      BY SignedInAreReachable
    <2> QED
      BY <2>1, <2>2 DEF CollectionsAreSound
  <1> QED
    BY <1>1, PTL

-----------------------------------------------------------------------------
(* Drift policies.  The paths of a state and of the schema, and what is    *)
(* left of a path or of the entries of a policy.                           *)

\* A finite set of numbers has a member with any smaller number of members below it.
LEMMA NthOf ==
  ASSUME NEW K \in SUBSET Nat, IsFiniteSet(K), NEW n \in Nat, n < Cardinality(K)
  PROVE  \E k \in K : Cardinality({j \in K : j < k}) = n
  <1> DEFINE Below(k) == {j \in K : j < k}
             T == {m \in Nat : m < Cardinality(K) => \E k \in K : Cardinality(Below(k)) = m}
  <1>0. Cardinality(K) \in Nat /\ \A k \in Nat : IsFiniteSet(Below(k)) /\ Cardinality(Below(k)) \in Nat
    <2>1. \A k \in Nat : Below(k) \subseteq K
      OBVIOUS
    <2> QED BY <2>1, FS_Subset, FS_CardinalityType
  <1>1. 0 \in T
    <2>1. ASSUME 0 < Cardinality(K) PROVE \E k \in K : Cardinality(Below(k)) = 0
      <3>1. K # {}
        BY <2>1, FS_EmptySet
      <3>2. PICK k \in K : \A j \in K : k <= j
        BY <3>1, LeastOf
      <3>3. Below(k) = {}
        <4>1. k \in Nat /\ \A j \in K : j \in Nat /\ ~ (j < k)
          BY <3>2
        <4> QED BY <4>1
      <3> QED BY <3>3, FS_EmptySet
    <2> QED BY <2>1
  <1>2. ASSUME NEW m \in T PROVE m + 1 \in T
    <2>1. ASSUME m + 1 < Cardinality(K) PROVE \E k \in K : Cardinality(Below(k)) = m + 1
      <3>1. PICK k \in K : Cardinality(Below(k)) = m
        BY <1>0, <2>1
      <3>2. k \notin Below(k) /\ IsFiniteSet(Below(k))
        BY <1>0
      <3>3. /\ IsFiniteSet(Below(k) \cup {k})
            /\ Cardinality(Below(k) \cup {k}) = m + 1
        BY <3>1, <3>2, FS_AddElement
      <3>4. {j \in K : k < j} # {}
        <4>1. SUFFICES ASSUME {j \in K : k < j} = {} PROVE FALSE
          OBVIOUS
        <4>2. K = Below(k) \cup {k}
          <5>1. k \in K /\ \A j \in K : ~ (k < j) /\ j \in Nat /\ k \in Nat
            BY <4>1
          <5>2. \A j \in K : j < k \/ j = k
            BY <5>1
          <5> QED BY <5>1, <5>2
        <4> QED BY <1>0, <2>1, <3>3, <4>2
      <3>5. PICK l \in {j \in K : k < j} : \A j \in {i \in K : k < i} : l <= j
        <4>1. {j \in K : k < j} \in SUBSET Nat
          OBVIOUS
        <4> QED BY <3>4, <4>1, LeastOf
      <3>6. Below(l) = Below(k) \cup {k}
        <4>1. k \in K /\ l \in K /\ k < l /\ k \in Nat /\ l \in Nat
          BY <3>5
        <4>2. \A j \in K : j \in Nat /\ (k < j => l <= j)
          BY <3>5
        <4>3. \A j \in K : j < l <=> j < k \/ j = k
          BY <4>1, <4>2
        <4> QED BY <4>1, <4>3
      <3> QED BY <3>3, <3>5, <3>6
    <2> QED BY <2>1
  <1> HIDE DEF T
  <1>3. T \in SUBSET Nat
    BY DEF T
  <1>4. T = Nat
    BY <1>1, <1>2, <1>3, EveryNumber
  <1> QED BY <1>4 DEF T

\* What SegmentsBut returns: segments of the path, none of them among the others.
LEMMA KeptPositions ==
  ASSUME NEW S, NEW path \in Seq(S), NEW others
  PROVE  /\ Cardinality(KeptIn(path, others)) \in Nat
         /\ KeptIn(path, others) \subseteq 1..Len(path)
         /\ \A n \in 1..Cardinality(KeptIn(path, others)) :
               Nth(KeptIn(path, others), n) \in KeptIn(path, others)
  <1> DEFINE kept == KeptIn(path, others)
  <1>1. kept \subseteq 1..Len(path) /\ Len(path) \in Nat
    BY DEF KeptIn
  <1>2. IsFiniteSet(1..Len(path))
    BY <1>1, FS_Interval
  <1>3. IsFiniteSet(kept)
    BY <1>1, <1>2, FS_Subset
  <1>4. Cardinality(kept) \in Nat
    BY <1>3, FS_CardinalityType
  <1>5. kept \in SUBSET Nat
    BY <1>1
  <1> HIDE DEF kept
  <1>6. ASSUME NEW n \in 1..Cardinality(kept)
        PROVE  Nth(kept, n) \in kept
    <2>1. n - 1 \in Nat /\ n - 1 < Cardinality(kept)
      BY <1>4
    <2>2. \E k \in kept : Cardinality({j \in kept : j < k}) = n - 1
      BY <1>3, <1>5, <2>1, NthOf
    <2> QED BY <2>2 DEF Nth
  <1> QED BY <1>1, <1>4, <1>6 DEF kept

LEMMA SegmentsButIs ==
  ASSUME NEW S, NEW path \in Seq(S), NEW others
  PROVE  /\ SegmentsBut(path, others) \in Seq(S)
         /\ \A n \in DOMAIN SegmentsBut(path, others) : SegmentsBut(path, others)[n] \notin others
  <1> DEFINE kept == KeptIn(path, others)
  <1>1. /\ Cardinality(kept) \in Nat /\ kept \subseteq 1..Len(path)
        /\ \A n \in 1..Cardinality(kept) : Nth(kept, n) \in kept
    BY KeptPositions
  <1>2. SegmentsBut(path, others) = [n \in 1..Cardinality(kept) |-> path[Nth(kept, n)]]
    BY DEF SegmentsBut, Picked
  <1>3. \A k \in kept : path[k] \in S /\ path[k] \notin others
    BY <1>1 DEF KeptIn
  <1> HIDE DEF kept
  <1> DEFINE got == [n \in 1..Cardinality(kept) |-> path[Nth(kept, n)]]
  <1>4. got \in [1..Cardinality(kept) -> S] /\ \A n \in DOMAIN got : got[n] \notin others
    BY <1>1, <1>3
  <1> HIDE DEF got
  <1>5. got \in Seq(S)
    BY <1>1, <1>4
  <1> QED BY <1>2, <1>4, <1>5 DEF got

\* A path without any of the others is its own.
LEMMA SegmentsAll ==
  ASSUME NEW S, NEW path \in Seq(S), NEW others, \A k \in DOMAIN path : path[k] \notin others
  PROVE  SegmentsBut(path, others) = path
  <1> DEFINE kept == KeptIn(path, others)
  <1>1. kept = 1..Len(path) /\ Len(path) \in Nat
    BY DEF KeptIn
  <1>2. Cardinality(kept) = Len(path)
    BY <1>1, FS_Interval
  <1>3. ASSUME NEW k \in 1..Len(path) PROVE Cardinality({j \in kept : j < k}) = k - 1
    <2>1. {j \in 1..Len(path) : j < k} = 1..(k - 1)
      BY <1>1
    <2>2. Cardinality(1..(k - 1)) = k - 1
      <3>1. 1 \in Int /\ k - 1 \in Int /\ ~ (1 > k - 1 + 1)
        BY <1>1
      <3> QED BY <3>1, FS_Interval
    <2> QED BY <1>1, <2>1, <2>2
  <1> HIDE DEF kept
  <1>4. ASSUME NEW n \in 1..Len(path) PROVE Nth(kept, n) = n
    <2>1. \E k \in kept : Cardinality({j \in kept : j < k}) = n - 1
      BY <1>1, <1>3
    <2>2. Nth(kept, n) \in kept /\ Cardinality({j \in kept : j < Nth(kept, n)}) = n - 1
      BY <2>1 DEF Nth
    <2>3. Nth(kept, n) \in 1..Len(path)
      BY <1>1, <2>2
    <2>4. Cardinality({j \in kept : j < Nth(kept, n)}) = Nth(kept, n) - 1
      BY <1>3, <2>3
    <2> QED BY <1>1, <2>2, <2>3, <2>4
  <1>5. SegmentsBut(path, others) = [n \in 1..Cardinality(kept) |-> path[Nth(kept, n)]]
    BY DEF SegmentsBut, Picked, kept
  <1>6. SegmentsBut(path, others) = [n \in 1..Len(path) |-> path[n]]
    BY <1>2, <1>4, <1>5
  <1> QED BY <1>6

\* Two paths that differ only in what is among the others keep the same.
LEMMA SegmentsSame ==
  ASSUME NEW S, NEW path \in Seq(S), NEW other \in Seq(S), NEW others, Len(path) = Len(other),
         \A k \in DOMAIN path : path[k] = other[k] \/ (path[k] \in others /\ other[k] \in others)
  PROVE  SegmentsBut(path, others) = SegmentsBut(other, others)
  <1>1. KeptIn(path, others) = KeptIn(other, others)
    BY DEF KeptIn
  <1>2. \A n \in 1..Cardinality(KeptIn(path, others)) : Nth(KeptIn(path, others), n) \in KeptIn(path, others)
    BY KeptPositions
  <1>3. \A k \in KeptIn(path, others) : path[k] = other[k]
    BY DEF KeptIn
  <1> QED BY <1>1, <1>2, <1>3 DEF SegmentsBut, Picked

-----------------------------------------------------------------------------
(* Paths and the schema *)

LEMMA NamesOfNames ==
  ASSUME NEW p \in Seq(STRING), \A k \in DOMAIN p : ~ Collection(p[k])
  PROVE  NamesOf(p) = p
  BY SegmentsAll DEF NamesOf, Collection

\* Where an output may have a value.
Fits(p) ==
    /\ p \in Seq(STRING) /\ p # <<>> /\ "*" \notin Range(p) /\ ~ Stray(p)
    /\ NamesOf(p) \in DOMAIN Schema
    /\ Collection(Last(p)) => IsBlock(p)

LEMMA SchemaFits ==
  ASSUME NEW p \in DOMAIN Schema
  PROVE  Fits(p) /\ NamesOf(p) = p
  <1>1. p \in Seq(STRING) /\ p # <<>> /\ \A k \in DOMAIN p : ~ Collection(p[k])
    BY SchemaAssumption
  <1>2. NamesOf(p) = p
    BY <1>1, NamesOfNames
  <1>3. "*" \notin Range(p) /\ ~ Stray(p)
    BY <1>1 DEF Range, Stray, Collection
  <1>4. Len(p) \in DOMAIN p
    BY <1>1
  <1> QED BY <1>1, <1>2, <1>3, <1>4 DEF Fits, Last

LEMMA StatePathsFit ==
  ASSUME NEW state, StateFits(state), NEW p \in DOMAIN state
  PROVE  Fits(p)
  BY DEF StateFits, Fits

\* A selector has the names of what it matches, and positions where it has.
LEMMA SelectedNames ==
  ASSUME NEW s \in Seq(STRING), NEW q \in Seq(STRING), SelectorMatches(s, q)
  PROVE  /\ Len(s) = Len(q) /\ \A k \in DOMAIN q : Collection(s[k]) <=> Collection(q[k])
         /\ NamesOf(s) = NamesOf(q)
  <1>1. Len(s) = Len(q) /\ \A k \in DOMAIN q : s[k] = q[k] \/ (s[k] = "*" /\ q[k] \in Indices)
    BY DEF SelectorMatches
  <1>2. \A k \in DOMAIN s : s[k] = q[k] \/ (s[k] \in {"*"} \cup Indices /\ q[k] \in {"*"} \cup Indices)
    BY <1>1
  <1>3. NamesOf(s) = NamesOf(q)
    BY <1>1, <1>2, SegmentsSame DEF NamesOf
  <1> QED BY <1>1, <1>3 DEF Collection

LEMMA SelectedWithoutPositions ==
  ASSUME NEW s \in Seq(STRING), NEW q \in Seq(STRING), "*" \notin Range(q),
         SelectorMatches(s, WithoutIndices(q))
  PROVE  NamesOf(s) = NamesOf(q)
  <1>1. WithoutIndices(q) = NamesOf(q)
    <2>1. KeptIn(q, Indices) = KeptIn(q, {"*"} \cup Indices)
      BY DEF KeptIn, Range
    <2> QED BY <2>1 DEF WithoutIndices, NamesOf, SegmentsBut
  <1> DEFINE names == NamesOf(q)
  <1>2. names \in Seq(STRING) /\ \A k \in DOMAIN names : names[k] \notin {"*"} \cup Indices
    BY SegmentsButIs DEF NamesOf
  <1> HIDE DEF names
  <1>3. SelectorMatches(s, names)
    BY <1>1 DEF names
  <1>4. NamesOf(s) = NamesOf(names)
    BY <1>2, <1>3, SelectedNames
  <1>5. NamesOf(names) = names
    BY <1>2, NamesOfNames DEF Collection
  <1> QED BY <1>4, <1>5 DEF names

\* What may be written is in the schema.
LEMMA WritableIsInput ==
  ASSUME NEW p, NEW requiredness \in BOOLEAN, Writable(ProviderSchemaStatus(p, requiredness))
  PROVE  /\ NamesOf(p) \in DOMAIN Schema
         /\ ~ requiredness => Schema[NamesOf(p)].kind = "attribute"
  BY DEF Writable, ProviderSchemaStatus

LEMMA PositionlessNames ==
  ASSUME NEW p \in Seq(STRING), Positionless(p)
  PROVE  NamesOf(p) = p
  <1>1. \A k \in DOMAIN p : ~ Collection(p[k])
    BY DEF Positionless, HasWildcard, HasExactIndex, Range, Collection
  <1> QED BY <1>1, NamesOfNames

\* A required leaf has the status "required", whatever selector of it is asked.
LEMMA RequiredStatus ==
  ASSUME NEW s \in Seq(STRING), NEW q, Fits(q), SelectorMatches(s, q), ~ IsBlock(q), NodeAt(q).class = "required"
  PROVE  ProviderSchemaStatus(s, FALSE) = "required"
  <1> DEFINE names == NamesOf(q)
  <1>1. q \in Seq(STRING) /\ q # <<>> /\ ~ Stray(q) /\ names \in DOMAIN Schema /\ ~ Collection(Last(q))
    BY DEF Fits
  <1>2. /\ Len(s) = Len(q) /\ \A k \in DOMAIN q : Collection(s[k]) <=> Collection(q[k])
        /\ NamesOf(s) = names
    BY <1>1, SelectedNames
  <1>3. ~ Stray(s)
    <2>1. DOMAIN s = DOMAIN q /\ \A k \in DOMAIN q : k = 1 \/ k - 1 \in DOMAIN q
      BY <1>1, <1>2
    <2> QED BY <1>1, <1>2, <2>1 DEF Stray
  <1>4. ~ Collection(Last(s))
    <2>1. Len(q) \in DOMAIN q
      BY <1>1
    <2> QED BY <1>1, <1>2, <2>1 DEF Last
  <1>5. Schema[names].class = "required" /\ Schema[names].kind = "attribute"
    BY DEF NodeAt, IsBlock
  <1> HIDE DEF names
  <1>6. names \in Seq(STRING) /\ Len(names) \in Nat
    BY <1>1, SchemaAssumption
  <1>7. ASSUME NEW n \in 1..Len(names) PROVE Schema[SubSeq(names, 1, n)].class # "computed"
    <2>1. CASE n = Len(names)
      <3>1. SubSeq(names, 1, n) = names
        BY <1>6, <2>1
      <3> QED BY <1>5, <3>1
    <2>2. CASE n \in 1..(Len(names) - 1)
      BY <1>1, <1>5, <2>2, SchemaAssumption
    <2> QED BY <1>6, <2>1, <2>2
  <1> QED BY <1>1, <1>2, <1>3, <1>4, <1>5, <1>7 DEF ProviderSchemaStatus

-----------------------------------------------------------------------------
(* What the projection makes, and each step keeps *)

\* A leaf holds no secret.
LeafIsOpen(p, from, mask) ==
    IF from = <<"raw">> THEN ~ NodeAt(p).sensitive
    ELSE ~ MaskedAt(mask, from) /\ ~ (NodeAt(from).class = "computed" /\ NodeAt(from).sensitive)
Unomitted(from, state, omits) ==
    from \in DOMAIN state /\ NodeAt(from).class # "computed" => OmittedBy(omits, from) = {}

SoundOutput(output, state, mask, omits) ==
    /\ \A p \in DOMAIN output : Fits(p)
    /\ ObjectIsSafe(output, state, mask, omits)

LEMMA SoundParts ==
  ASSUME NEW output, NEW state, NEW mask, NEW omits
  PROVE  SoundOutput(output, state, mask, omits) <=>
            /\ \A p \in DOMAIN output : /\ Fits(p)
                                        /\ ~ IsBlock(p) => LeafIsOpen(p, output[p].from, mask)
                                        /\ Unomitted(output[p].from, state, omits)
            /\ RequiredAreKept(output, state, omits)
  BY DEF SoundOutput, ObjectIsSafe, NoSecretIsWritten, OmittedStayOut, LeafIsOpen, Unomitted

\* A path's prefixes are its front's and itself.
LEMMA PrefixesOfFront ==
  ASSUME NEW p \in Seq(STRING), p # <<>>
  PROVE  Prefixes(p) = Prefixes(Front(p)) \cup {p}
  <1>1. Len(p) \in Nat /\ Len(p) # 0 /\ Len(Front(p)) = Len(p) - 1 /\ SubSeq(p, 1, Len(p)) = p
    <2>1. Len(p) \in Nat /\ Len(p) # 0
      OBVIOUS
    <2>2. Len(SubSeq(p, 1, Len(p) - 1)) = Len(p) - 1
      <3>1. 1 \in Int /\ Len(p) - 1 \in Int /\ \A i \in 1..(Len(p) - 1) : p[i] \in STRING
        BY <2>1
      <3>2. Len(SubSeq(p, 1, Len(p) - 1)) = IF 1 <= Len(p) - 1 THEN (Len(p) - 1) - 1 + 1 ELSE 0
        BY <3>1, SubSeqProperties
      <3> DEFINE whole == Len(p)
                 part == Len(SubSeq(p, 1, Len(p) - 1))
      <3>3. whole \in Nat /\ whole # 0 /\ part = IF 1 <= whole - 1 THEN (whole - 1) - 1 + 1 ELSE 0
        BY <2>1, <3>2
      <3> HIDE DEF whole, part
      <3>4. part = whole - 1
        BY <3>3
      <3> QED BY <3>4 DEF whole, part
    <2>3. SubSeq(p, 1, Len(p)) = p
      OBVIOUS
    <2> QED BY <2>1, <2>2, <2>3 DEF Front
  <1>2. ASSUME NEW l \in 0..(Len(p) - 1) PROVE SubSeq(p, 1, l) = SubSeq(Front(p), 1, l)
    BY <1>1 DEF Front
  <1>3. 0..Len(p) = (0..(Len(p) - 1)) \cup {Len(p)}
    BY <1>1
  <1>4. Prefixes(p) = {SubSeq(p, 1, l) : l \in 0..(Len(p) - 1)} \cup {SubSeq(p, 1, Len(p))}
    BY <1>3 DEF Prefixes
  <1>5. {SubSeq(p, 1, l) : l \in 0..(Len(p) - 1)} = {SubSeq(Front(p), 1, l) : l \in 0..(Len(p) - 1)}
    BY <1>2
  <1> QED BY <1>1, <1>4, <1>5 DEF Prefixes

LEMMA ProjectedIsSound ==
  ASSUME NEW state, StateFits(state), NEW mask, NEW omits, ~ ProjectionRefused(state, mask, omits)
  PROVE  SoundOutput(ProjectProviderBlock(state, omits), state, mask, omits)
  <1> DEFINE output == ProjectProviderBlock(state, omits)
             entered == Instances(state, omits)
  <1>1. /\ DOMAIN output = {p \in DOMAIN state :
                IF Collection(Last(p)) THEN p \in entered
                ELSE /\ Front(p) \in entered /\ NodeAt(p).class # "computed"
                     /\ OmitMatch(omits, p) = 0 /\ PresentIn(state, p)}
        /\ \A p \in DOMAIN output : output[p] = state[p]
    BY DEF ProjectProviderBlock
  <1> HIDE DEF output
  <1>2. ASSUME NEW p \in DOMAIN output
        PROVE  /\ Fits(p) /\ output[p].from = p
               /\ ~ IsBlock(p) => LeafIsOpen(p, p, mask)
               /\ Unomitted(p, state, omits)
    <2>1. p \in DOMAIN state /\ Fits(p) /\ output[p].from = p /\ p # <<"raw">>
      BY <1>1, StatePathsFit DEF StateFits
    <2>2. CASE Collection(Last(p))
      <3>1. p \in entered /\ p # <<>>
        BY <1>1, <2>1, <2>2 DEF Fits
      <3>2. OmittedBy(omits, p) = {} /\ IsBlock(p)
        BY <3>1 DEF Instances
      <3> QED BY <2>1, <3>2 DEF Unomitted
    <2>3. CASE ~ Collection(Last(p))
      <3>1. /\ Front(p) \in entered /\ NodeAt(p).class # "computed"
            /\ OmitMatch(omits, p) = 0 /\ p \in ChildrenOf(Front(p))
        BY <1>1, <2>1, <2>3 DEF StateFits
      <3>2. p \in InputsOf(Front(p))
        BY <3>1 DEF InputsOf
      <3>3. ~ IsBlock(p) => ~ MaskedAt(mask, p)
        BY <3>1, <3>2 DEF ProjectionRefused
      <3>4. OmittedBy(omits, p) = {}
        <4>1. OmittedBy(omits, Front(p)) = {}
          <5>1. CASE Front(p) = <<>>
            <6>1. Prefixes(<<>>) \ {<<>>} = {}
              <7>1. ASSUME NEW l \in 0..Len(<<>>) PROVE SubSeq(<<>>, 1, l) = <<>>
                <8>1. l = 0
                  OBVIOUS
                <8> QED BY <8>1
              <7> QED BY <7>1 DEF Prefixes
            <6> QED BY <5>1, <6>1 DEF OmittedBy
          <5>2. CASE Front(p) # <<>>
            BY <3>1, <5>2 DEF Instances
          <5> QED BY <5>1, <5>2
        <4>2. Prefixes(p) = Prefixes(Front(p)) \cup {p}
          BY <2>1, PrefixesOfFront DEF Fits
        <4> QED BY <3>1, <4>1, <4>2 DEF OmittedBy
      <3> QED BY <2>1, <3>1, <3>3, <3>4 DEF LeafIsOpen, Unomitted
    <2> QED BY <2>2, <2>3
  <1>3. ASSUME NEW i \in entered, NEW c \in ChildrenOf(i), NodeAt(c).class = "required"
        PROVE  c \in DOMAIN output
    <2>1. c \in InputsOf(i)
      BY <1>3 DEF InputsOf
    <2>2. OmitMatch(omits, c) = 0
      BY <1>3, <2>1 DEF ProjectionRefused
    <2>3. PresentIn(state, c)
      BY <1>3, <2>1, <2>2 DEF ProjectionRefused
    <2>4. PICK q \in DOMAIN Schema : Front(q) = NamesOf(i) /\ c = Append(i, Last(q))
      BY DEF ChildrenOf
    <2>5. c \in DOMAIN state /\ c \in Seq(STRING)
      BY <2>3 DEF PresentIn, StateFits
    <2>6. i \in Seq(STRING)
      <3>1. i = <<>> \/ i \in DOMAIN state
        BY DEF Instances
      <3>2. <<>> \in Seq(STRING)
        OBVIOUS
      <3> QED BY <3>1, <3>2 DEF StateFits
    <2>7. Last(q) \in STRING /\ ~ Collection(Last(q))
      <3>1. q \in Seq(STRING) /\ q # <<>> /\ \A k \in DOMAIN q : ~ Collection(q[k])
        BY SchemaAssumption
      <3>2. Len(q) \in DOMAIN q
        BY <3>1
      <3> QED BY <3>1, <3>2 DEF Last
    <2>8. Last(c) = Last(q) /\ Front(c) = i
      BY <2>4, <2>6, <2>7 DEF Last, Front
    <2> QED BY <1>1, <1>3, <2>2, <2>3, <2>5, <2>7, <2>8
  <1>4. RequiredAreKept(output, state, omits)
    BY <1>3 DEF RequiredAreKept
  <1> QED BY <1>2, <1>4, SoundParts DEF output

\* A value that is open and unomitted may be set at a path of the schema.
LEMMA SetIsSound ==
  ASSUME NEW output, NEW state, StateFits(state), NEW mask, NEW omits, SoundOutput(output, state, mask, omits),
         NEW path \in DOMAIN Schema, NEW value,
         ~ IsBlock(path) => LeafIsOpen(path, value.from, mask),
         Unomitted(value.from, state, omits)
  PROVE  SoundOutput(SetPath(output, path, value), state, mask, omits)
  <1> DEFINE set == SetPath(output, path, value)
             block == [says |-> "block", from |-> <<>>]
  <1>1. /\ DOMAIN set = DOMAIN output \cup (Prefixes(path) \ {<<>>})
        /\ \A p \in DOMAIN set :
              set[p] = IF p = path THEN value ELSE IF p \in DOMAIN output THEN output[p] ELSE block
    BY DEF SetPath
  <1> HIDE DEF set
  <1>2. Unomitted(<<>>, state, omits)
    BY DEF StateFits, Unomitted
  <1>3. Fits(path)
    BY SchemaFits
  <1>4. ASSUME NEW p \in Prefixes(path) \ {<<>>}, p # path
        PROVE  Fits(p) /\ IsBlock(p)
    <2>1. path \in Seq(STRING)
      BY SchemaAssumption
    <2>2. PICK l \in 0..Len(path) : p = SubSeq(path, 1, l)
      BY DEF Prefixes
    <2>3. l # 0 /\ l # Len(path)
      <3>1. SubSeq(path, 1, 0) = <<>> /\ SubSeq(path, 1, Len(path)) = path
        BY <2>1
      <3> QED BY <1>4, <2>2, <3>1
    <2>4. l \in 1..(Len(path) - 1)
      BY <2>1, <2>3
    <2>5. p \in DOMAIN Schema /\ Schema[p].kind # "attribute"
      BY <2>2, <2>4, SchemaAssumption
    <2> QED BY <2>5, SchemaFits DEF IsBlock, NodeAt
  <1>5. ASSUME NEW p \in DOMAIN set
        PROVE  /\ Fits(p)
               /\ ~ IsBlock(p) => LeafIsOpen(p, set[p].from, mask)
               /\ Unomitted(set[p].from, state, omits)
    <2>1. CASE p = path
      BY <1>1, <1>3, <2>1
    <2>2. CASE p # path /\ p \in DOMAIN output
      BY <1>1, <2>2, SoundParts
    <2>3. CASE p # path /\ p \notin DOMAIN output
      <3>1. p \in Prefixes(path) \ {<<>>} /\ set[p].from = <<>>
        BY <1>1, <2>3
      <3> QED BY <1>2, <1>4, <2>3, <3>1
    <2> QED BY <2>1, <2>2, <2>3
  <1>6. RequiredAreKept(set, state, omits)
    <2>1. RequiredAreKept(output, state, omits)
      BY SoundParts
    <2> QED BY <1>1, <2>1 DEF RequiredAreKept
  <1> QED BY <1>5, <1>6, SoundParts DEF set

\* What is not required may be removed.
LEMMA RemovedIsSound ==
  ASSUME NEW output, NEW state, NEW mask, NEW omits, SoundOutput(output, state, mask, omits),
         NEW kept \in SUBSET DOMAIN output, \A p \in DOMAIN output \ kept : NodeAt(p).class # "required"
  PROVE  SoundOutput([p \in kept |-> output[p]], state, mask, omits)
  <1> DEFINE left == [p \in kept |-> output[p]]
  <1>1. DOMAIN left = kept /\ \A p \in kept : left[p] = output[p]
    OBVIOUS
  <1> HIDE DEF left
  <1>2. ASSUME NEW p \in DOMAIN left
        PROVE  /\ Fits(p)
               /\ ~ IsBlock(p) => LeafIsOpen(p, left[p].from, mask)
               /\ Unomitted(left[p].from, state, omits)
    <2>1. p \in DOMAIN output /\ left[p] = output[p]
      BY <1>1
    <2> QED BY <2>1, SoundParts
  <1>3. RequiredAreKept(left, state, omits)
    <2>1. RequiredAreKept(output, state, omits)
      BY SoundParts
    <2> QED BY <1>1, <2>1 DEF RequiredAreKept
  <1> QED BY <1>2, <1>3, SoundParts DEF left

SoundOutcome(outcome, state, mask, omits) ==
    /\ "failed" \in DOMAIN outcome
    /\ ~ outcome.failed => SoundOutput(outcome.output, state, mask, omits)

LEMMA RefusalIsSound ==
  ASSUME NEW outcome, NEW state, NEW mask, NEW omits, "failed" \in DOMAIN outcome
  PROVE  SoundOutcome(Refuse(outcome), state, mask, omits) /\ Refuse(outcome).failed
  BY DEF SoundOutcome, Refuse

\* What the state has at a computed source that may be copied: an attribute, and no secret.
LEMMA ComputedSourceIsOpen ==
  ASSUME NEW state, StateFits(state), NEW mask, NEW source \in DOMAIN Schema,
         ComputedSyncSource(state, mask, source) = "state"
  PROVE  /\ source \in DOMAIN state /\ state[source].from = source /\ source # <<"raw">>
         /\ ~ MaskedAt(mask, source)
         /\ NodeAt(source).class = "computed" /\ ~ NodeAt(source).sensitive
  <1> DEFINE first == SubSeq(source, 1, 1)
  <1>1. source \in Seq(STRING) /\ source # <<>> /\ Len(source) \in Nat /\ Len(source) # 0
    BY SchemaAssumption
  <1>2. /\ first \in DOMAIN Schema /\ Schema[first].class = "computed" /\ ~ IsBlock(first)
        /\ ~ DeclaredSensitive(first) /\ ~ MaskedAt(mask, source) /\ source \in DOMAIN state
    BY DEF ComputedSyncSource
  <1> HIDE DEF first
  <1>3. Schema[first].kind = "attribute"
    BY <1>2, SchemaFits DEF IsBlock, NodeAt
  <1>4. first = source
    <2>1. CASE Len(source) = 1
      BY <1>1, <2>1 DEF first
    <2>2. CASE Len(source) # 1
      <3>1. 1 \in 1..(Len(source) - 1)
        BY <1>1, <2>2
      <3>2. Schema[SubSeq(source, 1, 1)].kind # "attribute"
        BY <3>1, SchemaAssumption
      <3> QED BY <1>3, <3>2 DEF first
    <2> QED BY <2>1, <2>2
  <1>5. NodeAt(source) = Schema[source]
    BY SchemaFits DEF NodeAt
  <1>6. IsPrefix(source, source)
    BY <1>1 DEF IsPrefix
  <1>7. ~ Schema[source].sensitive
    BY <1>2, <1>3, <1>4, <1>6 DEF DeclaredSensitive
  <1> QED BY <1>2, <1>4, <1>5, <1>7 DEF StateFits

\* Nothing came from the raw item yet: the syncs precede the fills.
Rawless(outcome) ==
    ~ outcome.failed => \A p \in DOMAIN outcome.output : outcome.output[p].from # <<"raw">>

LEMMA SyncIsSound ==
  ASSUME NEW state, StateFits(state), NEW mask, NEW omits, NEW outcome,
         SoundOutcome(outcome, state, mask, omits), Rawless(outcome),
         NEW e, e.path \in Seq(STRING), ValidEntry("projection_sync", e)
  PROVE  /\ SoundOutcome(SyncOne(outcome, e, state, mask), state, mask, omits)
         /\ Rawless(SyncOne(outcome, e, state, mask))
  <1> DEFINE origin == IF e.source \in DOMAIN outcome.output THEN "output" ELSE ComputedSyncSource(state, mask, e.source)
             value == SyncValue(origin, outcome.output, state, e.source)
             refused == \/ ~ Writable(ProviderSchemaStatus(e.path, FALSE))
                        \/ ~ SyncPathAllowed(e.path) \/ ~ SyncPathAllowed(e.source)
                        \/ TypeAt(e.path) # TypeAt(e.source)
             given == SetPath(outcome.output, e.path, value)
  <1>1. SyncOne(outcome, e, state, mask) =
          IF outcome.failed THEN outcome
          ELSE IF refused THEN Refuse(outcome)
          ELSE IF ~ AbsentOrEmpty(outcome.output, e.path) THEN outcome
          ELSE IF origin = "refused" THEN Refuse(outcome)
          ELSE IF value.says \in {"null", "empty"} THEN outcome
          ELSE Outcome(given, outcome.matched \cup {e})
    BY DEF SyncOne, SyncFrom
  <1>2. CASE /\ ~ outcome.failed /\ ~ refused /\ origin # "refused"
             /\ value.says \notin {"null", "empty"}
    <2>1. Positionless(e.path)
      BY DEF ValidEntry
    <2>2. e.path \in DOMAIN Schema /\ Schema[e.path].kind = "attribute"
      BY <1>2, <2>1, PositionlessNames, WritableIsInput
    <2>3. e.source \in DOMAIN Schema /\ Schema[e.source].kind = "attribute"
      BY <1>2, <2>2, SchemaAssumption DEF TypeAt
    <2>4. ~ IsBlock(e.source) /\ ~ IsBlock(e.path)
      BY <2>2, <2>3, SchemaFits DEF IsBlock, NodeAt
    <2>5. /\ LeafIsOpen(e.path, value.from, mask) /\ Unomitted(value.from, state, omits)
          /\ value.from # <<"raw">>
      <3>1. CASE e.source \in DOMAIN outcome.output
        <4>1. value = outcome.output[e.source]
          BY <3>1 DEF SyncValue
        <4>2. LeafIsOpen(e.source, value.from, mask) /\ Unomitted(value.from, state, omits)
          BY <1>2, <2>4, <3>1, <4>1, SoundParts DEF SoundOutcome
        <4>3. value.from # <<"raw">>
          BY <1>2, <3>1, <4>1 DEF Rawless
        <4> QED BY <4>2, <4>3 DEF LeafIsOpen
      <3>2. CASE e.source \notin DOMAIN outcome.output
        <4>1. origin = ComputedSyncSource(state, mask, e.source)
          BY <3>2
        <4>2. origin = "state"
          <5>1. origin \in {"refused", "state", "none"}
            BY <4>1 DEF ComputedSyncSource
          <5>2. CASE origin = "none"
            BY <1>2, <5>2 DEF SyncValue
          <5> QED BY <1>2, <5>1, <5>2
        <4>3. value = state[e.source]
          BY <4>2 DEF SyncValue
        <4> HIDE DEF value, origin
        <4>4. /\ e.source \in DOMAIN state /\ state[e.source].from = e.source /\ e.source # <<"raw">>
              /\ ~ MaskedAt(mask, e.source)
              /\ NodeAt(e.source).class = "computed" /\ ~ NodeAt(e.source).sensitive
          <5>1. ComputedSyncSource(state, mask, e.source) = "state"
            BY <4>1, <4>2
          <5> QED BY <2>3, <5>1, ComputedSourceIsOpen
        <4>5. value.from = e.source
          BY <4>3, <4>4
        <4> QED BY <4>4, <4>5 DEF LeafIsOpen, Unomitted
      <3> QED BY <3>1, <3>2
    <2> HIDE DEF value
    <2>6. SoundOutput(given, state, mask, omits)
      BY <1>2, <2>2, <2>5, SetIsSound DEF SoundOutcome
    <2>7. \A p \in DOMAIN given : given[p].from # <<"raw">>
      BY <1>2, <2>5 DEF Rawless, SetPath
    <2> HIDE DEF given, refused, origin
    <2>8. /\ SoundOutcome(Outcome(given, outcome.matched \cup {e}), state, mask, omits)
          /\ Rawless(Outcome(given, outcome.matched \cup {e}))
      BY <2>6, <2>7 DEF SoundOutcome, Rawless, Outcome
    <2>9. SyncOne(outcome, e, state, mask) \in {outcome, Outcome(given, outcome.matched \cup {e})}
      BY <1>1, <1>2
    <2> QED BY <2>8, <2>9
  <1> HIDE DEF value, origin, refused, given
  <1>3. CASE SyncOne(outcome, e, state, mask) \in {outcome, Refuse(outcome)}
    <2>1. CASE SyncOne(outcome, e, state, mask) = outcome
      BY <2>1
    <2>2. CASE SyncOne(outcome, e, state, mask) = Refuse(outcome)
      BY <2>2, RefusalIsSound DEF SoundOutcome, Rawless
    <2> QED BY <1>3, <2>1, <2>2
  <1> QED BY <1>1, <1>2, <1>3

LEMMA FillIsSound ==
  ASSUME NEW state, StateFits(state), NEW mask, NEW omits, NEW outcome,
         SoundOutcome(outcome, state, mask, omits), NEW raw, RawFits(raw),
         NEW e, e.path \in Seq(STRING), ValidEntry("projection_fill", e)
  PROVE  SoundOutcome(FillOne(outcome, e, raw), state, mask, omits)
  <1> DEFINE value == ProjectionFillValue(e, raw)
             given == SetPath(outcome.output, e.path, value)
  <1>1. FillOne(outcome, e, raw) =
          IF outcome.failed THEN outcome
          ELSE IF raw = Null THEN Refuse(outcome)
          ELSE IF e.path \in DOMAIN outcome.output THEN outcome
          ELSE IF FillRefused(e) THEN Refuse(outcome)
          ELSE IF value = Null THEN outcome
          ELSE Outcome(given, outcome.matched \cup {e})
    BY DEF FillOne
  <1>2. CASE ~ outcome.failed /\ raw # Null /\ ~ FillRefused(e) /\ value # Null
    <2>1. Positionless(e.path)
      BY DEF ValidEntry
    <2>2. e.path \in DOMAIN Schema
      BY <1>2, <2>1, PositionlessNames, WritableIsInput DEF FillRefused
    <2>3. value.from = <<"raw">>
      <3>1. e.source \in DOMAIN raw /\ value = raw[e.source]
        BY <1>2 DEF ProjectionFillValue
      <3> QED BY <1>2, <3>1 DEF RawFits
    <2>4. ~ IsBlock(e.path) => LeafIsOpen(e.path, value.from, mask)
      <3>1. NodeAt(e.path) = Schema[e.path] /\ e.path \in Seq(STRING)
        BY <2>2, SchemaFits DEF NodeAt
      <3>2. IsPrefix(e.path, e.path)
        BY <3>1 DEF IsPrefix
      <3>3. ~ DeclaredSensitive(e.path)
        BY <1>2 DEF FillRefused
      <3>4. Schema[e.path].kind = "attribute" => ~ Schema[e.path].sensitive
        BY <2>2, <3>2, <3>3 DEF DeclaredSensitive
      <3> QED BY <2>3, <3>1, <3>4 DEF LeafIsOpen, IsBlock
    <2>5. Unomitted(value.from, state, omits)
      BY <2>3 DEF Unomitted, StateFits
    <2> HIDE DEF value
    <2>6. SoundOutput(given, state, mask, omits)
      BY <1>2, <2>2, <2>4, <2>5, SetIsSound DEF SoundOutcome
    <2> HIDE DEF given
    <2>7. SoundOutcome(Outcome(given, outcome.matched \cup {e}), state, mask, omits)
      BY <2>6 DEF SoundOutcome, Outcome
    <2>8. FillOne(outcome, e, raw) \in {outcome, Outcome(given, outcome.matched \cup {e})}
      BY <1>1, <1>2
    <2> QED BY <2>7, <2>8
  <1> HIDE DEF value, given
  <1>3. CASE FillOne(outcome, e, raw) = outcome
    BY <1>3
  <1>4. CASE FillOne(outcome, e, raw) = Refuse(outcome)
    BY <1>4, RefusalIsSound DEF SoundOutcome
  <1> QED BY <1>1, <1>2, <1>3, <1>4

\* The leaves that a default or a condition removes are not required.
LEMMA WithoutLeavesIsSound ==
  ASSUME NEW state, NEW mask, NEW omits, NEW output, SoundOutput(output, state, mask, omits),
         NEW selector, NEW values, NEW anyPosition,
         \A q \in DOMAIN output :
            /\ Fits(q) /\ ~ IsBlock(q)
            /\ SelectorMatches(selector, IF anyPosition THEN WithoutIndices(q) ELSE q)
            => NodeAt(q).class # "required"
  PROVE  SoundOutput(WithoutLeaves(output, selector, values, anyPosition), state, mask, omits)
  <1> DEFINE goes(q) == /\ ~ IsBlock(q) /\ output[q].says \in values
                        /\ SelectorMatches(selector, IF anyPosition THEN WithoutIndices(q) ELSE q)
             kept == {q \in DOMAIN output : ~ goes(q)}
  <1>1. WithoutLeaves(output, selector, values, anyPosition) = [p \in kept |-> output[p]]
    BY DEF WithoutLeaves
  <1>2. \A q \in DOMAIN output \ kept : NodeAt(q).class # "required"
    BY SoundParts
  <1> HIDE DEF kept
  <1>3. kept \in SUBSET DOMAIN output
    BY DEF kept
  <1> QED BY <1>1, <1>2, <1>3, RemovedIsSound

LEMMA DropIsSound ==
  ASSUME NEW state, NEW mask, NEW omits, NEW outcome, SoundOutcome(outcome, state, mask, omits),
         NEW d, d.path \in Seq(STRING)
  PROVE  SoundOutcome(DropOne(outcome, d), state, mask, omits)
  <1>1. CASE outcome.failed
    BY <1>1 DEF DropOne
  <1>2. CASE ~ outcome.failed /\ ProviderSchemaStatus(d.path, FALSE) # "optional"
    BY <1>2, RefusalIsSound DEF DropOne, SoundOutcome
  <1>3. CASE ~ outcome.failed /\ ProviderSchemaStatus(d.path, FALSE) = "optional"
    <2> DEFINE left == WithoutLeaves(outcome.output, d.path, d.values, TRUE)
    <2>1. ASSUME NEW q \in DOMAIN outcome.output, Fits(q), ~ IsBlock(q), SelectorMatches(d.path, WithoutIndices(q))
          PROVE  NodeAt(q).class # "required"
      <3>1. NamesOf(d.path) = NamesOf(q)
        BY <2>1, SelectedWithoutPositions DEF Fits
      <3>2. Schema[NamesOf(d.path)].class = "optional"
        BY <1>3 DEF ProviderSchemaStatus
      <3> QED BY <3>1, <3>2 DEF NodeAt
    <2>2. SoundOutput(left, state, mask, omits)
      BY <1>3, <2>1, WithoutLeavesIsSound DEF SoundOutcome
    <2>3. DropOne(outcome, d) = [outcome EXCEPT !.output = left]
      BY <1>3 DEF DropOne
    <2> HIDE DEF left
    <2> QED BY <1>3, <2>2, <2>3 DEF SoundOutcome
  <1> QED BY <1>1, <1>2, <1>3

LEMMA OmitIfIsSound ==
  ASSUME NEW state, NEW mask, NEW omits, NEW outcome, SoundOutcome(outcome, state, mask, omits),
         NEW e, e.path \in Seq(STRING)
  PROVE  SoundOutcome(OmitIfOne(outcome, e), state, mask, omits)
  <1>1. CASE outcome.failed
    BY <1>1 DEF OmitIfOne
  <1>2. CASE ~ outcome.failed /\ ProviderSchemaStatus(e.path, FALSE) = "required"
    BY <1>2, RefusalIsSound DEF OmitIfOne, SoundOutcome
  <1>3. CASE ~ outcome.failed /\ ProviderSchemaStatus(e.path, FALSE) # "required"
    <2> DEFINE left == WithoutLeaves(outcome.output, e.path, e.values, FALSE)
    <2>1. ASSUME NEW q \in DOMAIN outcome.output, Fits(q), ~ IsBlock(q), SelectorMatches(e.path, q)
          PROVE  NodeAt(q).class # "required"
      BY <1>3, <2>1, RequiredStatus
    <2>2. SoundOutput(left, state, mask, omits)
      BY <1>3, <2>1, WithoutLeavesIsSound DEF SoundOutcome
    <2>3. OmitIfOne(outcome, e) = LeavingOut(outcome, e, left)
      BY <1>3 DEF OmitIfOne
    <2> HIDE DEF left
    <2> QED BY <2>2, <2>3 DEF SoundOutcome, LeavingOut, Outcome
  <1> QED BY <1>1, <1>2, <1>3

\* The outcomes between the entries of a mode.
Taken(after, mode, outcome, entries, state, mask, raw) ==
    /\ after[0] = outcome
    /\ \A n \in 1..Len(entries) : after[n] = PolicyStep(mode, after[n - 1], entries[n], state, mask, raw)
    /\ AfterEach(mode, outcome, entries, state, mask, raw) = after[Len(entries)]

LEMMA EachIsTaken ==
  ASSUME NEW mode, NEW outcome, NEW entries, Len(entries) \in Nat, NEW state, NEW mask, NEW raw
  PROVE  \E after : Taken(after, mode, outcome, entries, state, mask, raw)
  <1> DEFINE Step(n, o) == PolicyStep(mode, o, entries[n], state, mask, raw)
             Upto(h, m) == h = [n \in 0..m |-> IF n = 0 THEN outcome ELSE Step(n, h[n - 1])]
             T == {m \in Nat : \E h : Upto(h, m)}
             last == Len(entries)
             taken == CHOOSE h : Upto(h, last)
  <1>1. last \in Nat
    OBVIOUS
  <1>2. AfterEach(mode, outcome, entries, state, mask, raw) = taken[last]
    BY DEF AfterEach
  <1> HIDE DEF Step, last, taken
  <1>3. 0 \in T
    <2> DEFINE h == [n \in 0..0 |-> outcome]
    <2>1. Upto(h, 0)
      BY \A n \in 0..0 : n = 0
    <2> QED BY <2>1
  <1>4. ASSUME NEW m \in T PROVE m + 1 \in T
    <2>1. PICK h : Upto(h, m)
      OBVIOUS
    <2>2. m \in Nat
      OBVIOUS
    <2> DEFINE g == [n \in 0..(m + 1) |-> IF n <= m THEN h[n] ELSE Step(m + 1, h[m])]
    <2>3. DOMAIN h = 0..m /\ \A n \in 0..m : h[n] = IF n = 0 THEN outcome ELSE Step(n, h[n - 1])
      BY <2>1
    <2>4. DOMAIN g = 0..(m + 1) /\ \A n \in 0..(m + 1) : g[n] = IF n <= m THEN h[n] ELSE Step(m + 1, h[m])
      OBVIOUS
    <2>5. ASSUME NEW n \in 0..(m + 1) PROVE g[n] = IF n = 0 THEN outcome ELSE Step(n, g[n - 1])
      <3> HIDE DEF g
      <3>1. CASE n = 0
        BY <2>2, <2>3, <2>4, <3>1
      <3>2. CASE n \in 1..m
        <4>1. n \in 0..m /\ n # 0 /\ n <= m /\ n - 1 \in 0..(m + 1) /\ n - 1 <= m
          BY <2>2, <3>2
        <4> QED BY <2>3, <2>4, <4>1
      <3>3. CASE n = m + 1
        <4>1. m \in 0..(m + 1) /\ m <= m /\ ~ (n <= m) /\ n - 1 = m /\ n # 0
          BY <2>2, <3>3
        <4> QED BY <2>4, <3>3, <4>1
      <3> QED BY <2>2, <3>1, <3>2, <3>3
    <2>6. g = [n \in 0..(m + 1) |-> IF n = 0 THEN outcome ELSE Step(n, g[n - 1])]
      <3>1. g = [n \in 0..(m + 1) |-> g[n]]
        OBVIOUS
      <3> HIDE DEF g
      <3> QED BY <2>5, <3>1
    <2>7. Upto(g, m + 1)
      BY <2>6
    <2> HIDE DEF g, Upto
    <2> QED BY <2>2, <2>7
  <1> HIDE DEF T
  <1>5. T \in SUBSET Nat
    BY DEF T
  <1>6. T = Nat
    BY <1>3, <1>4, <1>5, EveryNumber
  <1>7. \E h : Upto(h, last)
    BY <1>1, <1>6 DEF T
  <1> HIDE DEF Upto
  <1>8. Upto(taken, last)
    BY <1>7 DEF taken
  <1>9. /\ taken[0] = outcome
        /\ \A n \in 1..last : taken[n] = Step(n, taken[n - 1])
    BY <1>1, <1>8 DEF Upto
  <1> QED BY <1>2, <1>9 DEF Step, last, Taken

LEMMA StepIsSound ==
  ASSUME NEW state, StateFits(state), NEW mask, NEW omits, NEW outcome,
         SoundOutcome(outcome, state, mask, omits), NEW raw, RawFits(raw),
         NEW mode \in {"projection_sync", "projection_fill", "pack_drop_if_default", "projection_omit_if"},
         mode = "projection_sync" => Rawless(outcome), NEW e, e.path \in Seq(STRING),
         mode \in PolicyModes => ValidEntry(mode, e)
  PROVE  /\ SoundOutcome(PolicyStep(mode, outcome, e, state, mask, raw), state, mask, omits)
         /\ mode = "projection_sync" => Rawless(PolicyStep(mode, outcome, e, state, mask, raw))
  <1>1. CASE mode = "projection_sync"
    <2>1. ValidEntry("projection_sync", e)
      BY <1>1 DEF PolicyModes
    <2> QED BY <1>1, <2>1, SyncIsSound DEF PolicyStep
  <1>2. CASE mode = "projection_fill"
    <2>1. ValidEntry("projection_fill", e)
      BY <1>2 DEF PolicyModes
    <2> QED BY <1>2, <2>1, FillIsSound DEF PolicyStep
  <1>3. CASE mode = "pack_drop_if_default"
    BY <1>3, DropIsSound DEF PolicyStep
  <1>4. CASE mode = "projection_omit_if"
    BY <1>4, OmitIfIsSound DEF PolicyStep
  <1> QED BY <1>1, <1>2, <1>3, <1>4

LEMMA EachIsSound ==
  ASSUME NEW state, StateFits(state), NEW mask, NEW omits, NEW outcome,
         SoundOutcome(outcome, state, mask, omits), NEW raw, RawFits(raw),
         NEW mode \in {"projection_sync", "projection_fill", "pack_drop_if_default", "projection_omit_if"},
         mode = "projection_sync" => Rawless(outcome), NEW entries, EntriesFit(entries),
         mode \in PolicyModes => \A i \in DOMAIN entries : ValidEntry(mode, entries[i])
  PROVE  SoundOutcome(AfterEach(mode, outcome, entries, state, mask, raw), state, mask, omits)
  <1>1. /\ entries \in Seq(Range(entries)) /\ Len(entries) \in Nat
        /\ \A n \in 1..Len(entries) : n \in DOMAIN entries /\ entries[n].path \in Seq(STRING)
    BY DEF EntriesFit
  <1>2. PICK after : Taken(after, mode, outcome, entries, state, mask, raw)
    BY <1>1, EachIsTaken
  <1>t. /\ after[0] = outcome
        /\ \A n \in 1..Len(entries) : after[n] = PolicyStep(mode, after[n - 1], entries[n], state, mask, raw)
        /\ AfterEach(mode, outcome, entries, state, mask, raw) = after[Len(entries)]
    BY <1>2 DEF Taken
  <1> DEFINE Good(o) == SoundOutcome(o, state, mask, omits) /\ (mode = "projection_sync" => Rawless(o))
             T == {n \in Nat : n <= Len(entries) => Good(after[n])}
  <1>3. 0 \in T
    BY <1>t
  <1>4. ASSUME NEW n \in T PROVE n + 1 \in T
    <2>1. ASSUME n + 1 <= Len(entries) PROVE Good(after[n + 1])
      <3>1. n \in Nat /\ n <= Len(entries) /\ n + 1 \in 1..Len(entries) /\ (n + 1) - 1 = n
        BY <1>1, <2>1
      <3>2. Good(after[n])
        BY <3>1
      <3>3. after[n + 1] = PolicyStep(mode, after[n], entries[n + 1], state, mask, raw)
        BY <1>t, <3>1
      <3>4. entries[n + 1].path \in Seq(STRING) /\ (mode \in PolicyModes => ValidEntry(mode, entries[n + 1]))
        BY <1>1, <3>1
      <3> QED BY <3>2, <3>3, <3>4, StepIsSound
    <2> HIDE DEF Good
    <2> QED BY <2>1
  <1> HIDE DEF T
  <1>5. T \in SUBSET Nat
    BY DEF T
  <1>6. T = Nat
    BY <1>3, <1>4, <1>5, EveryNumber
  <1>7. Good(after[Len(entries)])
    BY <1>1, <1>6 DEF T
  <1> QED BY <1>t, <1>7

\* Whatever the policy, the object that a state is projected into holds no value that the
\* state masks or the schema declares secret, nothing that an entry omits, also not by way of
\* a sync, and everything that the schema requires of each block that it enters; else the
\* projection is refused (ProjectProviderState).
THEOREM ProjectedObjectsAreSafe ==
  ASSUME NEW state, StateFits(state), NEW mask, NEW raw, RawFits(raw),
         NEW policy, ValidPolicy(policy), \A m \in PolicyModes : EntriesFit(policy[m]),
         NEW defaults, EntriesFit(defaults),
         ~ ProjectProviderState(state, mask, policy, raw, defaults).failed
  PROVE  ObjectIsSafe(ProjectProviderState(state, mask, policy, raw, defaults).output,
                      state, mask, policy["projection_omit"])
  <1> DEFINE omits == policy["projection_omit"]
             first == Outcome(ProjectProviderBlock(state, omits), OmitsUsed(state, omits))
             synced == AfterEach("projection_sync", first, policy["projection_sync"], state, mask, raw)
             filled == AfterEach("projection_fill", synced, policy["projection_fill"], state, mask, raw)
             dropped == AfterEach("pack_drop_if_default", filled, defaults, state, mask, raw)
             last == AfterEach("projection_omit_if", dropped, policy["projection_omit_if"], state, mask, raw)
  <1>1. ~ ProjectionRefused(state, mask, omits) /\ ProjectProviderState(state, mask, policy, raw, defaults) = last
    <2>1. Refuse(Outcome(<<>>, {})).failed
      BY DEF Refuse, Outcome
    <2> QED BY <2>1 DEF ProjectProviderState, AfterPolicy
  <1>2. /\ PolicyModes = {"projection_omit", "projection_sync", "projection_fill", "projection_omit_if", "plan_tolerate"}
        /\ "pack_drop_if_default" \notin PolicyModes
    BY DEF PolicyModes
  <1>3. \A m \in PolicyModes : \A i \in DOMAIN policy[m] : ValidEntry(m, policy[m][i])
    BY DEF ValidPolicy
  <1>4. SoundOutcome(first, state, mask, omits) /\ Rawless(first)
    <2>1. SoundOutput(ProjectProviderBlock(state, omits), state, mask, omits)
      BY <1>1, ProjectedIsSound
    <2>2. \A p \in DOMAIN ProjectProviderBlock(state, omits) : ProjectProviderBlock(state, omits)[p].from # <<"raw">>
      BY DEF ProjectProviderBlock, StateFits
    <2> QED BY <2>1, <2>2 DEF SoundOutcome, Rawless, Outcome
  <1> HIDE DEF omits, first
  <1>5. SoundOutcome(synced, state, mask, omits)
    BY <1>2, <1>3, <1>4, EachIsSound
  <1> HIDE DEF synced
  <1>6. SoundOutcome(filled, state, mask, omits)
    BY <1>2, <1>3, <1>5, EachIsSound
  <1> HIDE DEF filled
  <1>7. SoundOutcome(dropped, state, mask, omits)
    BY <1>2, <1>6, EachIsSound
  <1> HIDE DEF dropped
  <1>8. SoundOutcome(last, state, mask, omits)
    BY <1>2, <1>3, <1>7, EachIsSound
  <1> QED BY <1>1, <1>8 DEF SoundOutcome, SoundOutput, omits

-----------------------------------------------------------------------------
(* Tolerance *)

LEMMA LeastIs ==
  ASSUME NEW S \in SUBSET Nat, NEW m \in S, \A i \in S : m <= i
  PROVE  Min(S) = m
  <1>1. Min(S) \in S /\ \A i \in S : Min(S) <= i
    BY DEF Min
  <1>2. Min(S) \in Nat /\ m \in Nat /\ Min(S) <= m /\ m <= Min(S)
    BY <1>1
  <1> QED BY <1>2

LEMMA ExactSelector ==
  ASSUME NEW s, NEW path, s \in Seq(STRING), path \in Seq(STRING), ~ HasWildcard(s)
  PROVE  SelectorMatches(s, path) <=> s = path
  <1>1. \A k \in DOMAIN s : s[k] # "*"
    BY DEF HasWildcard, Range
  <1> QED BY <1>1 DEF SelectorMatches

\* For any entries the compiled index, exact selectors apart from those with a wildcard,
\* answers a path with the entry that a reader of the document would find first.
THEOREM TolerancesAreReadInOrder ==
  ASSUME NEW entries, EntriesFit(entries), NEW path \in Seq(STRING)
  PROVE  TolerancesReadInOrder(entries, path)
  <1> DEFINE exact == ExactTolerance(entries, path)
             wild == WildcardTolerances(entries, path)
             all == {i \in DOMAIN entries : SelectorMatches(entries[i].path, path)}
  <1>1. \A i \in DOMAIN entries : i \in Nat /\ i # 0 /\ entries[i].path \in Seq(STRING)
    BY DEF EntriesFit
  <1>2. exact \cup wild \subseteq all
    BY <1>1, ExactSelector DEF ExactTolerance, WildcardTolerances
  <1>3. ASSUME NEW i \in all PROVE \E j \in exact \cup wild : j <= i
    <2>1. CASE HasWildcard(entries[i].path)
      BY <1>1, <2>1 DEF WildcardTolerances
    <2>2. CASE ~ HasWildcard(entries[i].path)
      <3> DEFINE same == {j \in DOMAIN entries : entries[j].path = path}
      <3>1. same \in SUBSET Nat /\ i \in same
        BY <1>1, <2>2, ExactSelector
      <3>2. PICK j \in same : \A k \in same : j <= k
        BY <3>1, LeastOf
      <3>3. j \in exact
        <4>1. ASSUME NEW k \in 1..(j - 1), entries[k].path = entries[j].path PROVE FALSE
          <5>1. k \in DOMAIN entries /\ k < j
            BY <1>1 DEF EntriesFit
          <5>2. k \in same
            BY <4>1, <5>1
          <5> QED BY <1>1, <3>2, <5>1, <5>2
        <4>2. entries[j].path = path /\ ~ HasWildcard(entries[j].path)
          BY <2>2, <3>1
        <4> QED BY <4>1, <4>2 DEF ExactTolerance
      <3> QED BY <3>1, <3>2, <3>3
    <2> QED BY <2>1, <2>2
  <1>4. all \subseteq Nat /\ exact \cup wild \subseteq Nat
    BY <1>1, <1>2
  <1>5. /\ TolerancePosition(entries, path) = IF exact \cup wild = {} THEN 0 ELSE Min(exact \cup wild)
        /\ OmissionPosition(entries, path) = IF all = {} THEN 0 ELSE Min(all)
    BY DEF TolerancePosition, OmissionPosition
  <1> HIDE DEF exact, wild, all
  <1>6. CASE all = {}
    BY <1>2, <1>5, <1>6 DEF TolerancesReadInOrder
  <1>7. CASE all # {}
    <2>1. PICK m \in all : \A i \in all : m <= i
      BY <1>4, <1>7, LeastOf
    <2>2. PICK j \in exact \cup wild : j <= m
      BY <1>3
    <2>3. j = m /\ \A i \in exact \cup wild : m <= i
      <3>1. j \in all /\ j \in Nat /\ m \in Nat /\ m <= j
        BY <1>2, <1>4, <2>1
      <3> QED BY <1>2, <2>1, <2>2, <3>1
    <2>4. Min(all) = m /\ Min(exact \cup wild) = m
      BY <1>4, <2>1, <2>3, LeastIs
    <2> QED BY <1>5, <1>7, <2>2, <2>4 DEF TolerancesReadInOrder
  <1> QED BY <1>6, <1>7

-----------------------------------------------------------------------------
(* What is left out of a policy *)

\* The n-th member of a finite set of numbers has n - 1 below it.
LEMMA NthIs ==
  ASSUME NEW K \in SUBSET Nat, IsFiniteSet(K)
  PROVE  /\ Cardinality(K) \in Nat
         /\ \A n \in 1..Cardinality(K) : Nth(K, n) \in K /\ Cardinality({j \in K : j < Nth(K, n)}) = n - 1
  <1>1. Cardinality(K) \in Nat
    BY FS_CardinalityType
  <1>2. ASSUME NEW n \in 1..Cardinality(K)
        PROVE  Nth(K, n) \in K /\ Cardinality({j \in K : j < Nth(K, n)}) = n - 1
    <2>1. n - 1 \in Nat /\ n - 1 < Cardinality(K)
      BY <1>1
    <2>2. \E k \in K : Cardinality({j \in K : j < k}) = n - 1
      BY <2>1, NthOf
    <2> QED BY <2>2 DEF Nth
  <1> QED BY <1>1, <1>2

\* Of two members the smaller has fewer below it, and each is one of them.
LEMMA RanksGrow ==
  ASSUME NEW K \in SUBSET Nat, IsFiniteSet(K), NEW j \in K, NEW k \in K, j < k
  PROVE  /\ Cardinality({i \in K : i < j}) \in Nat /\ Cardinality({i \in K : i < k}) \in Nat
         /\ Cardinality({i \in K : i < j}) < Cardinality({i \in K : i < k})
         /\ Cardinality({i \in K : i < k}) < Cardinality(K)
  <1> DEFINE below(x) == {i \in K : i < x}
  <1>1. \A x \in Nat : below(x) \subseteq K
    OBVIOUS
  <1>2. \A x \in Nat : IsFiniteSet(below(x)) /\ Cardinality(below(x)) \in Nat
    BY <1>1, FS_Subset, FS_CardinalityType
  <1>3. j \in Nat /\ k \in Nat
    OBVIOUS
  <1>4. below(j) \cup {j} \subseteq below(k)
    <2>1. \A i \in K : i \in Nat /\ (i < j => i < k)
      BY <1>3
    <2> QED BY <2>1
  <1>5. Cardinality(below(j) \cup {j}) = Cardinality(below(j)) + 1
    <2>1. j \notin below(j)
      BY <1>3
    <2> HIDE DEF below
    <2> QED BY <1>2, <1>3, <2>1, FS_AddElement
  <1>6. Cardinality(below(j) \cup {j}) <= Cardinality(below(k))
    <2> HIDE DEF below
    <2> QED BY <1>2, <1>3, <1>4, FS_Subset
  <1>7. Cardinality(below(k)) < Cardinality(K)
    <2>1. k \notin below(k) /\ below(k) \cup {k} \subseteq K
      BY <1>3
    <2> HIDE DEF below
    <2>2. Cardinality(below(k) \cup {k}) = Cardinality(below(k)) + 1
      BY <1>2, <1>3, <2>1, FS_AddElement
    <2>3. Cardinality(below(k) \cup {k}) <= Cardinality(K)
      BY <2>1, FS_Subset
    <2>4. Cardinality(K) \in Nat
      BY FS_CardinalityType
    <2> QED BY <1>2, <1>3, <2>2, <2>3, <2>4
  <1> HIDE DEF below
  <1>8. /\ Cardinality(below(j)) \in Nat /\ Cardinality(below(k)) \in Nat
        /\ Cardinality(below(j)) < Cardinality(below(k)) /\ Cardinality(below(k)) < Cardinality(K)
    BY <1>2, <1>3, <1>5, <1>6, <1>7
  <1> QED BY <1>8 DEF below

\* Between two neighbours of the set, below its first and above its last there is none.
LEMMA NeighboursOf ==
  ASSUME NEW K \in SUBSET Nat, IsFiniteSet(K), NEW j \in K
  PROVE  /\ \A n \in 1..(Cardinality(K) - 1) :
               Nth(K, n) < Nth(K, n + 1) /\ ~ (Nth(K, n) < j /\ j < Nth(K, n + 1))
         /\ 1 \in 1..Cardinality(K) /\ ~ (j < Nth(K, 1)) /\ ~ (Nth(K, Cardinality(K)) < j)
         /\ \E n \in 1..Cardinality(K) : Nth(K, n) = j
  <1> DEFINE rank(x) == Cardinality({i \in K : i < x})
  <1>1. \A x, y \in K : x < y => rank(x) \in Nat /\ rank(y) \in Nat /\ rank(x) < rank(y) /\ rank(y) < Cardinality(K)
    BY RanksGrow
  <1>2. /\ Cardinality(K) \in Nat
        /\ \A n \in 1..Cardinality(K) : Nth(K, n) \in K /\ rank(Nth(K, n)) = n - 1
    BY NthIs
  <1>3. \A x, y \in K : rank(x) = rank(y) => x = y
    BY <1>1
  <1>4. \A x \in K : rank(x) \in Nat /\ rank(x) < Cardinality(K)
    <2>1. ASSUME NEW x \in K PROVE rank(x) \in Nat /\ rank(x) < Cardinality(K)
      <3>1. x \notin {i \in K : i < x} /\ {i \in K : i < x} \cup {x} \subseteq K /\ {i \in K : i < x} \subseteq K
        BY x \in Nat
      <3> DEFINE below == {i \in K : i < x}
      <3>2. x \notin below /\ below \cup {x} \subseteq K /\ below \subseteq K
        BY <3>1
      <3> HIDE DEF below
      <3>3. IsFiniteSet(below) /\ Cardinality(below) \in Nat
        BY <3>2, FS_Subset, FS_CardinalityType
      <3>4. Cardinality(below \cup {x}) = Cardinality(below) + 1 /\ Cardinality(below \cup {x}) <= Cardinality(K)
        BY <3>2, <3>3, FS_AddElement, FS_Subset
      <3>5. Cardinality(below) \in Nat /\ Cardinality(below) < Cardinality(K)
        BY <1>2, <3>3, <3>4
      <3> QED BY <3>5 DEF below
    <2> QED BY <2>1
  <1> HIDE DEF rank
  <1>5. 1 \in 1..Cardinality(K) /\ Cardinality(K) \in 1..Cardinality(K)
    BY <1>2, <1>4
  <1>6. ~ (j < Nth(K, 1)) /\ ~ (Nth(K, Cardinality(K)) < j)
    <2>1. Nth(K, 1) \in K /\ rank(Nth(K, 1)) = 0 /\ Nth(K, Cardinality(K)) \in K /\ rank(Nth(K, Cardinality(K))) = Cardinality(K) - 1
      BY <1>2, <1>5
    <2> DEFINE a == Nth(K, 1)
               b == Nth(K, Cardinality(K))
    <2>2. a \in K /\ b \in K /\ rank(a) = 0 /\ rank(b) = Cardinality(K) - 1
      BY <2>1
    <2> HIDE DEF a, b
    <2>3. ASSUME j < a PROVE FALSE
      <3>1. rank(j) \in Nat /\ rank(j) < rank(a)
        BY <1>1, <2>2, <2>3
      <3> QED BY <2>2, <3>1
    <2>4. ASSUME b < j PROVE FALSE
      <3>1. rank(j) \in Nat /\ rank(b) < rank(j) /\ rank(j) < Cardinality(K)
        BY <1>1, <2>2, <2>4
      <3> QED BY <1>2, <2>2, <3>1
    <2> QED BY <2>3, <2>4 DEF a, b
  <1>7. ASSUME NEW n \in 1..(Cardinality(K) - 1)
        PROVE  Nth(K, n) < Nth(K, n + 1) /\ ~ (Nth(K, n) < j /\ j < Nth(K, n + 1))
    <2>1. n \in 1..Cardinality(K) /\ n + 1 \in 1..Cardinality(K) /\ n \in Nat
      BY <1>2
    <2>2. /\ Nth(K, n) \in K /\ rank(Nth(K, n)) = n - 1 /\ Nth(K, n + 1) \in K
          /\ rank(Nth(K, n + 1)) = n
      <3>1. (n + 1) - 1 = n
        BY <2>1
      <3> QED BY <1>2, <2>1, <3>1
    <2>3. Nth(K, n) < Nth(K, n + 1)
      <3> DEFINE a == Nth(K, n)
                 b == Nth(K, n + 1)
      <3>1. a \in K /\ b \in K /\ a \in Nat /\ b \in Nat /\ rank(a) = n - 1 /\ rank(b) = n
        BY <2>2
      <3> HIDE DEF a, b
      <3>2. ASSUME b < a PROVE FALSE
        <4>1. rank(b) < rank(a)
          BY <1>1, <3>1, <3>2
        <4> QED BY <2>1, <3>1, <4>1
      <3>3. ASSUME b = a PROVE FALSE
        BY <2>1, <3>1, <3>3
      <3>4. a < b
        BY <3>1, <3>2, <3>3
      <3> QED BY <3>4 DEF a, b
    <2>4. ASSUME Nth(K, n) < j, j < Nth(K, n + 1) PROVE FALSE
      <3>1. rank(j) \in Nat /\ n - 1 < rank(j) /\ rank(j) < n
        BY <1>1, <2>2, <2>4
      <3> QED BY <2>1, <3>1
    <2> QED BY <2>3, <2>4
  <1>8. \E n \in 1..Cardinality(K) : Nth(K, n) = j
    <2>1. rank(j) \in Nat /\ rank(j) + 1 \in 1..Cardinality(K) /\ (rank(j) + 1) - 1 = rank(j)
      BY <1>2, <1>4
    <2>2. Nth(K, rank(j) + 1) \in K /\ rank(Nth(K, rank(j) + 1)) = rank(j)
      BY <1>2, <2>1
    <2>3. Nth(K, rank(j) + 1) = j
      BY <1>3, <2>2
    <2> QED BY <2>1, <2>3
  <1> QED BY <1>5, <1>6, <1>7, <1>8

LEMMA PickedIs ==
  ASSUME NEW S, NEW s \in Seq(S), NEW K \in SUBSET DOMAIN s
  PROVE  /\ Picked(s, K) \in Seq(S) /\ Len(Picked(s, K)) = Cardinality(K)
         /\ K \in SUBSET Nat /\ IsFiniteSet(K) /\ Cardinality(K) \in Nat
         /\ \A n \in 1..Cardinality(K) : Nth(K, n) \in K /\ Picked(s, K)[n] = s[Nth(K, n)]
  <1>1. K \in SUBSET Nat /\ IsFiniteSet(K)
    <2>1. Len(s) \in Nat /\ DOMAIN s = 1..Len(s)
      OBVIOUS
    <2>2. IsFiniteSet(1..Len(s))
      BY <2>1, FS_Interval
    <2> QED BY <2>1, <2>2, FS_Subset
  <1>2. Cardinality(K) \in Nat /\ \A n \in 1..Cardinality(K) : Nth(K, n) \in K
    BY <1>1, NthIs
  <1> DEFINE picked == [n \in 1..Cardinality(K) |-> s[Nth(K, n)]]
  <1>3. picked \in [1..Cardinality(K) -> S]
    BY <1>2
  <1>4. Picked(s, K) = picked /\ \A n \in 1..Cardinality(K) : picked[n] = s[Nth(K, n)]
    BY DEF Picked
  <1> HIDE DEF picked
  <1>5. picked \in Seq(S) /\ Len(picked) = Cardinality(K)
    BY <1>2, <1>3
  <1> QED BY <1>1, <1>2, <1>4, <1>5

\* Entries that change nothing may be left out.
LEMMA IdleEntriesMayGo ==
  ASSUME NEW mode, NEW outcome, NEW S, NEW entries \in Seq(S), NEW state, NEW mask, NEW raw,
         NEW K \in SUBSET DOMAIN entries, NEW after, Taken(after, mode, outcome, entries, state, mask, raw),
         \A i \in 1..Len(entries) : i \notin K => after[i] = after[i - 1]
  PROVE  AfterEach(mode, outcome, Picked(entries, K), state, mask, raw)
           = AfterEach(mode, outcome, entries, state, mask, raw)
  <1> DEFINE Step(o, e) == PolicyStep(mode, o, e, state, mask, raw)
             last == Len(entries)
             size == Cardinality(K)
             picked == Picked(entries, K)
             at(n) == IF n = 0 THEN 0 ELSE Nth(K, n)
  <1>1. /\ Len(picked) = size /\ K \in SUBSET Nat /\ IsFiniteSet(K) /\ size \in Nat
        /\ \A n \in 1..size : Nth(K, n) \in K /\ picked[n] = entries[Nth(K, n)]
    BY PickedIs
  <1>2. last \in Nat /\ K \subseteq 1..last
    OBVIOUS
  <1>3. /\ after[0] = outcome /\ \A n \in 1..last : after[n] = Step(after[n - 1], entries[n])
        /\ AfterEach(mode, outcome, entries, state, mask, raw) = after[last]
    BY DEF Taken
  <1>4. PICK got : Taken(got, mode, outcome, picked, state, mask, raw)
    BY <1>1, EachIsTaken
  <1>5. /\ got[0] = outcome /\ \A n \in 1..size : got[n] = Step(got[n - 1], picked[n])
        /\ AfterEach(mode, outcome, picked, state, mask, raw) = got[size]
    BY <1>1, <1>4 DEF Taken
  <1> HIDE DEF Step, last, size, picked
  <1>6. ASSUME NEW a \in 0..last, NEW b \in 0..last, a <= b, \A i \in K : ~ (a < i /\ i <= b)
        PROVE  after[a] = after[b]
    <2> DEFINE T == {d \in Nat : a + d <= b => after[a + d] = after[a]}
    <2>1. 0 \in T
      BY <1>2
    <2>2. ASSUME NEW d \in T PROVE d + 1 \in T
      <3>1. ASSUME a + (d + 1) <= b PROVE after[a + (d + 1)] = after[a]
        <4>1. /\ a + (d + 1) \in 1..last /\ a < a + (d + 1) /\ (a + (d + 1)) - 1 = a + d /\ a + d <= b
              /\ a + (d + 1) <= b
          BY <1>2, <3>1
        <4>2. a + (d + 1) \notin K
          BY <1>6, <4>1
        <4>3. after[a + (d + 1)] = after[a + d]
          BY <4>1, <4>2 DEF last
        <4> QED BY <4>1, <4>3
      <3> QED BY <3>1
    <2> HIDE DEF T
    <2>3. T \in SUBSET Nat
      BY DEF T
    <2>4. T = Nat
      BY <2>1, <2>2, <2>3, EveryNumber
    <2>5. b - a \in Nat /\ a + (b - a) = b
      BY <1>2, <1>6
    <2>6. a + (b - a) <= b => after[a + (b - a)] = after[a]
      <3>1. b - a \in T
        BY <2>4, <2>5
      <3> QED BY <3>1 DEF T
    <2>7. b <= b
      BY <1>2
    <2> QED BY <2>5, <2>6, <2>7
  <1>7. ASSUME NEW n \in Nat, n + 1 <= size
        PROVE  /\ at(n) \in 0..last /\ at(n + 1) \in 1..last /\ at(n) <= at(n + 1) - 1
               /\ \A i \in K : ~ (at(n) < i /\ i <= at(n + 1) - 1)
    <2>1. n + 1 \in 1..size /\ at(n + 1) = Nth(K, n + 1) /\ at(n + 1) \in K
      BY <1>1, <1>7
    <2>2. CASE n = 0
      <3>1. \A i \in K : ~ (i < Nth(K, 1))
        BY <1>1, NeighboursOf
      <3>2. at(n) = 0 /\ at(n + 1) = Nth(K, 1) /\ at(n + 1) \in 1..last
        BY <1>2, <2>1, <2>2
      <3> HIDE DEF at
      <3>3. \A i \in K : i \in Nat /\ ~ (i < at(n + 1))
        BY <1>1, <3>1, <3>2
      <3> QED BY <1>2, <3>2, <3>3
    <2>3. CASE n # 0
      <3>1. n \in 1..(Cardinality(K) - 1) /\ n \in 1..size
        BY <1>1, <1>7, <2>3 DEF size
      <3>2. Nth(K, n) < Nth(K, n + 1) /\ \A i \in K : ~ (Nth(K, n) < i /\ i < Nth(K, n + 1))
        BY <1>1, <2>1, <3>1, NeighboursOf
      <3>3. at(n) = Nth(K, n) /\ at(n) \in K
        BY <1>1, <2>3, <3>1
      <3>4. at(n) < at(n + 1) /\ \A i \in K : ~ (at(n) < i /\ i < at(n + 1))
        BY <2>1, <3>2, <3>3
      <3> HIDE DEF at
      <3>5. at(n) \in 1..last /\ at(n + 1) \in 1..last /\ \A i \in K : i \in Nat
        BY <1>2, <2>1, <3>3
      <3> QED BY <1>2, <3>4, <3>5
    <2> QED BY <2>2, <2>3
  <1> DEFINE U == {n \in Nat : n <= size => got[n] = after[at(n)]}
  <1>8. 0 \in U
    BY <1>3, <1>5
  <1>9. ASSUME NEW n \in U PROVE n + 1 \in U
    <2>1. ASSUME n + 1 <= size PROVE got[n + 1] = after[at(n + 1)]
      <3>1. n \in Nat /\ n <= size /\ n + 1 \in 1..size /\ (n + 1) - 1 = n
        BY <1>1, <2>1
      <3>2. got[n] = after[at(n)]
        BY <3>1
      <3>3. at(n + 1) = Nth(K, n + 1) /\ picked[n + 1] = entries[at(n + 1)]
        BY <1>1, <3>1
      <3>4. /\ at(n) \in 0..last /\ at(n + 1) \in 1..last /\ at(n) <= at(n + 1) - 1
            /\ \A i \in K : ~ (at(n) < i /\ i <= at(n + 1) - 1)
        BY <1>7, <2>1, <3>1
      <3> HIDE DEF at
      <3>5. at(n + 1) - 1 \in 0..last
        BY <1>2, <3>4
      <3>6. after[at(n)] = after[at(n + 1) - 1]
        BY <1>6, <3>4, <3>5
      <3>7. got[n + 1] = Step(got[n], picked[n + 1])
        BY <1>5, <3>1
      <3> QED BY <1>3, <3>2, <3>3, <3>4, <3>6, <3>7
    <2> HIDE DEF at
    <2> QED BY <2>1
  <1> HIDE DEF U
  <1>10. U \in SUBSET Nat
    BY DEF U
  <1>11. U = Nat
    BY <1>8, <1>9, <1>10, EveryNumber
  <1>12. got[size] = after[at(size)]
    BY <1>1, <1>11 DEF U
  <1>13. after[at(size)] = after[last]
    <2>1. CASE size = 0
      <3>1. K = {}
        BY <1>1, <2>1, FS_EmptySet DEF size
      <3>2. at(size) = 0 /\ 0 \in 0..last /\ last \in 0..last /\ 0 <= last
        BY <1>2, <2>1
      <3> HIDE DEF at
      <3> QED BY <1>6, <3>1, <3>2
    <2>2. CASE size # 0
      <3>1. size \in 1..size /\ at(size) = Nth(K, size) /\ at(size) \in K
        BY <1>1, <2>2
      <3>2. \A i \in K : ~ (Nth(K, Cardinality(K)) < i)
        BY <1>1, NeighboursOf
      <3>3. \A i \in K : ~ (at(size) < i)
        BY <3>1, <3>2 DEF size
      <3> HIDE DEF at
      <3>4. at(size) \in 0..last /\ last \in 0..last /\ at(size) <= last
        BY <1>2, <3>1
      <3> QED BY <1>6, <3>3, <3>4
    <2> QED BY <2>1, <2>2
  <1> QED BY <1>3, <1>5, <1>12, <1>13 DEF picked

-----------------------------------------------------------------------------
(* What an unmatched entry does *)

Shaped(o) ==
    /\ o = [output |-> o.output, matched |-> o.matched, failed |-> o.failed]
    /\ o.failed \in BOOLEAN

\* What a step may make of an outcome: the same, a refusal of it, or a change that is marked.
MarkedOrIdle(next, outcome, e) ==
    \/ next = outcome
    \/ next = Refuse(outcome)
    \/ ~ outcome.failed /\ \E output : next = Outcome(output, outcome.matched \cup {e})

LEMMA PolicyStepsAreMarked ==
  ASSUME NEW mode \in {"projection_sync", "projection_fill", "projection_omit_if"},
         NEW outcome, Shaped(outcome), NEW e, NEW state, NEW mask, NEW raw
  PROVE  MarkedOrIdle(PolicyStep(mode, outcome, e, state, mask, raw), outcome, e)
  <1>1. CASE mode = "projection_sync"
    <2> DEFINE origin == IF e.source \in DOMAIN outcome.output THEN "output" ELSE ComputedSyncSource(state, mask, e.source)
               value == SyncValue(origin, outcome.output, state, e.source)
               refused == \/ ~ Writable(ProviderSchemaStatus(e.path, FALSE))
                          \/ ~ SyncPathAllowed(e.path) \/ ~ SyncPathAllowed(e.source)
                          \/ TypeAt(e.path) # TypeAt(e.source)
               given == SetPath(outcome.output, e.path, value)
    <2>1. SyncOne(outcome, e, state, mask) =
            IF outcome.failed THEN outcome
            ELSE IF refused THEN Refuse(outcome)
            ELSE IF ~ AbsentOrEmpty(outcome.output, e.path) THEN outcome
            ELSE IF origin = "refused" THEN Refuse(outcome)
            ELSE IF value.says \in {"null", "empty"} THEN outcome
            ELSE Outcome(given, outcome.matched \cup {e})
      BY DEF SyncOne, SyncFrom
    <2> HIDE DEF origin, value, refused, given
    <2> QED BY <1>1, <2>1 DEF MarkedOrIdle, PolicyStep
  <1>2. CASE mode = "projection_fill"
    <2> DEFINE value == ProjectionFillValue(e, raw)
               given == SetPath(outcome.output, e.path, value)
    <2>1. FillOne(outcome, e, raw) =
            IF outcome.failed THEN outcome
            ELSE IF raw = Null THEN Refuse(outcome)
            ELSE IF e.path \in DOMAIN outcome.output THEN outcome
            ELSE IF FillRefused(e) THEN Refuse(outcome)
            ELSE IF value = Null THEN outcome
            ELSE Outcome(given, outcome.matched \cup {e})
      BY DEF FillOne
    <2> HIDE DEF value, given
    <2> QED BY <1>2, <2>1 DEF MarkedOrIdle, PolicyStep
  <1>3. CASE mode = "projection_omit_if"
    <2> DEFINE left == WithoutLeaves(outcome.output, e.path, e.values, FALSE)
    <2>1. OmitIfOne(outcome, e) =
            IF outcome.failed THEN outcome
            ELSE IF ProviderSchemaStatus(e.path, FALSE) = "required" THEN Refuse(outcome)
            ELSE LeavingOut(outcome, e, left)
      BY DEF OmitIfOne
    <2> HIDE DEF left
    <2>2. ASSUME left = outcome.output, ~ outcome.failed PROVE LeavingOut(outcome, e, left) = outcome
      <3>1. outcome.failed = FALSE /\ outcome.matched \cup {} = outcome.matched
        BY <2>2 DEF Shaped
      <3> QED BY <2>2, <3>1 DEF LeavingOut, Outcome, Shaped
    <2>3. ASSUME left # outcome.output PROVE LeavingOut(outcome, e, left) = Outcome(left, outcome.matched \cup {e})
      BY <2>3 DEF LeavingOut
    <2> QED BY <1>3, <2>1, <2>2, <2>3 DEF MarkedOrIdle, PolicyStep
  <1> QED BY <1>1, <1>2, <1>3

\* A step keeps the shape and what failed, and marks what it changes.
LEMMA StepsMark ==
  ASSUME NEW outcome, Shaped(outcome), NEW e, NEW next, MarkedOrIdle(next, outcome, e)
  PROVE  /\ Shaped(next) /\ (outcome.failed => next.failed)
         /\ ~ next.failed => /\ outcome.matched \subseteq next.matched
                             /\ next # outcome => e \in next.matched
  <1>1. CASE next = outcome
    BY <1>1
  <1>2. CASE next = Refuse(outcome)
    <2>1. next = [output |-> outcome.output, matched |-> outcome.matched, failed |-> TRUE]
      BY <1>2 DEF Refuse, Shaped
    <2> QED BY <2>1 DEF Shaped
  <1>3. ASSUME ~ outcome.failed, NEW output, next = Outcome(output, outcome.matched \cup {e})
        PROVE  /\ Shaped(next) /\ ~ next.failed /\ e \in next.matched
               /\ outcome.matched \subseteq next.matched
    BY <1>3 DEF Shaped, Outcome
  <1> QED BY <1>1, <1>2, <1>3 DEF MarkedOrIdle

\* What each step keeps, the pack's defaults too.
Grows(next, outcome) ==
    /\ Shaped(next) /\ (outcome.failed => next.failed)
    /\ ~ next.failed => outcome.matched \subseteq next.matched

LEMMA StepGrows ==
  ASSUME NEW mode \in {"projection_sync", "projection_fill", "pack_drop_if_default", "projection_omit_if"},
         NEW outcome, Shaped(outcome), NEW e, NEW state, NEW mask, NEW raw
  PROVE  Grows(PolicyStep(mode, outcome, e, state, mask, raw), outcome)
  <1>1. CASE mode = "pack_drop_if_default"
    <2> DEFINE left == WithoutLeaves(outcome.output, e.path, e.values, TRUE)
    <2>1. DropOne(outcome, e) = IF outcome.failed THEN outcome
                                ELSE IF ProviderSchemaStatus(e.path, FALSE) # "optional" THEN Refuse(outcome)
                                ELSE [outcome EXCEPT !.output = left]
      BY DEF DropOne
    <2> HIDE DEF left
    <2>2. [outcome EXCEPT !.output = left] = [output |-> left, matched |-> outcome.matched, failed |-> outcome.failed]
      BY DEF Shaped
    <2>3. Shaped(Refuse(outcome)) /\ Refuse(outcome).failed
      <3>1. MarkedOrIdle(Refuse(outcome), outcome, e) /\ "failed" \in DOMAIN outcome
        BY DEF MarkedOrIdle, Shaped
      <3> QED BY <3>1, StepsMark, RefusalIsSound
    <2>4. CASE DropOne(outcome, e) = outcome
      BY <1>1, <2>4 DEF Grows, PolicyStep
    <2>5. CASE DropOne(outcome, e) = Refuse(outcome)
      BY <1>1, <2>3, <2>5 DEF Grows, PolicyStep
    <2>6. CASE DropOne(outcome, e) = [outcome EXCEPT !.output = left]
      BY <1>1, <2>2, <2>6 DEF Grows, PolicyStep, Shaped
    <2> QED BY <2>1, <2>4, <2>5, <2>6
  <1>2. CASE mode # "pack_drop_if_default"
    <2>1. MarkedOrIdle(PolicyStep(mode, outcome, e, state, mask, raw), outcome, e)
      BY <1>2, PolicyStepsAreMarked
    <2> QED BY <2>1, StepsMark DEF Grows
  <1> QED BY <1>1, <1>2

LEMMA EachGrows ==
  ASSUME NEW mode \in {"projection_sync", "projection_fill", "pack_drop_if_default", "projection_omit_if"},
         NEW outcome, Shaped(outcome), NEW S, NEW entries \in Seq(S), NEW state, NEW mask, NEW raw,
         NEW after, Taken(after, mode, outcome, entries, state, mask, raw)
  PROVE  \A a, b \in 0..Len(entries) : a <= b => Shaped(after[a]) /\ Grows(after[b], after[a])
  <1> DEFINE last == Len(entries)
  <1>1. last \in Nat
    OBVIOUS
  <1>2. /\ after[0] = outcome
        /\ \A n \in 1..last : after[n] = PolicyStep(mode, after[n - 1], entries[n], state, mask, raw)
    BY DEF Taken
  <1> HIDE DEF last
  <1>3. ASSUME NEW n \in Nat, n + 1 <= last, Shaped(after[n]) PROVE Grows(after[n + 1], after[n])
    <2>1. n + 1 \in 1..last /\ (n + 1) - 1 = n
      BY <1>1, <1>3
    <2>2. after[n + 1] = PolicyStep(mode, after[n], entries[n + 1], state, mask, raw)
      BY <1>2, <2>1
    <2> QED BY <1>3, <2>2, StepGrows
  <1> DEFINE T == {n \in Nat : n <= last => Shaped(after[n])}
  <1>4. 0 \in T
    BY <1>2
  <1>5. ASSUME NEW n \in T PROVE n + 1 \in T
    <2>1. ASSUME n + 1 <= last PROVE Shaped(after[n + 1])
      <3>1. n \in Nat /\ n <= last
        BY <1>1, <2>1
      <3> QED BY <1>3, <2>1, <3>1 DEF Grows
    <2> QED BY <2>1
  <1> HIDE DEF T
  <1>6. T \in SUBSET Nat
    BY DEF T
  <1>7. T = Nat
    BY <1>4, <1>5, <1>6, EveryNumber
  <1>8. \A n \in Nat : n <= last => Shaped(after[n])
    BY <1>7 DEF T
  <1>9. ASSUME NEW a \in 0..last, NEW b \in 0..last, a <= b PROVE Grows(after[b], after[a])
    <2> DEFINE U == {d \in Nat : a + d <= b => Grows(after[a + d], after[a])}
    <2>1. 0 \in U
      <3>1. a + 0 = a /\ Shaped(after[a])
        BY <1>1, <1>8
      <3> QED BY <3>1 DEF Grows
    <2>2. ASSUME NEW d \in U PROVE d + 1 \in U
      <3>1. ASSUME a + (d + 1) <= b PROVE Grows(after[a + (d + 1)], after[a])
        <4>1. /\ a + d \in Nat /\ a + d <= b /\ a + d <= last /\ (a + d) + 1 = a + (d + 1) /\ (a + d) + 1 <= last
          BY <1>1, <3>1
        <4>2. Grows(after[a + d], after[a]) /\ Shaped(after[a + d])
          BY <1>8, <4>1
        <4>3. Grows(after[(a + d) + 1], after[a + d])
          BY <1>3, <4>1, <4>2
        <4> QED BY <4>1, <4>2, <4>3 DEF Grows
      <3> QED BY <3>1
    <2> HIDE DEF U
    <2>3. U \in SUBSET Nat
      BY DEF U
    <2>4. U = Nat
      BY <2>1, <2>2, <2>3, EveryNumber
    <2>5. b - a \in Nat /\ a + (b - a) = b /\ b <= b
      BY <1>1, <1>9
    <2>6. a + (b - a) <= b => Grows(after[a + (b - a)], after[a])
      <3>1. b - a \in U
        BY <2>4, <2>5
      <3> QED BY <3>1 DEF U
    <2> QED BY <2>5, <2>6
  <1> QED BY <1>1, <1>8, <1>9 DEF last

LEMMA EachGrowsOver ==
  ASSUME NEW mode \in {"projection_sync", "projection_fill", "pack_drop_if_default", "projection_omit_if"},
         NEW outcome, Shaped(outcome), NEW S, NEW entries \in Seq(S), NEW state, NEW mask, NEW raw
  PROVE  Grows(AfterEach(mode, outcome, entries, state, mask, raw), outcome)
  <1>1. PICK after : Taken(after, mode, outcome, entries, state, mask, raw)
    <2>1. Len(entries) \in Nat
      OBVIOUS
    <2> QED BY <2>1, EachIsTaken
  <1>2. after[0] = outcome /\ AfterEach(mode, outcome, entries, state, mask, raw) = after[Len(entries)]
    BY <1>1 DEF Taken
  <1>3. 0 \in 0..Len(entries) /\ Len(entries) \in 0..Len(entries) /\ 0 <= Len(entries)
    OBVIOUS
  <1>4. Grows(after[Len(entries)], after[0])
    BY <1>1, <1>3, EachGrows
  <1> QED BY <1>2, <1>4

\* The entries of a mode that remain when the unmatched are taken out.
EntriesLeft(entries, matched) == Picked(entries, {i \in DOMAIN entries : entries[i] \in matched})

\* The entries of a mode that nothing marked may be left out.
LEMMA UnmatchedMayGo ==
  ASSUME NEW mode \in {"projection_sync", "projection_fill", "projection_omit_if"},
         NEW outcome, Shaped(outcome), NEW S, NEW entries \in Seq(S), NEW state, NEW mask, NEW raw,
         ~ AfterEach(mode, outcome, entries, state, mask, raw).failed,
         NEW matched, AfterEach(mode, outcome, entries, state, mask, raw).matched \subseteq matched
  PROVE  AfterEach(mode, outcome, EntriesLeft(entries, matched), state, mask, raw)
           = AfterEach(mode, outcome, entries, state, mask, raw)
  <1> DEFINE last == Len(entries)
             K == {i \in DOMAIN entries : entries[i] \in matched}
  <1>1. last \in Nat /\ DOMAIN entries = 1..last /\ K \in SUBSET DOMAIN entries
    OBVIOUS
  <1>2. PICK after : Taken(after, mode, outcome, entries, state, mask, raw)
    BY <1>1, EachIsTaken
  <1>3. /\ \A n \in 1..last : after[n] = PolicyStep(mode, after[n - 1], entries[n], state, mask, raw)
        /\ AfterEach(mode, outcome, entries, state, mask, raw) = after[last]
    BY <1>2 DEF Taken
  <1>4. \A a, b \in 0..last : a <= b => Shaped(after[a]) /\ Grows(after[b], after[a])
    BY <1>2, EachGrows
  <1> HIDE DEF last
  <1>5. ASSUME NEW i \in 1..last, i \notin K PROVE after[i] = after[i - 1]
    <2>1. i \in 0..last /\ i - 1 \in 0..last /\ i <= last /\ i - 1 <= i /\ last \in 0..last /\ i - 1 <= last
      BY <1>1
    <2>2. Shaped(after[i - 1]) /\ Grows(after[last], after[i])
      BY <1>4, <2>1
    <2>3. ~ after[i].failed /\ after[i].matched \subseteq matched
      BY <1>3, <2>2 DEF Grows
    <2>4. MarkedOrIdle(after[i], after[i - 1], entries[i])
      BY <1>3, <2>2, PolicyStepsAreMarked
    <2>5. after[i] # after[i - 1] => entries[i] \in after[i].matched
      BY <2>2, <2>3, <2>4, StepsMark
    <2>6. entries[i] \notin matched
      BY <1>1, <1>5
    <2> QED BY <2>3, <2>5, <2>6
  <1> HIDE DEF K
  <1>6. \A i \in 1..Len(entries) : i \notin K => after[i] = after[i - 1]
    BY <1>5 DEF last
  <1>7. AfterEach(mode, outcome, Picked(entries, K), state, mask, raw) = AfterEach(mode, outcome, entries, state, mask, raw)
    BY <1>1, <1>2, <1>6, IdleEntriesMayGo
  <1> QED BY <1>7 DEF K, EntriesLeft
-----------------------------------------------------------------------------
(* What an unmatched omission does *)

\* A member is the n-th when it has n - 1 below it.
LEMMA NthOnly ==
  ASSUME NEW K \in SUBSET Nat, IsFiniteSet(K), NEW k \in K, NEW n \in 1..Cardinality(K),
         Cardinality({j \in K : j < k}) = n - 1
  PROVE  Nth(K, n) = k
  <1> DEFINE rank(x) == Cardinality({j \in K : j < x})
             m == Nth(K, n)
  <1>1. m \in K /\ rank(m) = n - 1 /\ rank(k) = n - 1
    BY NthIs
  <1>2. \A x, y \in K : x < y => rank(x) \in Nat /\ rank(y) \in Nat /\ rank(x) < rank(y)
    BY RanksGrow
  <1> HIDE DEF rank, m
  <1>3. ~ (m < k) /\ ~ (k < m)
    <2>1. ASSUME m < k PROVE FALSE
      <3>1. rank(m) \in Nat /\ rank(m) < rank(k)
        BY <1>1, <1>2, <2>1
      <3> QED BY <1>1, <3>1
    <2>2. ASSUME k < m PROVE FALSE
      <3>1. rank(m) \in Nat /\ rank(k) < rank(m)
        BY <1>1, <1>2, <2>2
      <3> QED BY <1>1, <3>1
    <2> QED BY <2>1, <2>2
  <1>4. m \in Nat /\ k \in Nat
    BY <1>1
  <1> QED BY <1>3, <1>4 DEF m

LEMMA AppendIs ==
  ASSUME NEW S, NEW s \in Seq(S), NEW x \in S
  PROVE  /\ Append(s, x) \in Seq(S) /\ Len(Append(s, x)) = Len(s) + 1 /\ Append(s, x)[Len(s) + 1] = x
         /\ \A k \in 1..Len(s) : Append(s, x)[k] = s[k]
         /\ Len(s) \in Nat /\ DOMAIN s = 1..Len(s) /\ \A k \in 1..Len(s) : s[k] \in S /\ k \in Nat /\ k < Len(s) + 1
  BY AppendProperties

\* The names of a longer path.
LEMMA NamesOfAppend ==
  ASSUME NEW S, NEW f \in Seq(S), NEW x \in S
  PROVE  NamesOf(Append(f, x)) = IF Collection(x) THEN NamesOf(f) ELSE Append(NamesOf(f), x)
  <1> DEFINE others == {"*"} \cup Indices
             longer == Append(f, x)
             K == KeptIn(f, others)
             more == KeptIn(longer, others)
             end == Len(f) + 1
  <1>1. /\ Len(f) \in Nat /\ longer \in Seq(S) /\ Len(longer) = end /\ longer[end] = x
        /\ \A k \in 1..Len(f) : longer[k] = f[k]
        /\ end \in Nat /\ \A k \in 1..Len(f) : k \in Nat /\ k < end
    BY AppendIs
  <1>r. 1..end = (1..Len(f)) \cup {end} /\ DOMAIN longer = 1..end /\ DOMAIN f = 1..Len(f)
    BY <1>1
  <1>2. Collection(x) <=> x \in others
    BY DEF Collection
  <1>3. K \in SUBSET (1..Len(f)) /\ Cardinality(K) \in Nat /\ \A n \in 1..Cardinality(K) : Nth(K, n) \in K
    BY KeptPositions
  <1>4. (x \in others => more = K) /\ (x \notin others => more = K \cup {end})
    <2>1. 1..end = (1..Len(f)) \cup {end} /\ DOMAIN longer = 1..end /\ DOMAIN f = 1..Len(f)
      BY <1>r
    <2> HIDE DEF longer, end
    <2>2. \A k \in 1..Len(f) : k \in more <=> k \in K
      BY <1>1, <2>1 DEF KeptIn
    <2>3. end \in more <=> x \notin others
      BY <1>1, <2>1 DEF KeptIn
    <2>4. more \subseteq 1..end
      BY <2>1 DEF KeptIn
    <2>5. K \subseteq 1..Len(f)
      BY <1>3
    <2> HIDE DEF K, more, others
    <2>6. CASE x \in others
      BY <2>1, <2>2, <2>3, <2>4, <2>5, <2>6
    <2>7. CASE x \notin others
      BY <2>1, <2>2, <2>3, <2>4, <2>5, <2>7
    <2> QED BY <2>6, <2>7
  <1>5. NamesOf(longer) = [n \in 1..Cardinality(more) |-> longer[Nth(more, n)]]
    BY DEF NamesOf, SegmentsBut, Picked
  <1>6. NamesOf(f) = [n \in 1..Cardinality(K) |-> f[Nth(K, n)]]
    BY DEF NamesOf, SegmentsBut, Picked
  <1>7. K \in SUBSET Nat /\ IsFiniteSet(K)
    <2>1. IsFiniteSet(1..Len(f))
      BY <1>1, FS_Interval
    <2>2. K \subseteq 1..Len(f) /\ 1..Len(f) \subseteq Nat
      BY <1>1, <1>3
    <2> HIDE DEF K
    <2>3. IsFiniteSet(K)
      BY <2>1, <2>2, FS_Subset
    <2> QED BY <2>2, <2>3
  <1>8. CASE Collection(x)
    <2>1. more = K
      BY <1>2, <1>4, <1>8
    <2>2. \A n \in 1..Cardinality(K) : longer[Nth(K, n)] = f[Nth(K, n)]
      BY <1>1, <1>3
    <2> QED BY <1>5, <1>6, <1>8, <2>1, <2>2
  <1>9. CASE ~ Collection(x)
    <2> DEFINE size == Cardinality(K)
    <2>1. more = K \cup {end}
      BY <1>2, <1>4, <1>9
    <2>l. /\ longer[end] = x /\ end \in Nat /\ K \subseteq 1..Len(f)
          /\ \A k \in 1..Len(f) : longer[k] = f[k] /\ f[k] \in S /\ k \in Nat /\ k < end
      <3>1. K \subseteq 1..Len(f)
        BY <1>3
      <3>2. \A k \in 1..Len(f) : f[k] \in S
        BY AppendIs
      <3> HIDE DEF longer, K, end
      <3> QED BY <1>1, <3>1, <3>2
    <2> HIDE DEF longer, K, more, end, others
    <2>2. end \in Nat /\ end \notin K /\ \A j \in K : j \in Nat /\ j < end
      <3>1. \A j \in K : j \in Nat /\ j < end
        BY <2>l
      <3>2. ~ (end < end)
        BY <2>l
      <3> QED BY <2>l, <3>1, <3>2
    <2>3. more \in SUBSET Nat /\ IsFiniteSet(more) /\ Cardinality(more) = size + 1 /\ size \in Nat
      BY <1>3, <1>7, <2>1, <2>2, FS_AddElement
    <2>4. ASSUME NEW n \in 1..size PROVE Nth(more, n) = Nth(K, n)
      <3> DEFINE k == Nth(K, n)
      <3>1. k \in K /\ Cardinality({j \in K : j < k}) = n - 1
        BY <1>7, NthIs
      <3> HIDE DEF k
      <3>2. {j \in more : j < k} = {j \in K : j < k}
        <4>1. ~ (end < k)
          BY <2>2, <3>1
        <4> QED BY <2>1, <4>1
      <3>3. k \in more /\ n \in 1..Cardinality(more)
        BY <2>1, <2>3, <3>1
      <3> QED BY <2>3, <3>1, <3>2, <3>3, NthOnly DEF k
    <2>5. Nth(more, size + 1) = end
      <3>1. {j \in more : j < end} = K
        BY <2>1, <2>2
      <3>2. end \in more /\ size + 1 \in 1..Cardinality(more) /\ (size + 1) - 1 = size
        BY <2>1, <2>3
      <3>3. Cardinality({j \in more : j < end}) = (size + 1) - 1
        BY <3>1, <3>2
      <3> QED BY <2>3, <3>2, <3>3, NthOnly
    <2> DEFINE names == [n \in 1..size |-> f[Nth(K, n)]]
    <2>6. names \in Seq(S) /\ Len(names) = size /\ \A n \in 1..size : names[n] = f[Nth(K, n)]
      <3>1. \A n \in 1..size : f[Nth(K, n)] \in S
        BY <1>3, <2>l
      <3>2. names \in [1..size -> S]
        BY <3>1
      <3>3. \A n \in 1..size : names[n] = f[Nth(K, n)]
        OBVIOUS
      <3> HIDE DEF names
      <3> QED BY <2>3, <3>2, <3>3
    <2>7. \A n \in 1..size : longer[Nth(K, n)] = f[Nth(K, n)]
      BY <1>3, <2>l
    <2>8. NamesOf(f) = names
      BY <1>6
    <2> HIDE DEF names
    <2> DEFINE full == Append(names, x)
    <2>a. /\ full \in Seq(S) /\ Len(full) = size + 1 /\ full[size + 1] = x
          /\ \A n \in 1..size : full[n] = names[n]
      BY <2>6, AppendIs
    <2> HIDE DEF full
    <2>9. \A n \in 1..(size + 1) : longer[Nth(more, n)] = full[n]
      <3>1. ASSUME NEW n \in 1..(size + 1) PROVE longer[Nth(more, n)] = full[n]
        <4>1. CASE n \in 1..size
          BY <2>4, <2>6, <2>7, <2>a, <4>1
        <4>2. CASE n = size + 1
          BY <2>5, <2>a, <2>l, <4>2
        <4> QED BY <2>3, <4>1, <4>2
      <3> QED BY <3>1
    <2>10. full = [n \in 1..(size + 1) |-> full[n]]
      BY <2>a
    <2>11. NamesOf(longer) = [n \in 1..(size + 1) |-> longer[Nth(more, n)]]
      BY <1>5, <2>3
    <2>12. NamesOf(longer) = [n \in 1..(size + 1) |-> full[n]]
      BY <2>9, <2>11
    <2> QED BY <1>9, <2>8, <2>10, <2>12 DEF longer, full
  <1> QED BY <1>8, <1>9
LEMMA FrontIs ==
  ASSUME NEW S, NEW p \in Seq(S), p # <<>>
  PROVE  /\ Front(p) \in Seq(S) /\ Len(Front(p)) = Len(p) - 1 /\ Len(p) \in Nat /\ Len(p) # 0
         /\ Last(p) \in S /\ p = Append(Front(p), Last(p))
  <1> DEFINE front == Front(p)
             end == Len(p)
  <1>1. end \in Nat /\ end # 0 /\ end \in 1..end /\ DOMAIN p = 1..end /\ p[end] \in S
    OBVIOUS
  <1>2. front \in Seq(S) /\ Len(front) = end - 1 /\ \A k \in 1..(end - 1) : front[k] = p[k]
    <2>1. \A k \in 1..(end - 1) : p[k] \in S
      BY <1>1
    <2>2. 1 \in Int /\ end - 1 \in Int
      BY <1>1
    <2> HIDE DEF end
    <2>3. /\ SubSeq(p, 1, end - 1) \in Seq(S)
          /\ Len(SubSeq(p, 1, end - 1)) = IF 1 <= end - 1 THEN (end - 1) - 1 + 1 ELSE 0
          /\ \A k \in 1 .. (end - 1) - 1 + 1 : SubSeq(p, 1, end - 1)[k] = p[1 + k - 1]
      BY <2>1, <2>2, SubSeqProperties
    <2>4. front = SubSeq(p, 1, end - 1)
      BY DEF Front, end
    <2> HIDE DEF front
    <2>5. Len(front) = end - 1
      <3>1. Len(front) = IF 1 <= end - 1 THEN (end - 1) - 1 + 1 ELSE 0
        BY <2>3, <2>4
      <3> DEFINE size == Len(front)
      <3>2. size = IF 1 <= end - 1 THEN (end - 1) - 1 + 1 ELSE 0
        BY <3>1
      <3> HIDE DEF size
      <3>3. size = end - 1
        BY <1>1, <3>2
      <3> QED BY <3>3 DEF size
    <2>6. ASSUME NEW k \in 1..(end - 1) PROVE front[k] = p[k]
      <3>1. 1 + k - 1 = k /\ k \in 1 .. (end - 1) - 1 + 1
        BY <1>1
      <3> QED BY <2>3, <2>4, <3>1
    <2> QED BY <2>3, <2>4, <2>5, <2>6
  <1>3. Last(p) = p[end]
    BY DEF Last
  <1> HIDE DEF front
  <1> DEFINE back == Append(front, p[end])
  <1>4. /\ back \in Seq(S) /\ Len(back) = end /\ back[end] = p[end]
        /\ \A k \in 1..(end - 1) : back[k] = p[k]
    <2>1. /\ back \in Seq(S) /\ Len(back) = Len(front) + 1 /\ back[Len(front) + 1] = p[end]
          /\ \A k \in 1..Len(front) : back[k] = front[k]
      <3> DEFINE elt == p[end]
      <3>1. front \in Seq(S) /\ elt \in S
        BY <1>1, <1>2
      <3> HIDE DEF elt
      <3>2. /\ Append(front, elt) \in Seq(S) /\ Len(Append(front, elt)) = Len(front) + 1
            /\ Append(front, elt)[Len(front) + 1] = elt
            /\ \A k \in 1..Len(front) : Append(front, elt)[k] = front[k]
        BY <3>1, AppendIs
      <3> QED BY <3>2 DEF elt
    <2>2. Len(front) + 1 = end
      BY <1>1, <1>2
    <2> HIDE DEF back, end
    <2> QED BY <1>2, <2>1, <2>2
  <1> HIDE DEF back
  <1>5. back = p
    <2>n. end \in Nat
      BY <1>1
    <2>1. DOMAIN back = 1..end /\ back = [k \in 1..end |-> back[k]] /\ p = [k \in 1..end |-> p[k]]
      BY <1>1, <1>4
    <2> HIDE DEF end
    <2>2. \A k \in 1..end : back[k] = p[k]
      <3>1. ASSUME NEW k \in 1..end PROVE back[k] = p[k]
        <4>1. k = end \/ k \in 1..(end - 1)
          BY <2>n
        <4> QED BY <1>4, <4>1
      <3> QED BY <3>1
    <2> QED BY <2>1, <2>2
  <1> QED BY <1>1, <1>2, <1>3, <1>5 DEF back, front

\* The omission that answers for a path: none, or the first that matches.
LEMMA FirstOmission ==
  ASSUME NEW S, NEW entries \in Seq(S), NEW path
  PROVE  LET i == OmissionPosition(entries, path)
         IN  /\ i = 0 <=> \A j \in DOMAIN entries : ~ SelectorMatches(entries[j].path, path)
             /\ i # 0 => /\ i \in DOMAIN entries /\ SelectorMatches(entries[i].path, path)
                         /\ \A j \in DOMAIN entries : SelectorMatches(entries[j].path, path) => i <= j
  <1> DEFINE all == {j \in DOMAIN entries : SelectorMatches(entries[j].path, path)}
  <1>1. \A j \in DOMAIN entries : j \in Nat /\ j # 0
    OBVIOUS
  <1>2. OmissionPosition(entries, path) = IF all = {} THEN 0 ELSE Min(all)
    BY DEF OmissionPosition
  <1>3. ASSUME all # {} PROVE Min(all) \in all /\ \A j \in all : Min(all) <= j
    <2>1. all \in SUBSET Nat
      BY <1>1
    <2> HIDE DEF all
    <2>2. PICK m \in all : \A j \in all : m <= j
      BY <1>3, <2>1, LeastOf
    <2> QED BY <2>1, <2>2, LeastIs
  <1>4. CASE all = {}
    BY <1>2, <1>4
  <1>5. CASE all # {}
    <2>1. OmissionPosition(entries, path) = Min(all) /\ Min(all) \in all /\ \A j \in all : Min(all) <= j
      BY <1>2, <1>3, <1>5
    <2> DEFINE i == OmissionPosition(entries, path)
    <2>2. i \in all /\ \A j \in all : i <= j
      BY <2>1
    <2> HIDE DEF i
    <2>3. /\ i # 0 /\ i \in DOMAIN entries /\ SelectorMatches(entries[i].path, path)
          /\ \A j \in DOMAIN entries : SelectorMatches(entries[j].path, path) => i <= j
      BY <1>1, <2>2
    <2> QED BY <2>3 DEF i
  <1> QED BY <1>4, <1>5

\* What is left of the omissions answers as before, when the entry that answered is left.
LEMMA PickedOmission ==
  ASSUME NEW S, NEW entries \in Seq(S), NEW K \in SUBSET DOMAIN entries, NEW path
  PROVE  LET i == OmissionPosition(entries, path)
             l == OmissionPosition(Picked(entries, K), path)
         IN  /\ i = 0 => l = 0
             /\ i \in K => l # 0 /\ Picked(entries, K)[l] = entries[i]
  <1> DEFINE picked == Picked(entries, K)
             size == Cardinality(K)
             i == OmissionPosition(entries, path)
             l == OmissionPosition(picked, path)
  <1>1. /\ picked \in Seq(S) /\ DOMAIN picked = 1..size
        /\ K \in SUBSET Nat /\ IsFiniteSet(K) /\ size \in Nat
        /\ \A n \in 1..size : Nth(K, n) \in K /\ picked[n] = entries[Nth(K, n)]
    <2>1. picked \in Seq(S) /\ Len(picked) = size
      BY PickedIs
    <2>2. DOMAIN picked = 1..Len(picked)
      BY <2>1
    <2> QED BY <2>1, <2>2, PickedIs
  <1>2. /\ i = 0 <=> \A j \in DOMAIN entries : ~ SelectorMatches(entries[j].path, path)
        /\ i # 0 => /\ i \in DOMAIN entries /\ SelectorMatches(entries[i].path, path)
                    /\ \A j \in DOMAIN entries : SelectorMatches(entries[j].path, path) => i <= j
    BY FirstOmission
  <1>3. /\ l = 0 <=> \A j \in DOMAIN picked : ~ SelectorMatches(picked[j].path, path)
        /\ l # 0 => /\ l \in DOMAIN picked /\ SelectorMatches(picked[l].path, path)
                    /\ \A j \in DOMAIN picked : SelectorMatches(picked[j].path, path) => l <= j
    BY <1>1, FirstOmission
  <1> HIDE DEF picked, size, i, l
  <1>4. ASSUME i = 0 PROVE l = 0
    BY <1>1, <1>2, <1>3, <1>4
  <1>5. ASSUME i \in K PROVE l # 0 /\ picked[l] = entries[i]
    <2>1. PICK n \in 1..size : Nth(K, n) = i
      BY <1>1, <1>5, NeighboursOf DEF size
    <2>2. i # 0 /\ picked[n] = entries[i] /\ SelectorMatches(picked[n].path, path)
      <3>1. i \in DOMAIN entries /\ \A k \in DOMAIN entries : k # 0
        BY <1>5
      <3> QED BY <1>1, <1>2, <2>1, <3>1
    <2>3. l # 0 /\ l \in 1..size /\ l <= n /\ SelectorMatches(picked[l].path, path)
      BY <1>1, <1>3, <2>2
    <2>4. Nth(K, l) \in K /\ i <= Nth(K, l) /\ picked[l] = entries[Nth(K, l)]
      <3>1. Nth(K, l) \in K /\ picked[l] = entries[Nth(K, l)]
        BY <1>1, <2>3
      <3> QED BY <1>2, <2>2, <2>3, <3>1
    <2>5. Nth(K, l) = i
      <3> DEFINE rank(x) == Cardinality({j \in K : j < x})
                 k == Nth(K, l)
      <3>1. rank(k) = l - 1 /\ rank(i) = n - 1 /\ k \in K /\ i <= k
        <4>1. /\ \A m \in 1..Cardinality(K) : Cardinality({j \in K : j < Nth(K, m)}) = m - 1
          BY <1>1, NthIs
        <4> QED BY <1>1, <2>1, <2>3, <2>4, <4>1 DEF size
      <3>2. i < k => rank(i) \in Nat /\ rank(k) \in Nat /\ rank(i) < rank(k)
        BY <1>1, <1>5, <3>1, RanksGrow
      <3> HIDE DEF rank, k
      <3>3. ~ (i < k)
        <4>1. n \in Nat /\ l \in Nat
          BY <1>1, <2>3
        <4> QED BY <2>3, <3>1, <3>2, <4>1
      <3>4. k \in Nat /\ i \in Nat
        BY <1>1, <1>5, <3>1
      <3>5. k = i
        BY <3>1, <3>3, <3>4
      <3> QED BY <3>5 DEF k
    <2> QED BY <2>3, <2>4, <2>5
  <1> QED BY <1>4, <1>5 DEF picked, i, l

\* What is beneath a computed block is computed.
LEMMA ComputedBeneath ==
  ASSUME NEW state, StateFits(state), NEW p \in DOMAIN state, Len(p) > 1, NodeAt(Front(p)).class = "computed"
  PROVE  NodeAt(p).class = "computed"
  <1> DEFINE front == Front(p)
             names == NamesOf(front)
  <1>1. /\ p \in Seq(STRING) /\ p # <<>> /\ front \in DOMAIN state /\ NamesOf(front) \in DOMAIN Schema
        /\ ~ Collection(Last(p)) => p \in ChildrenOf(front)
    BY DEF StateFits
  <1>2. front \in Seq(STRING) /\ Last(p) \in STRING /\ p = Append(front, Last(p))
    BY <1>1, FrontIs
  <1>3. NamesOf(Append(front, Last(p))) = IF Collection(Last(p)) THEN names ELSE Append(names, Last(p))
    BY <1>2, NamesOfAppend
  <1>4. CASE Collection(Last(p))
    BY <1>2, <1>3, <1>4 DEF NodeAt
  <1>5. CASE ~ Collection(Last(p))
    <2>1. PICK q \in DOMAIN Schema : Front(q) = names /\ p = Append(front, Last(q))
      BY <1>1, <1>5 DEF ChildrenOf
    <2>2. q \in Seq(STRING) /\ q # <<>> /\ names \in Seq(STRING) /\ names # <<>>
      BY <1>1, SchemaAssumption
    <2>3. Last(q) \in STRING /\ q = Append(Front(q), Last(q)) /\ Len(Front(q)) = Len(q) - 1 /\ Len(q) \in Nat
      BY <2>2, FrontIs
    <2>4. Last(q) = Last(p)
      <3>1. Last(Append(front, Last(q))) = Last(q)
        BY <1>2, <2>3 DEF Last
      <3> QED BY <2>1, <3>1
    <2>5. NamesOf(p) = q
      BY <1>2, <1>3, <1>5, <2>1, <2>3, <2>4
    <2>6. Len(q) - 1 \in 1..(Len(q) - 1) /\ SubSeq(q, 1, Len(q) - 1) = names
      <3>1. Len(names) \in Nat /\ Len(names) # 0
        BY <2>2
      <3> QED BY <2>1, <2>3, <3>1 DEF Front
    <2>7. Schema[names].class = "computed"
      BY DEF NodeAt
    <2>8. Schema[q].class = "computed"
      BY <2>6, <2>7, SchemaAssumption
    <2> QED BY <2>5, <2>8 DEF NodeAt
  <1> QED BY <1>4, <1>5
SameAnswer(left, omits, c) ==
    /\ OmitMatch(left, c) = 0 <=> OmitMatch(omits, c) = 0
    /\ OmitMatch(omits, c) # 0 => left[OmitMatch(left, c)] = omits[OmitMatch(omits, c)]

\* An input that the projection sees is answered by the same entry, or by none as before.
LEMMA SeenInputs ==
  ASSUME NEW state, NEW S, NEW omits \in Seq(S), NEW matched, OmitsUsed(state, omits) \subseteq matched,
         NEW instance \in Instances(state, omits), NEW c \in InputsOf(instance)
  PROVE  SameAnswer(EntriesLeft(omits, matched), omits, c)
  <1> DEFINE K == {i \in DOMAIN omits : omits[i] \in matched}
             left == Picked(omits, K)
             i == OmissionPosition(omits, c)
             l == OmissionPosition(left, c)
  <1>1. /\ i = 0 => l = 0
        /\ i \in K => l # 0 /\ left[l] = omits[i]
    BY PickedOmission
  <1>2. i # 0 => i \in DOMAIN omits
    BY FirstOmission
  <1>3. OmitMatch(omits, c) # 0 => omits[OmitMatch(omits, c)] \in OmitsUsed(state, omits)
    BY DEF OmitsUsed
  <1>4. /\ OmitMatch(omits, c) = IF Collection(Last(c)) THEN 0 ELSE i
        /\ OmitMatch(left, c) = IF Collection(Last(c)) THEN 0 ELSE l
    BY DEF OmitMatch
  <1>5. EntriesLeft(omits, matched) = left
    BY DEF EntriesLeft
  <1>6. ASSUME ~ Collection(Last(c)), i # 0 PROVE i \in K
    <2>1. omits[i] \in matched
      BY <1>3, <1>4, <1>6
    <2> QED BY <1>2, <1>6, <2>1
  <1> HIDE DEF K, left, i, l
  <1> QED BY <1>1, <1>4, <1>5, <1>6 DEF SameAnswer

\* An object whose path no longer omits is one that no path omitted.
LEMMA UnomittedStays ==
  ASSUME NEW state, StateFits(state), NEW S, NEW omits \in Seq(S), NEW matched,
         OmitsUsed(state, omits) \subseteq matched, NEW p \in DOMAIN state, NodeAt(p).class # "computed"
  PROVE  OmittedBy(EntriesLeft(omits, matched), p) = {} <=> OmittedBy(omits, p) = {}
  <1> DEFINE left == EntriesLeft(omits, matched)
             Same(q) == OmittedBy(left, q) = {} => OmittedBy(omits, q) = {}
             T == {n \in Nat : \A q \in DOMAIN state : Len(q) = n /\ NodeAt(q).class # "computed" => Same(q)}
  <1>1. ASSUME NEW q \in DOMAIN state
        PROVE  /\ q \in Seq(STRING) /\ q # <<>> /\ Len(q) \in Nat /\ Len(q) # 0 /\ Len(Front(q)) = Len(q) - 1
               /\ \A o : OmittedBy(o, q) = OmittedBy(o, Front(q)) \cup ({OmitMatch(o, q)} \ {0})
    <2>1. q \in Seq(STRING) /\ q # <<>>
      BY DEF StateFits
    <2>2. Len(q) \in Nat /\ Len(q) # 0 /\ Len(Front(q)) = Len(q) - 1
      BY <2>1, FrontIs
    <2>3. Prefixes(q) = Prefixes(Front(q)) \cup {q}
      BY <2>1, PrefixesOfFront
    <2>4. ASSUME NEW o PROVE OmittedBy(o, q) = OmittedBy(o, Front(q)) \cup ({OmitMatch(o, q)} \ {0})
      <3>1. Prefixes(q) \ {<<>>} = (Prefixes(Front(q)) \ {<<>>}) \cup {q}
        BY <2>1, <2>3
      <3> QED BY <3>1 DEF OmittedBy
    <2> QED BY <2>1, <2>2, <2>4
  <1>2. \A o : OmittedBy(o, <<>>) = {}
    <2>1. Prefixes(<<>>) \ {<<>>} = {}
      <3>1. ASSUME NEW l \in 0..Len(<<>>) PROVE SubSeq(<<>>, 1, l) = <<>>
        <4>1. l = 0
          OBVIOUS
        <4> QED BY <4>1
      <3> QED BY <3>1 DEF Prefixes
    <2> QED BY <2>1 DEF OmittedBy
  <1>3. 0 \in T
    BY <1>1
  <1>4. ASSUME NEW n \in T PROVE n + 1 \in T
    <2>1. ASSUME NEW q \in DOMAIN state, Len(q) = n + 1, NodeAt(q).class # "computed", OmittedBy(left, q) = {}
          PROVE  OmittedBy(omits, q) = {}
      <3> DEFINE front == Front(q)
      <3>1. /\ Len(front) = n /\ OmittedBy(left, front) = {} /\ OmitMatch(left, q) = 0
            /\ OmittedBy(omits, q) = OmittedBy(omits, front) \cup ({OmitMatch(omits, q)} \ {0})
        <4>1. Len(front) = n
          BY <1>1, <2>1
        <4>2. OmittedBy(left, q) = OmittedBy(left, front) \cup ({OmitMatch(left, q)} \ {0})
          BY <1>1
        <4> HIDE DEF front, left
        <4>3. OmittedBy(left, front) = {} /\ OmitMatch(left, q) = 0
          BY <2>1, <4>2
        <4> QED BY <1>1, <4>1, <4>3 DEF front
      <3>2. front = <<>> \/ front \in DOMAIN state
        <4>1. CASE Len(q) > 1
          BY <4>1 DEF StateFits
        <4>2. CASE ~ (Len(q) > 1)
          <5>1. Len(q) = 1 /\ Len(front) = 0
            <6>1. Len(q) \in Nat /\ Len(q) # 0 /\ Len(front) = Len(q) - 1
              BY <1>1
            <6> HIDE DEF front
            <6>2. Len(q) = 1
              BY <4>2, <6>1
            <6> QED BY <6>1, <6>2
          <5>2. front \in Seq(STRING)
            BY <1>1, FrontIs
          <5> QED BY <5>1, <5>2
        <4> QED BY <4>1, <4>2
      <3>3. /\ OmittedBy(omits, front) = {}
            /\ ~ Collection(Last(q)) => front \in Instances(state, omits)
        <4>1. CASE front = <<>>
          BY <1>2, <4>1 DEF Instances
        <4>2. CASE front # <<>>
          <5>1. front \in DOMAIN state /\ Len(q) > 1
            <6>1. front \in Seq(STRING) /\ Len(front) # 0
              BY <3>2, <4>2, <1>1
            <6> QED BY <1>1, <3>2, <4>2, <6>1
          <5>2. NodeAt(front).class # "computed"
            BY <2>1, <5>1, ComputedBeneath
          <5>3. Same(front)
            BY <3>1, <5>1, <5>2
          <5>4. OmittedBy(omits, front) = {}
            BY <3>1, <5>3
          <5>5. IsBlock(front) /\ (NodeAt(front).kind = "list" /\ ~ Collection(Last(q)) => Last(front) \in Indices)
            BY <5>1 DEF StateFits
          <5> QED BY <5>1, <5>2, <5>4, <5>5 DEF Instances
        <4> QED BY <4>1, <4>2
      <3>4. OmitMatch(omits, q) = 0
        <4>1. CASE Collection(Last(q))
          BY <4>1 DEF OmitMatch
        <4>2. CASE ~ Collection(Last(q))
          <5>1. q \in InputsOf(front)
            BY <2>1, <4>2 DEF StateFits, InputsOf
          <5>2. front \in Instances(state, omits)
            BY <3>3, <4>2
          <5>3. OmitMatch(left, q) = 0 <=> OmitMatch(omits, q) = 0
            <6> HIDE DEF front, T
            <6>1. SameAnswer(left, omits, q)
              BY <5>1, <5>2, SeenInputs
            <6> QED BY <6>1 DEF SameAnswer
          <5> QED BY <3>1, <5>3
        <4> QED BY <4>1, <4>2
      <3> QED BY <3>1, <3>3, <3>4
    <2> QED BY <2>1
  <1> HIDE DEF T
  <1>5. T \in SUBSET Nat
    BY DEF T
  <1>6. T = Nat
    BY <1>3, <1>4, <1>5, EveryNumber
  <1>7. Same(p)
    BY <1>1, <1>6 DEF T
  <1>8. ASSUME OmittedBy(omits, p) = {} PROVE OmittedBy(left, p) = {}
    <2>1. ASSUME NEW q PROVE OmitMatch(omits, q) = 0 => OmitMatch(left, q) = 0
      <3>1. OmissionPosition(omits, q) = 0 => OmissionPosition(left, q) = 0
        BY PickedOmission DEF EntriesLeft
      <3> QED BY <3>1 DEF OmitMatch
    <2>2. \A q \in Prefixes(p) \ {<<>>} : OmitMatch(omits, q) = 0
      BY <1>8 DEF OmittedBy
    <2> HIDE DEF left
    <2> QED BY <2>1, <2>2 DEF OmittedBy
  <1> QED BY <1>7, <1>8

\* The projection of a state under the omissions that are left.
LEMMA UnusedOmissionsMayGo ==
  ASSUME NEW state, StateFits(state), NEW mask, NEW S, NEW omits \in Seq(S), NEW matched,
         OmitsUsed(state, omits) \subseteq matched
  PROVE  /\ ProjectionRefused(state, mask, EntriesLeft(omits, matched)) <=> ProjectionRefused(state, mask, omits)
         /\ ProjectProviderBlock(state, EntriesLeft(omits, matched)) = ProjectProviderBlock(state, omits)
         /\ OmitsUsed(state, EntriesLeft(omits, matched)) = OmitsUsed(state, omits)
  <1> DEFINE left == EntriesLeft(omits, matched)
             entered == Instances(state, omits)
  <1>1. Instances(state, left) = entered
    <2>1. \A p \in DOMAIN state : NodeAt(p).class # "computed" =>
             (OmittedBy(left, p) = {} <=> OmittedBy(omits, p) = {})
      BY UnomittedStays
    <2> HIDE DEF left
    <2> QED BY <2>1 DEF Instances
  <1>2. \A i \in entered : \A c \in InputsOf(i) :
           /\ OmitMatch(left, c) = 0 <=> OmitMatch(omits, c) = 0
           /\ OmitMatch(omits, c) # 0 => left[OmitMatch(left, c)] = omits[OmitMatch(omits, c)]
    <2>1. \A i \in entered : \A c \in InputsOf(i) : SameAnswer(left, omits, c)
      BY SeenInputs
    <2> QED BY <2>1 DEF SameAnswer
  <1> HIDE DEF left, entered
  <1>3. ProjectionRefused(state, mask, left) <=> ProjectionRefused(state, mask, omits)
    BY <1>1, <1>2 DEF ProjectionRefused, entered
  <1>4. ProjectProviderBlock(state, left) = ProjectProviderBlock(state, omits)
    <2> DEFINE copied(o) == {p \in DOMAIN state :
            IF Collection(Last(p)) THEN p \in entered
            ELSE /\ Front(p) \in entered /\ NodeAt(p).class # "computed"
                 /\ OmitMatch(o, p) = 0 /\ PresentIn(state, p)}
    <2>1. /\ ProjectProviderBlock(state, left) = [p \in copied(left) |-> state[p]]
          /\ ProjectProviderBlock(state, omits) = [p \in copied(omits) |-> state[p]]
      BY <1>1 DEF ProjectProviderBlock, entered
    <2>2. ASSUME NEW p \in DOMAIN state, ~ Collection(Last(p)), Front(p) \in entered, NodeAt(p).class # "computed"
          PROVE  OmitMatch(left, p) = 0 <=> OmitMatch(omits, p) = 0
      <3>1. p \in InputsOf(Front(p))
        BY <2>2 DEF StateFits, InputsOf
      <3> QED BY <1>2, <2>2, <3>1
    <2>3. copied(left) = copied(omits)
      BY <2>2
    <2> HIDE DEF copied
    <2> QED BY <2>1, <2>3
  <1>5. OmitsUsed(state, left) = OmitsUsed(state, omits)
    <2> DEFINE seen == UNION {InputsOf(i) : i \in entered}
               answered(o) == {d \in seen : OmitMatch(o, d) # 0}
    <2>1. /\ OmitsUsed(state, left) = {left[OmitMatch(left, c)] : c \in answered(left)}
          /\ OmitsUsed(state, omits) = {omits[OmitMatch(omits, c)] : c \in answered(omits)}
      BY <1>1 DEF OmitsUsed, entered
    <2>2. \A c \in seen :
             /\ OmitMatch(left, c) = 0 <=> OmitMatch(omits, c) = 0
             /\ OmitMatch(omits, c) # 0 => left[OmitMatch(left, c)] = omits[OmitMatch(omits, c)]
      BY <1>2
    <2> HIDE DEF seen
    <2>3. answered(left) = answered(omits) /\ \A c \in answered(omits) : left[OmitMatch(left, c)] = omits[OmitMatch(omits, c)]
      BY <2>2
    <2> HIDE DEF answered
    <2> QED BY <2>1, <2>3
  <1> QED BY <1>3, <1>4, <1>5 DEF left

\* The entries that a projection did not match can be taken out of the policy without any
\* effect on it: the reported stale entries are the ones that an operator may delete
\* (reportStalePolicyEntries, matchedPolicyEntries).
THEOREM StaleEntriesHaveNoEffect ==
  ASSUME NEW state, StateFits(state), NEW mask, NEW raw,
         NEW policy, \A m \in PolicyModes : EntriesFit(policy[m]),
         NEW defaults, EntriesFit(defaults),
         ~ ProjectProviderState(state, mask, policy, raw, defaults).failed
  PROVE  ProjectProviderState(state, mask,
             UsedEntries(policy, ProjectProviderState(state, mask, policy, raw, defaults).matched), raw, defaults)
           = ProjectProviderState(state, mask, policy, raw, defaults)
  <1> DEFINE omits == policy["projection_omit"]
             syncs == policy["projection_sync"]
             fills == policy["projection_fill"]
             drops == policy["projection_omit_if"]
             first == Outcome(ProjectProviderBlock(state, omits), OmitsUsed(state, omits))
             synced == AfterEach("projection_sync", first, syncs, state, mask, raw)
             filled == AfterEach("projection_fill", synced, fills, state, mask, raw)
             dropped == AfterEach("pack_drop_if_default", filled, defaults, state, mask, raw)
             last == AfterEach("projection_omit_if", dropped, drops, state, mask, raw)
             matched == last.matched
             used == UsedEntries(policy, matched)
  <1>1. /\ ValidMask(mask, state) /\ ~ ProjectionRefused(state, mask, omits)
        /\ ProjectProviderState(state, mask, policy, raw, defaults) = last
    <2>1. Refuse(Outcome(<<>>, {})).failed
      BY DEF Refuse, Outcome
    <2> QED BY <2>1 DEF ProjectProviderState, AfterPolicy
  <1>2. ~ last.failed
    BY <1>1
  <1>3. /\ used["projection_omit"] = EntriesLeft(omits, matched) /\ used["projection_sync"] = EntriesLeft(syncs, matched)
        /\ used["projection_fill"] = EntriesLeft(fills, matched) /\ used["projection_omit_if"] = EntriesLeft(drops, matched)
    BY DEF UsedEntries, PolicyModes, EntriesLeft
  <1>4. /\ omits \in Seq(Range(omits)) /\ syncs \in Seq(Range(syncs)) /\ fills \in Seq(Range(fills))
        /\ drops \in Seq(Range(drops)) /\ defaults \in Seq(Range(defaults))
    BY DEF EntriesFit, PolicyModes
  <1>6. Shaped(first) /\ first.matched = OmitsUsed(state, omits)
    BY DEF Outcome, Shaped
  <1>7. ProjectProviderState(state, mask, used, raw, defaults)
          = IF ProjectionRefused(state, mask, EntriesLeft(omits, matched)) THEN Refuse(Outcome(<<>>, {}))
            ELSE AfterPolicy(Outcome(ProjectProviderBlock(state, EntriesLeft(omits, matched)), OmitsUsed(state, EntriesLeft(omits, matched))),
                             used, defaults, state, mask, raw)
    BY <1>1, <1>3 DEF ProjectProviderState
  <1> HIDE DEF omits, syncs, fills, drops, first, matched, used
  <1>8. \A outcome : AfterPolicy(outcome, used, defaults, state, mask, raw)
          = AfterEach("projection_omit_if",
                AfterEach("pack_drop_if_default",
                    AfterEach("projection_fill",
                        AfterEach("projection_sync", outcome, EntriesLeft(syncs, matched), state, mask, raw),
                        EntriesLeft(fills, matched), state, mask, raw),
                    defaults, state, mask, raw),
                EntriesLeft(drops, matched), state, mask, raw)
    BY <1>3 DEF AfterPolicy
  <1> HIDE DEF synced, filled, dropped, last
  <1>9. Grows(synced, first)
    BY <1>4, <1>6, EachGrowsOver DEF synced
  <1>10. Grows(filled, synced)
    BY <1>4, <1>9, EachGrowsOver DEF filled, Grows
  <1>11. Grows(dropped, filled)
    BY <1>4, <1>10, EachGrowsOver DEF dropped, Grows
  <1>12. Grows(last, dropped)
    BY <1>4, <1>11, EachGrowsOver DEF last, Grows
  <1>13. /\ ~ synced.failed /\ ~ filled.failed
         /\ first.matched \subseteq matched /\ synced.matched \subseteq matched
         /\ filled.matched \subseteq matched
    BY <1>2, <1>9, <1>10, <1>11, <1>12 DEF Grows, matched
  <1>14. AfterEach("projection_sync", first, EntriesLeft(syncs, matched), state, mask, raw) = synced
    <2>1. /\ ~ AfterEach("projection_sync", first, syncs, state, mask, raw).failed
          /\ AfterEach("projection_sync", first, syncs, state, mask, raw).matched \subseteq matched
      BY <1>13 DEF synced
    <2>2. AfterEach("projection_sync", first, EntriesLeft(syncs, matched), state, mask, raw)
            = AfterEach("projection_sync", first, syncs, state, mask, raw)
      BY <1>4, <1>6, <2>1, UnmatchedMayGo
    <2> QED BY <2>2 DEF synced
  <1>15. AfterEach("projection_fill", synced, EntriesLeft(fills, matched), state, mask, raw) = filled
    <2>1. /\ ~ AfterEach("projection_fill", synced, fills, state, mask, raw).failed
          /\ AfterEach("projection_fill", synced, fills, state, mask, raw).matched \subseteq matched
      BY <1>13 DEF filled
    <2>2. Shaped(synced)
      BY <1>9 DEF Grows
    <2>3. AfterEach("projection_fill", synced, EntriesLeft(fills, matched), state, mask, raw)
            = AfterEach("projection_fill", synced, fills, state, mask, raw)
      BY <1>4, <2>1, <2>2, UnmatchedMayGo
    <2> QED BY <2>3 DEF filled
  <1>16. AfterEach("projection_omit_if", dropped, EntriesLeft(drops, matched), state, mask, raw) = last
    <2>1. /\ ~ AfterEach("projection_omit_if", dropped, drops, state, mask, raw).failed
          /\ AfterEach("projection_omit_if", dropped, drops, state, mask, raw).matched \subseteq matched
      BY <1>2 DEF last, matched
    <2>2. Shaped(dropped)
      BY <1>11 DEF Grows
    <2>3. AfterEach("projection_omit_if", dropped, EntriesLeft(drops, matched), state, mask, raw)
            = AfterEach("projection_omit_if", dropped, drops, state, mask, raw)
      BY <1>4, <2>1, <2>2, UnmatchedMayGo
    <2> QED BY <2>3 DEF last
  <1>17. /\ ~ ProjectionRefused(state, mask, EntriesLeft(omits, matched))
         /\ ProjectProviderBlock(state, EntriesLeft(omits, matched)) = ProjectProviderBlock(state, omits)
         /\ OmitsUsed(state, EntriesLeft(omits, matched)) = OmitsUsed(state, omits)
    BY <1>1, <1>4, <1>6, <1>13, UnusedOmissionsMayGo
  <1>18. ProjectProviderState(state, mask, used, raw, defaults) = AfterPolicy(first, used, defaults, state, mask, raw)
    BY <1>7, <1>17 DEF first
  <1>19. AfterPolicy(first, used, defaults, state, mask, raw) = last
    <2>1. AfterEach("pack_drop_if_default", filled, defaults, state, mask, raw) = dropped
      BY DEF dropped
    <2> QED BY <1>8, <1>14, <1>15, <1>16, <2>1
  <1> QED BY <1>1, <1>18, <1>19 DEF used, matched

(* The instance *)

\* What the inputs of the instance are, and stay when entries are added.
PolicyInputFits(d) ==
    /\ StateFits(d.state) /\ RawFits(d.raw) /\ EntriesFit(d.defaults)
    /\ "policy" \in DOMAIN d /\ d.policy = [m \in PolicyModes |-> d.policy[m]] /\ ValidPolicy(d.policy)
    /\ \A m \in PolicyModes : EntriesFit(d.policy[m])

LEMMA ShortSequences ==
  ASSUME NEW S, NEW a \in S, NEW b \in S, NEW c \in S
  PROVE  <<a>> \in Seq(S) /\ <<a, b>> \in Seq(S) /\ <<a, b, c>> \in Seq(S)
  OBVIOUS

LEMMA PoliciesStartFit ==
  ASSUME NEW d \in PolicyTopic
  PROVE  PolicyInputFits(d)
  <1> DEFINE A == [topic : {"policy"}, policy : {EmptyPolicy}, state : {Full}, mask : Masks, raw : {<<>>}, defaults : {<<>>}]
             B == [topic : {"policy"}, policy : {EmptyPolicy}, mask : {{}}, raw : {RawOf("v")}, defaults : {<<>>},
                   state : {StateOf(o, absent) : o \in {"v", "empty", "null"}, absent \in Absences}]
             C == [topic : {"policy"}, policy : {EmptyPolicy}, state : {Full, StateOf("w", {})}, mask : {{}},
                   raw : {Null, RawOf("w")}, defaults : Defaults]
             states == {Full, StateOf("w", {})} \cup {StateOf(o, absent) : o \in {"v", "empty", "null"}, absent \in Absences}
             raws == {<<>>, Null, RawOf("v"), RawOf("w")}
  <1>p. "policy" \in DOMAIN d
    <2>1. d \in A \/ d \in B \/ d \in C
      BY DEF PolicyTopic
    <2>2. (d \in A => "policy" \in DOMAIN d) /\ (d \in B => "policy" \in DOMAIN d) /\ (d \in C => "policy" \in DOMAIN d)
      OBVIOUS
    <2> HIDE DEF A, B, C
    <2> QED BY <2>1, <2>2
  <1>1. d.policy = EmptyPolicy /\ d.state \in states /\ d.raw \in raws /\ d.defaults \in Defaults
    <2>1. d \in A \/ d \in B \/ d \in C
      BY DEF PolicyTopic
    <2>2. <<>> \in Defaults
      BY DEF Defaults
    <2>3. d \in A => d.policy = EmptyPolicy /\ d.state = Full /\ d.raw = <<>> /\ d.defaults \in Defaults
      BY <2>2
    <2>4. d \in B => /\ d.policy = EmptyPolicy /\ d.raw = RawOf("v") /\ d.defaults \in Defaults
                     /\ d.state \in {StateOf(o, absent) : o \in {"v", "empty", "null"}, absent \in Absences}
      BY <2>2
    <2>5. d \in C => /\ d.policy = EmptyPolicy /\ d.state \in {Full, StateOf("w", {})} /\ d.raw \in {Null, RawOf("w")}
                     /\ d.defaults \in Defaults
      OBVIOUS
    <2> HIDE DEF A, B, C
    <2> QED BY <2>1, <2>3, <2>4, <2>5
  <1> HIDE DEF states, raws
  <1>2. \A state \in states : StateFits(state)
    <2>1. {} \in Absences
      BY DEF Absences
    <2> QED BY <2>1, StatesAssumption DEF states, Full
  <1>3. \A raw \in raws : RawFits(raw)
    <2>1. RawFits(<<>>) /\ RawFits(Null)
      <3>1. DOMAIN <<>> = {}
        OBVIOUS
      <3> QED BY <3>1 DEF RawFits
    <2>2. ASSUME NEW o PROVE RawFits(RawOf(o))
      <3>1. \A says : RawField(says).from = <<"raw">>
        BY DEF RawField
      <3> QED BY <3>1 DEF RawFits, RawOf
    <2> QED BY <2>1, <2>2 DEF raws
  <1>4. \A defaults \in Defaults : EntriesFit(defaults)
    <2>1. EntriesFit(<<>>)
      <3>1. <<>> \in Seq(Range(<<>>)) /\ DOMAIN <<>> = {}
        OBVIOUS
      <3> QED BY <3>1 DEF EntriesFit
    <2>2. ASSUME NEW e, e.path \in Seq(STRING) PROVE EntriesFit(<<e>>)
      <3>1. DOMAIN <<e>> = {1} /\ <<e>>[1] = e
        OBVIOUS
      <3>2. Range(<<e>>) = {e}
        BY <3>1 DEF Range
      <3>3. <<e>> \in Seq({e})
        OBVIOUS
      <3> QED BY <2>2, <3>1, <3>2, <3>3 DEF EntriesFit
    <2>3. <<"o">> \in Seq(STRING) /\ <<"b", "y">> \in Seq(STRING)
      BY StringsAssumption, ShortSequences DEF PathStrings
    <2>4. EntriesFit(<<[path |-> <<"o">>, values |-> {"w"}]>>) /\ EntriesFit(<<[path |-> <<"b", "y">>, values |-> {"v"}]>>)
      <3>1. [path |-> <<"o">>, values |-> {"w"}].path \in Seq(STRING)
            /\ [path |-> <<"b", "y">>, values |-> {"v"}].path \in Seq(STRING)
        BY <2>3
      <3> QED BY <2>2, <3>1
    <2> QED BY <2>1, <2>4 DEF Defaults
  <1>5. /\ EmptyPolicy = [m \in PolicyModes |-> EmptyPolicy[m]] /\ ValidPolicy(EmptyPolicy)
        /\ \A m \in PolicyModes : EntriesFit(EmptyPolicy[m])
    <2>1. \A m \in PolicyModes : EmptyPolicy[m] = <<>>
      BY DEF EmptyPolicy
    <2>2. DOMAIN <<>> = {} /\ <<>> \in Seq(Range(<<>>))
      OBVIOUS
    <2>3. {i \in DOMAIN EmptyPolicy["plan_tolerate"] : HasWildcard(EmptyPolicy["plan_tolerate"][i].path)} = {}
      BY <2>1, <2>2 DEF PolicyModes
    <2>4. Cardinality({}) <= MaxWildcards
      BY WildcardsAssumption, FS_EmptySet
    <2>5. ValidPolicy(EmptyPolicy)
      BY <2>1, <2>2, <2>3, <2>4 DEF ValidPolicy, PolicyModes
    <2> QED BY <2>1, <2>2, <2>5 DEF EmptyPolicy, EntriesFit
  <1> QED BY <1>p, <1>1, <1>2, <1>3, <1>4, <1>5 DEF PolicyInputFits

LEMMA EntriesAreSelectors ==
  \A m \in PolicyModes : \A e \in EntriesOf[m] : e.path \in Seq(STRING)
  <1>1. /\ <<"o">> \in Seq(STRING) /\ <<"a">> \in Seq(STRING) /\ <<"b">> \in Seq(STRING) /\ <<"s">> \in Seq(STRING)
        /\ <<"p">> \in Seq(STRING) /\ <<"c">> \in Seq(STRING) /\ <<"s", "x">> \in Seq(STRING)
    BY StringsAssumption, ShortSequences DEF PathStrings
  <1>2. <<"b", "*", "y">> \in Seq(STRING) /\ <<"s", "*", "x">> \in Seq(STRING) /\ <<"b", "0", "y">> \in Seq(STRING)
    BY StringsAssumption, ShortSequences DEF PathStrings
  <1>3. ASSUME NEW p, NEW source, NEW values, p \in Seq(STRING) PROVE E(p, source, values).path \in Seq(STRING)
    BY <1>3 DEF E, Entry
  <1>4. EntriesOf["projection_omit"] = {E(p, Null, {}) : p \in {<<"o">>, <<"a">>, <<"b", "*", "y">>, <<"b">>, <<"s">>,
                                            <<"s", "x">>, <<"s", "*", "x">>, <<"b", "0", "y">>}}
    BY DEF EntriesOf
  <1>5. EntriesOf["projection_sync"] = {E(<<"o">>, <<"c">>, {}), E(<<"o">>, <<"k">>, {}), E(<<"s", "x">>, <<"o">>, {}),
                          E(<<"p">>, <<"o">>, {}), E(<<"c">>, <<"a">>, {}), E(<<"o">>, <<"b", "y">>, {})}
    BY DEF EntriesOf
  <1>6. EntriesOf["projection_fill"] = {E(<<"o">>, <<"o">>, {}), E(<<"p">>, <<"p">>, {}), E(<<"a">>, <<"o">>, {})}
    BY DEF EntriesOf
  <1>7. EntriesOf["projection_omit_if"] = {E(<<"o">>, Null, {"v"}), E(<<"o">>, Null, {"w"}), E(<<"o">>, Null, {"null"}),
                                           E(<<"b", "*", "y">>, Null, {"v"}), E(<<"a">>, Null, {"v"})}
    BY DEF EntriesOf
  <1>8. EntriesOf["plan_tolerate"] = {E(p, Null, {}) : p \in {<<"o">>, <<"b", "*", "y">>, <<"b", "0", "y">>}}
    BY DEF EntriesOf
  <1>9. ASSUME NEW e \in EntriesOf["projection_omit"] PROVE e.path \in Seq(STRING)
    BY <1>1, <1>2, <1>3, <1>4, Zenon
  <1>10. ASSUME NEW e \in EntriesOf["projection_sync"] PROVE e.path \in Seq(STRING)
    BY <1>1, <1>3, <1>5, Zenon
  <1>11. ASSUME NEW e \in EntriesOf["projection_fill"] PROVE e.path \in Seq(STRING)
    BY <1>1, <1>3, <1>6, Zenon
  <1>12. ASSUME NEW e \in EntriesOf["projection_omit_if"] PROVE e.path \in Seq(STRING)
    BY <1>1, <1>2, <1>3, <1>7, Zenon
  <1>13. ASSUME NEW e \in EntriesOf["plan_tolerate"] PROVE e.path \in Seq(STRING)
    BY <1>1, <1>2, <1>3, <1>8, Zenon
  <1> QED BY <1>9, <1>10, <1>11, <1>12, <1>13 DEF PolicyModes

LEMMA OneMoreFits ==
  ASSUME NEW entries, EntriesFit(entries), NEW e, e.path \in Seq(STRING)
  PROVE  EntriesFit(Append(entries, e))
  <1> DEFINE S == Range(entries) \cup {e}
             more == Append(entries, e)
  <1>1. entries \in Seq(S) /\ e \in S /\ \A i \in DOMAIN entries : entries[i].path \in Seq(STRING)
    <2>1. entries \in Seq(Range(entries)) /\ Range(entries) \subseteq S
      BY DEF EntriesFit
    <2> HIDE DEF S
    <2>2. entries \in Seq(S)
      BY <2>1
    <2> QED BY <2>2 DEF EntriesFit, S
  <1>2. /\ Len(entries) \in Nat /\ DOMAIN entries = 1..Len(entries)
        /\ more \in Seq(S) /\ Len(more) = Len(entries) + 1 /\ more[Len(entries) + 1] = e
        /\ \A i \in 1..Len(entries) : more[i] = entries[i]
    <2> HIDE DEF S
    <2> QED BY <1>1, AppendIs
  <1> HIDE DEF S, more
  <1>3. DOMAIN more = 1..(Len(entries) + 1)
    BY <1>2
  <1>4. \A i \in DOMAIN more : more[i].path \in Seq(STRING)
    <2>1. ASSUME NEW i \in DOMAIN more PROVE more[i].path \in Seq(STRING)
      <3>1. i \in 1..Len(entries) \/ i = Len(entries) + 1
        BY <1>2, <1>3
      <3> QED BY <1>1, <1>2, <3>1
    <2> QED BY <2>1
  <1>5. more \in Seq(Range(more))
    <2>1. \A i \in 1..(Len(entries) + 1) : more[i] \in Range(more)
      BY <1>3 DEF Range
    <2>2. more = [i \in 1..(Len(entries) + 1) |-> more[i]] /\ Len(entries) + 1 \in Nat
      BY <1>2, <1>3
    <2> QED BY <2>1, <2>2
  <1> QED BY <1>4, <1>5 DEF EntriesFit, more

LEMMA AddedEntriesFit ==
  ASSUME PolicyInputFits(doc), AddEntry
  PROVE  PolicyInputFits(doc')
  <1>m. PICK m \in PolicyModes : \E e \in EntriesOf[m] :
           LET more == [doc.policy EXCEPT ![m] = Append(@, e)]
           IN  ValidPolicy(more) /\ doc' = [doc EXCEPT !.policy = more]
    BY DEF AddEntry
  <1>1. PICK e \in EntriesOf[m] :
           /\ ValidPolicy([doc.policy EXCEPT ![m] = Append(@, e)])
           /\ doc' = [doc EXCEPT !.policy = [doc.policy EXCEPT ![m] = Append(@, e)]]
    BY <1>m
  <1> DEFINE more == [doc.policy EXCEPT ![m] = Append(@, e)]
  <1>2. /\ more = [n \in PolicyModes |-> more[n]]
        /\ \A n \in PolicyModes : more[n] = IF n = m THEN Append(doc.policy[m], e) ELSE doc.policy[n]
    BY DEF PolicyInputFits
  <1>3. \A n \in PolicyModes : EntriesFit(more[n])
    <2>1. EntriesFit(Append(doc.policy[m], e))
      BY <1>1, EntriesAreSelectors, OneMoreFits DEF PolicyInputFits
    <2> QED BY <1>2, <2>1 DEF PolicyInputFits
  <1>4. ValidPolicy(more) /\ doc' = [doc EXCEPT !.policy = more]
    BY <1>1
  <1> HIDE DEF more
  <1>5. doc'.state = doc.state /\ doc'.raw = doc.raw /\ doc'.defaults = doc.defaults
    BY <1>4
  <1>6. doc'.policy = more
    BY <1>4 DEF PolicyInputFits
  <1>7. "policy" \in DOMAIN doc'
    BY <1>4 DEF PolicyInputFits
  <1> QED BY <1>2, <1>3, <1>4, <1>5, <1>6, <1>7 DEF PolicyInputFits

\* The states, raw items, masks and defaults of the instance, whatever entries are added to
\* the policy (ProjectProviderState, StaleEntries, compilePlanTolerances).
THEOREM PoliciesHereAreSafe ==
  doc \in PolicyTopic /\ [][AddEntry]_doc => []PolicyIsSafeHere
  <1> DEFINE IInv == PolicyInputFits(doc)
  <1>1. doc \in PolicyTopic => IInv
    BY PoliciesStartFit
  <1>2. IInv /\ [AddEntry]_doc => IInv'
    <2>1. IInv /\ AddEntry => IInv'
      BY AddedEntriesFit
    <2>2. IInv /\ doc' = doc => IInv'
      OBVIOUS
    <2> QED BY <2>1, <2>2
  <1>3. IInv => PolicyIsSafeHere
    <2> SUFFICES ASSUME PolicyInputFits(doc) PROVE PolicyIsSafeHere
      OBVIOUS
    <2> DEFINE projected == ProjectProviderState(doc.state, doc.mask, doc.policy, doc.raw, doc.defaults)
    <2>1. ASSUME ~ projected.failed
          PROVE  /\ ObjectIsSafe(projected.output, doc.state, doc.mask, doc.policy["projection_omit"])
                 /\ ProjectProviderState(doc.state, doc.mask, UsedEntries(doc.policy, projected.matched), doc.raw, doc.defaults)
                      = projected
      BY <2>1, ProjectedObjectsAreSafe, StaleEntriesHaveNoEffect DEF PolicyInputFits
    <2>2. ASSUME NEW path \in DOMAIN doc.state PROVE TolerancesReadInOrder(doc.policy["plan_tolerate"], path)
      <3>1. path \in Seq(STRING) /\ EntriesFit(doc.policy["plan_tolerate"])
        BY DEF PolicyInputFits, StateFits, PolicyModes
      <3> QED BY <3>1, TolerancesAreReadInOrder
    <2> QED BY <2>1, <2>2 DEF PolicyIsSafeHere, PolicyIsSafe
  <1> QED BY <1>1, <1>2, <1>3, PTL

=============================================================================
