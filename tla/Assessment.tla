----------------------------- MODULE Assessment -----------------------------
(***************************************************************************)
(* `iw assert-clean` and `iw assert-adoptable`: report what the saved      *)
(* plans of a workspace would do (go/internal/assessment/assessment.go     *)
(* under runner.go), next to the planner, clean-plans and the editors of   *)
(* SavedPlan.                                                              *)
(*                                                                         *)
(* Unlike apply, the transaction keeps the evidence of every root until    *)
(* the last one is classified and rechecks all of it twice before it       *)
(* reports.  Every read is a step; every step may fail, by an error or     *)
(* because the deadline of the operation is over.                          *)
(***************************************************************************)
EXTENDS SavedPlanEvidence, PlanEval

CONSTANTS
    Policies,  \* contents of the drift-policy file, {Null} when no --policy is given
    InitPolicies,  \* those the workspace starts with
    Controls,  \* contents of the deployment file
    Modes,     \* the [adoptable, scoped] options of the assertions in use
    Disturbs   \* whether the private snapshots may be unlinked or truncated

ASSUME AssessmentAssumption ==
    /\ Policies = {Null} \/ Null \notin Policies
    /\ InitPolicies \subseteq Policies
    /\ \A m \in Modes : /\ m \in [adoptable : BOOLEAN, scoped : BOOLEAN]
                        /\ ~(m.adoptable /\ m.scoped)
    /\ Disturbs \in BOOLEAN
    /\ \A b \in Bodies : \A c \in b.changes \cup b.drift :
         c.identity \in BOOLEAN /\ c.sensitivity \in BOOLEAN

VARIABLES
    policy,    \* the drift-policy file the command line names
    controls,  \* the deployment file
    sa,        \* the state of the assertion process
    earlier,   \* history: what others changed during the first closing pass
    away,      \* history: what was not as bound when the last pass began
    touched    \* history: what others changed since the last pass began

vars == <<inputs, tfplan, sources, attest, pl, cl, plans, edits, epoch, churn,
          policy, controls, sa, earlier, away, touched>>

spState  == <<tfplan, sources, attest, inputs, pl, cl, plans, edits, epoch, churn>>
external == <<policy, controls>>
history  == <<earlier, away, touched>>

\* evs, scopes: per root; kept: how many roots are registered for the cleanup;
\* stray: a failed preparation left a name in the private directory.
AssertIdle ==
    [pc |-> "idle", mode |-> [adoptable |-> FALSE, scoped |-> FALSE], k |-> 1, i |-> 1,
     pass |-> 1, policy |-> Null, controls |-> Null, selected |-> <<>>,
     evs |-> [r \in Roots |-> NoEvidence], scopes |-> [r \in Roots |-> Null], kept |-> 0,
     status |-> Null, rows |-> <<>>, failing |-> FALSE, stray |-> FALSE, unclean |-> FALSE]

-----------------------------------------------------------------------------
(* What is read *)

\* assert-clean takes no policy.
PolicyFile(mode) == IF mode.adoptable THEN policy ELSE Null

\* MaterializeLoadedSavedPlanAssessmentRoots: s lists the saved roots in planning order.
Selections == UNION {[1..n -> Roots] : n \in 0..Len(Order)}
Selects(s) ==
    /\ {s[n] : n \in 1..Len(s)} = SavedRoots
    /\ \A m, n \in 1..Len(s) :
         m < n => \E i, j \in 1..Len(Order) : i < j /\ Order[i] = s[m] /\ Order[j] = s[n]

\* captured.assessment.Roots[i].
sroot == sa.selected[sa.i]

\* deriveAssessmentImportScope.
ImportScope(r) == StagedTargets(r)

\* One read against what the transaction is bound to.
Holds(check, r) ==
    CASE check = "policy"   -> PolicyFile(sa.mode) = sa.policy
      [] check = "controls" -> controls = sa.controls
      [] check = "context"  -> Selects(sa.selected)
      [] check = "scopes"   ->
           sa.mode.scoped =>
             \A n \in 1..Len(sa.selected) :
               LET s == sa.selected[n] IN sa.scopes[s] # {} /\ ImportScope(s) = sa.scopes[s]
      [] check \notin {"policy", "controls", "context", "scopes"} ->
           Bound(check, r, sa.evs[r])

Assessed == {sa.rows[n].root : n \in 1..Len(sa.rows)}

\* What the report rests on and what of it differs from its bound value.
Stale ==
    {x \in {"declared", "current", "original", "attested"} \X Assessed :
       ~Bound(x[1], x[2], sa.evs[x[2]])}
      \cup {<<c, Null>> : c \in {d \in {"policy", "controls", "context"} : ~Holds(d, Null)}}
      \cup {<<"scopes", r>> : r \in {s \in Assessed : sa.mode.scoped
                                                      /\ ImportScope(s) # sa.scopes[s]}}

\* The transaction loads the policy again, expecting the digest of the
\* preflight, then runs recheckAssessmentContext.
StartScript == <<"policy", "controls", "context", "controls", "context">>

\* Mutant: a pass leaves out the policy.
PassWithoutPolicy == <<"controls", "context", "controls", "context", "scopes">>

\* What a closing pass reads after the evidence of every root.
PassScript == <<"policy", "controls", "context", "controls", "context", "scopes">>

-----------------------------------------------------------------------------
(* The process *)

SGoto(pc) == sa' = [sa EXCEPT !.pc = pc, !.k = 1]

\* On to the next read of a script, or to what follows it.
Through(script, next) ==
    IF sa.k < Len(script) THEN [sa EXCEPT !.k = @ + 1]
                          ELSE [next EXCEPT !.k = 1]

StartAssert(mode) ==
    /\ sa.pc \in {"idle", "done", "failed"}
    /\ sa' = [AssertIdle EXCEPT !.pc = "preflight", !.mode = mode]
    /\ UNCHANGED <<spState, external, history>>

\* preflightPolicy, loadSavedPlanAssertionInputs, resolveInputs.
Preflight ==
    /\ \/ /\ sa.pc = "preflight"
          /\ sa' = [sa EXCEPT !.policy = PolicyFile(sa.mode), !.pc = "bind"]
       \/ /\ sa.pc = "bind"
          /\ sa' = [sa EXCEPT !.controls = controls, !.pc = "resolve"]
       \/ /\ sa.pc = "resolve"
          /\ \E s \in Selections :
               Selects(s) /\ sa' = [sa EXCEPT !.selected = s, !.pc = "start"]
    /\ UNCHANGED <<spState, external, history>>

\* Up to the first root; a workspace without saved plans is a failure.
Begin ==
    /\ sa.pc = "start"
    /\ Holds(StartScript[sa.k], Null)
    /\ sa.k = Len(StartScript) => sa.selected # <<>>
    /\ sa' = Through(StartScript, [sa EXCEPT !.pc = "prepare"])
    /\ UNCHANGED <<spState, external, history>>

PrepareEvidence ==
    /\ sa.pc = "prepare"
    /\ \E ev \in PreparedBy(PrepareScript[sa.k], sroot, sa.evs[sroot]) :
         sa' = [Through(PrepareScript, [sa EXCEPT !.pc = "show", !.kept = @ + 1])
                  EXCEPT !.evs[sroot] = ev]
    /\ UNCHANGED <<spState, external, history>>

\* terraform show of the path of the snapshot.
ShowSnapshot ==
    LET ev == sa.evs[sroot]
    IN  /\ sa.pc = "show"
        /\ ev.linked /\ ev.copy # Torn
        /\ sa' = [sa EXCEPT !.evs[sroot].shown = ev.copy.body, !.pc = "controls"]
        /\ UNCHANGED <<spState, external, history>>

RecheckControls ==
    /\ sa.pc = "controls"
    /\ Holds("controls", Null)
    /\ SGoto("recheck")
    /\ UNCHANGED <<spState, external, history>>

\* RecheckSavedPlanEvidence before and after the classification.
RecheckEvidence ==
    /\ sa.pc = "recheck"
    /\ Holds(EvidenceScript[sa.k], sroot)
    /\ sa' = Through(EvidenceScript,
                     [sa EXCEPT !.pc = IF sa.status = Null THEN "classify" ELSE "row"])
    /\ UNCHANGED <<spState, external, history>>

Attested(att) == IF att = Null THEN Null ELSE [targets |-> att.targets]

\* Mutant: the policy file is read once more.
PolicyNow == PolicyFile(sa.mode)

\* boundPolicy.Policy.
PolicyInUse == sa.policy

\* ClassifyPlanWithOptions; an empty import scope is an error.
Classify ==
    LET ev    == sa.evs[sroot]
        scope == IF sa.mode.scoped THEN ImportScope(sroot) ELSE Null
    IN  /\ sa.pc = "classify"
        /\ scope # {}
        /\ ValidateAssessmentPlan(ev.shown, Attested(ev.att), scope)
        /\ sa' = [sa EXCEPT
                    !.scopes[sroot] = scope,
                    !.status = ClassifyPlan(ev.shown, PolicyInUse, scope, sa.mode.adoptable),
                    !.pc = "recheck"]
        /\ UNCHANGED <<spState, external, history>>

MoreRoots == sa.i < Len(sa.selected)

\* The row of the root, then the next root or the closing passes.
AddRow ==
    LET row == [root |-> sroot, plan |-> sa.evs[sroot].plan, src |-> sa.evs[sroot].src,
                scope |-> sa.scopes[sroot], status |-> sa.status]
    IN  /\ sa.pc = "row"
        /\ sa' = [sa EXCEPT !.rows = Append(@, row), !.status = Null,
                            !.i  = IF MoreRoots THEN @ + 1 ELSE 1,
                            !.pc = IF MoreRoots THEN "prepare" ELSE "pass"]
        /\ UNCHANGED <<spState, external, history>>

EvidenceLeft == sa.i <= sa.kept

\* A closing pass: the evidence of each root, then everything else.
ClosingPass ==
    LET script == IF EvidenceLeft THEN EvidenceScript ELSE PassScript
    IN  /\ sa.pc = "pass"
        /\ Holds(script[sa.k], IF EvidenceLeft THEN sroot ELSE Null)
        /\ sa' = Through(script,
                   IF EvidenceLeft THEN [sa EXCEPT !.i = @ + 1]
                   ELSE IF sa.pass = 1 THEN [sa EXCEPT !.i = 1, !.pass = 2]
                   ELSE [sa EXCEPT !.pc = "report"])
        /\ away' = IF sa'.pass # sa.pass THEN Stale ELSE away
        /\ UNCHANGED <<spState, external, earlier, touched>>

\* The histories are of the closing passes of one report.
Forget == earlier' = {} /\ away' = {} /\ touched' = {}

Report ==
    /\ sa.pc = "report"
    /\ sa' = [sa EXCEPT !.pc = "scrub", !.i = 1]
    /\ Forget /\ UNCHANGED <<spState, external>>

\* What remains to be seen of an assertion that has ended.
Ended(pc, unclean) ==
    [AssertIdle EXCEPT !.pc = pc, !.mode = sa.mode, !.policy = sa.policy, !.evs = sa.evs,
                       !.selected = sa.selected, !.rows = sa.rows, !.unclean = unclean]

\* Any step may fail.  Before the private directory is made there is nothing to
\* clean; a failed preparation scrubs its own snapshot and leaves the name of
\* it in the directory.
AssertFails ==
    /\ \/ /\ sa.pc \in {"preflight", "bind", "resolve", "start"}
          /\ sa' = Ended("failed", FALSE)
       \/ /\ sa.pc = "prepare"
          /\ \E left \in ScrubLeaves(sa.evs[sroot]) :
               sa' = [sa EXCEPT !.pc = "scrub", !.i = 1, !.k = 1, !.failing = TRUE,
                                !.evs[sroot] = left,
                                !.stray = sa.evs[sroot].plan # Null]
       \/ /\ sa.pc \in {"show", "controls", "recheck", "classify", "row", "pass", "report"}
          /\ sa' = [sa EXCEPT !.pc = "scrub", !.i = 1, !.k = 1, !.failing = TRUE]
    /\ Forget /\ UNCHANGED <<spState, external>>

\* Mutant: only a root that has its row is scrubbed.
WithRow == Len(sa.rows)

\* The evidence list of the deferred cleanup.
ToScrub == sa.kept

\* The deferred cleanup, root by root: a scrub that fails does not stop the rest.
Scrub ==
    /\ sa.pc = "scrub"
    /\ IF sa.i <= ToScrub
       THEN \E left \in ScrubLeaves(sa.evs[sroot]) :
              sa' = [sa EXCEPT !.evs[sroot] = left, !.i = @ + 1,
                               !.unclean = @ \/ left.copy # Null]
       ELSE SGoto("directory")
    /\ UNCHANGED <<spState, external, history>>

\* cleanupAssessmentTemporaryDirectory, unless a scrub failed: it refuses a
\* directory with a name it does not expect, and may fail.  Then the end.
RemoveDirectory ==
    /\ sa.pc = "directory"
    /\ \E refused \in BOOLEAN :
         LET unclean == sa.unclean \/ refused
         IN  /\ sa.stray => unclean
             /\ sa' = Ended(IF sa.failing \/ unclean THEN "failed" ELSE "done", unclean)
    /\ UNCHANGED <<spState, external, history>>

AssertCrash ==
    /\ sa.pc \notin {"idle", "done", "failed"}
    /\ sa' = AssertIdle
    /\ Forget
    /\ UNCHANGED <<spState, external>>

AssertStep ==
    \/ Preflight \/ Begin \/ PrepareEvidence \/ ShowSnapshot \/ RecheckControls
    \/ RecheckEvidence \/ Classify \/ AddRow \/ ClosingPass \/ Report
    \/ AssertFails \/ Scrub \/ RemoveDirectory

-----------------------------------------------------------------------------
(* The others *)

\* The closing passes run, or are over and the report is made.
Watched == sa.pc \in {"pass", "report"}

\* What of root r a step of another process changed.
Changes(r) ==
    (IF inputs'[r] # inputs[r] THEN {<<"current", r>>, <<"scopes", r>>} ELSE {})
      \cup (IF sources'[r] # sources[r] THEN {<<"declared", r>>} ELSE {})
      \cup (IF tfplan'[r] # tfplan[r] THEN {<<"original", r>>} ELSE {})
      \cup (IF (tfplan'[r] = Null) # (tfplan[r] = Null) THEN {<<"context", Null>>} ELSE {})
      \cup (IF attest'[r] # attest[r] THEN {<<"attested", r>>} ELSE {})

\* The histories after a step of another process.
Noted(changes) ==
    /\ earlier' = IF Watched /\ sa.pass = 1 THEN earlier \cup changes ELSE earlier
    /\ touched' = IF Watched /\ sa.pass = 2 THEN touched \cup changes ELSE touched
    /\ UNCHANGED away

OthersStep ==
    /\ SPNext
    /\ Noted(UNION {Changes(r) : r \in Roots})
    /\ UNCHANGED <<external, sa>>

EditPolicy(c) ==
    /\ edits < MaxEdits /\ policy # c
    /\ edits' = edits + 1
    /\ policy' = c
    /\ Noted({<<"policy", Null>>})
    /\ UNCHANGED <<inputs, tfplan, sources, attest, pl, cl, plans, epoch, churn,
                   controls, sa>>

EditControls(c) ==
    /\ edits < MaxEdits /\ controls # c
    /\ edits' = edits + 1
    /\ controls' = c
    /\ Noted({<<"controls", Null>>})
    /\ UNCHANGED <<inputs, tfplan, sources, attest, pl, cl, plans, epoch, churn,
                   policy, sa>>

\* The private directory is cleaned under the running process.
DisturbSnapshots ==
    /\ Disturbs /\ edits < MaxEdits
    /\ edits' = edits + 1
    /\ \E r \in Roots :
         /\ sa.pc \notin {"idle", "done", "failed"}
         /\ sa.evs[r].linked /\ sa.evs[r].copy \notin {Null, Torn}
         /\ \/ sa' = [sa EXCEPT !.evs[r].linked = FALSE]
            \/ sa' = [sa EXCEPT !.evs[r].copy = Torn]
    /\ UNCHANGED <<inputs, tfplan, sources, attest, pl, cl, plans, epoch, churn, external, history>>

-----------------------------------------------------------------------------
Init ==
    /\ SPInit
    /\ policy \in InitPolicies /\ controls \in Controls
    /\ sa = AssertIdle
    /\ earlier = {} /\ away = {} /\ touched = {}

Next ==
    \/ OthersStep
    \/ \E mode \in Modes : StartAssert(mode)
    \/ AssertStep
    \/ AssertCrash
    \/ \E c \in Policies : EditPolicy(c)
    \/ \E c \in Controls : EditControls(c)
    \/ DisturbSnapshots

Spec == Init /\ [][Next]_vars

-----------------------------------------------------------------------------
(* Properties *)

\* A report that is made covers every saved root, in order; a partial one the
\* roots before the one it stopped at.
CoversSelection ==
    /\ Len(sa.rows) <= Len(sa.selected)
    /\ \A n \in 1..Len(sa.rows) : sa.rows[n].root = sa.selected[n]
    /\ sa.pc = "done" => sa.rows # <<>> /\ Len(sa.rows) = Len(sa.selected)

\* A report is a report of one moment, the one at which the last closing pass
\* began: every saved plan, declaration, attestation and input of every root,
\* the set of saved roots, the policy, the deployment and the import scopes were
\* then what the rows were computed from.  What the two passes over files that no
\* lock protects cannot see is only what somebody took away during the first
\* pass and put back during the last; and whatever differs when the report is
\* made was changed after that moment (runSavedPlanAssessment).
ReportIsOfOneMoment ==
    /\ CoversSelection
    /\ sa.pc = "report" =>
         /\ Stale \subseteq touched
         /\ away \subseteq earlier \cap touched

\* A clean plan has only no-ops, imports and updates that move nothing, with
\* the policy it names a tolerated plan changes no more than that policy
\* tolerates.
StatusIsTrue(row) ==
    LET changes == {c \in row.plan.body.changes : InScope(c, row.scope)}
        drift   == {c \in row.plan.body.drift : InScope(c, row.scope)}
    IN  /\ row.status = Clean => \A c \in changes \cup drift : Harmless(c, Null)
        /\ row.status = Tolerated =>
             /\ \A c \in changes : Harmless(c, sa.policy)
             /\ sa.mode.adoptable \/ \A c \in drift : Harmless(c, sa.policy)

\* A targeted plan says nothing about the rest of its root.  It has a row only
\* as the import of exactly the addresses it was really planned for or, scoped,
\* as a plan without effect on exactly the addresses staged for import.
TargetsAccountedFor(row) ==
    ~row.plan.body.complete =>
       \/ /\ ImportsOnly(row.plan.body)
          /\ row.plan.targets = ImportingAddresses(row.plan.body)
       \/ /\ row.scope # Null /\ row.plan.targets = row.scope
          /\ \A c \in row.plan.body.changes : OnlyNoOp(c)

\* A row tells the truth about the plan whose digest it names, in finished and
\* in partial reports, for whole and for targeted plans, whoever rewrites plan,
\* policy or snapshot meanwhile.
RowsTellTheTruth ==
    \A n \in 1..Len(sa.rows) :
       StatusIsTrue(sa.rows[n]) /\ TargetsAccountedFor(sa.rows[n])

\* No copy of a plan outlives the process unnoticed: a successful assertion
\* left none, and one that left any says that its cleanup failed.
CopiesAreScrubbed ==
    sa.pc \in {"done", "failed"} /\ ~sa.unclean => \A r \in Roots : sa.evs[r].copy = Null
=============================================================================
