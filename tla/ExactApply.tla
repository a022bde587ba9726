----------------------------- MODULE ExactApply -----------------------------
(***************************************************************************)
(* `iw apply`: apply only selected, current, fully classified saved plans  *)
(* (go/internal/assessment/exact_plan_apply.go over the evidence of        *)
(* go/internal/plan/evidence.go), next to the planner, clean-plans and the *)
(* editors of SavedPlan.                                                   *)
(*                                                                         *)
(* The apply process takes a private snapshot of tfplan, checks it against *)
(* the files of the root, shows and classifies the snapshot through an     *)
(* open descriptor, checks everything again and hands the same descriptor  *)
(* to Terraform.  Every file read is a step of its own: any other process  *)
(* may move between two of them.                                           *)
(***************************************************************************)
EXTENDS SavedPlanEvidence, PlanEval

CONSTANTS
    Policies,  \* contents of the drift-policy file, {Null} when no --policy is given
    Controls,  \* contents of the deployment / pack control files
    Options,   \* the override flags of `iw apply` in use
    Disturbs   \* whether the private snapshot may be unlinked or truncated

ASSUME ExactApplyAssumption ==
    /\ Policies = {Null} \/ Null \notin Policies
    /\ Options \subseteq [allowDestroy : BOOLEAN, allowPlanChanges : BOOLEAN,
                          allowNonMain : BOOLEAN]
    /\ Disturbs \in BOOLEAN
    /\ \A b \in Bodies : \A c \in b.changes \cup b.drift :
         c.identity \in BOOLEAN /\ c.sensitivity \in BOOLEAN

VARIABLES
    policy,    \* the drift-policy file the command line names
    controls,  \* the control files
    ap,        \* the state of the `iw apply` process
    log,       \* history: the terraform apply commands of this invocation
    touched    \* history: what others changed since the final recheck began

vars == <<inputs, tfplan, sources, attest, pl, cl, plans, edits, epoch, churn,
          policy, controls, ap, log, touched>>

spState  == <<tfplan, sources, attest, inputs, pl, cl, plans, edits, epoch, churn>>
external == <<policy, controls>>

\* left is a history: the roots of this run whose copy its cleanup left behind.
ApplyIdle ==
    [pc |-> "idle", k |-> 1, i |-> 1, final |-> FALSE, selected |-> {}, ev |-> NoEvidence,
     left |-> {},
     policy |-> Null, controls |-> Null, applied |-> 0, failing |-> FALSE,
     opts |-> [allowDestroy |-> FALSE, allowPlanChanges |-> FALSE, allowNonMain |-> FALSE]]

-----------------------------------------------------------------------------
(* Selection and checks *)

\* Roots are taken in planning order: the first selected one from k on is i.
FirstSelected(selected, k, i) ==
    Order[i] \in selected /\ \A j \in k..(i - 1) : Order[j] \notin selected

aroot == Order[ap.i]

\* selectedRoots[index:], what the recheck expects to find.
ExpectedRoots == ap.selected \cap {Order[j] : j \in ap.i..Len(Order)}

\* One read of the recheck script.
Holds(check) ==
    CASE check = "context"  -> SavedRoots = ExpectedRoots
      [] check = "policy"   -> policy = ap.policy
      [] check = "controls" -> controls = ap.controls
      [] check \notin {"context", "policy", "controls"} -> Bound(check, aroot, ap.ev)

\* Mutant: a recheck that leaves out the control files.
RecheckWithoutControls ==
    <<"context", "identity", "attested", "original", "declared", "current", "digest",
      "identity", "declared", "current", "original", "digest", "attested", "identity",
      "policy">>

\* The reads of recheckExactApplyEvidence around RecheckSavedPlanEvidence.
RecheckScript ==
    <<"controls", "context",
      "identity", "attested", "original", "declared", "current", "digest",
      "identity", "declared", "current", "original", "digest", "attested",
      "identity",
      "policy", "controls">>

-----------------------------------------------------------------------------
(* The process *)

AGoto(pc) == ap' = [ap EXCEPT !.pc = pc]

\* What remains to be seen of a process that has ended.
Ended(pc) == [ApplyIdle EXCEPT !.pc = pc, !.selected = ap.selected, !.i = ap.i,
                               !.applied = ap.applied]

\* applyExactPlanRoot returns an error: on to its deferred cleanup.
Refuse == ap' = [ap EXCEPT !.pc = "cleanup", !.failing = TRUE]

\* applyExactSavedPlans: the branch gate.
StartApply(opts, onMain) ==
    /\ ap.pc \in {"idle", "done", "failed"}
    /\ ap' = [ApplyIdle EXCEPT !.opts = opts,
                               !.pc = IF onMain \/ opts.allowNonMain
                                      THEN "policy" ELSE "failed"]
    /\ log' = <<>>
    /\ UNCHANGED <<spState, external, touched>>

LoadPolicy ==
    /\ ap.pc = "policy"
    /\ ap' = [ap EXCEPT !.policy = policy, !.pc = "controls"]
    /\ UNCHANGED <<spState, external, log, touched>>

LoadInputs ==
    /\ ap.pc = "controls"
    /\ ap' = [ap EXCEPT !.controls = controls, !.pc = "bound"]
    /\ UNCHANGED <<spState, external, log, touched>>

RecheckControls ==
    /\ ap.pc = "bound"
    /\ AGoto(IF Holds("controls") THEN "materialize" ELSE "failed")
    /\ UNCHANGED <<spState, external, log, touched>>

Materialize ==
    /\ ap.pc = "materialize"
    /\ \/ /\ SavedRoots = {}
          /\ AGoto("failed")
       \/ \E i \in 1..Len(Order) :
            /\ FirstSelected(SavedRoots, 1, i)
            /\ ap' = [ap EXCEPT !.selected = SavedRoots, !.i = i, !.pc = "prepare"]
    /\ UNCHANGED <<spState, external, log, touched>>

\* One read of PrepareSavedPlanEvidence.
Prepare ==
    LET found == PreparedBy(PrepareScript[ap.k], aroot, ap.ev)
    IN  /\ ap.pc = "prepare"
        /\ \/ \E ev \in found :
                 ap' = [ap EXCEPT !.ev = ev,
                                  !.k = IF @ = Len(PrepareScript) THEN 1 ELSE @ + 1,
                                  !.pc = IF ap.k = Len(PrepareScript) THEN "init" ELSE "prepare"]
           \/ found = {} /\ Refuse
        /\ UNCHANGED <<spState, external, log, touched>>

\* RequireBackendConfiguration, then terraform init, which may write the lock.
ApplyInitialize ==
    /\ ap.pc = "init"
    /\ \/ /\ BackendConfigured(aroot)
          /\ TerraformInit(aroot)
          /\ AGoto("recheck")
       \/ Refuse /\ UNCHANGED <<inputs, epoch>>
    /\ UNCHANGED <<tfplan, sources, attest, pl, cl, plans, edits, churn, external, log, touched>>

\* One read of recheckExactApplyEvidence, before and after classification.
Recheck ==
    /\ ap.pc = "recheck"
    /\ IF Holds(RecheckScript[ap.k])
       THEN ap' = [ap EXCEPT !.k = IF @ = Len(RecheckScript) THEN 1 ELSE @ + 1,
                             !.pc = IF ap.k < Len(RecheckScript) THEN "recheck"
                                    ELSE IF ap.final THEN "fdCheck" ELSE "open"]
       ELSE Refuse
    /\ UNCHANGED <<spState, external, log, touched>>

\* OpenSavedPlanSnapshot: from here on the descriptor names the bytes.
OpenSnapshot ==
    /\ ap.pc = "open"
    /\ IF Holds("digest")
       THEN ap' = [ap EXCEPT !.ev.fd = TRUE, !.pc = "show"]
       ELSE Refuse
    /\ UNCHANGED <<spState, external, log, touched>>

\* terraform show of the descriptor; bytes that are no plan fail.
ShowSnapshot ==
    /\ ap.pc = "show"
    /\ \/ /\ ap.ev.copy # Torn
          /\ ap' = [ap EXCEPT !.ev.shown = ap.ev.copy.body, !.pc = "gate"]
       \/ Refuse
    /\ UNCHANGED <<spState, external, log, touched>>

\* The attestation as the contract sees it.
Attested(att) == IF att = Null THEN Null ELSE [targets |-> att.targets]

\* Completeness, classification and the two refusals, then the final recheck.
Gate ==
    /\ ap.pc = "gate"
    /\ IF ApplyGate(ap.ev.shown, ap.policy, Attested(ap.ev.att),
                    ap.opts.allowDestroy, ap.opts.allowPlanChanges)
       THEN ap' = [ap EXCEPT !.final = TRUE, !.k = 1, !.pc = "recheck"] /\ touched' = {}
       ELSE Refuse /\ UNCHANGED touched
    /\ UNCHANGED <<spState, external, log>>

\* RecheckSavedPlanSnapshot of the descriptor.
RecheckDescriptor ==
    /\ ap.pc = "fdCheck"
    /\ IF ap.ev.copy = ap.ev.plan THEN AGoto("apply") ELSE Refuse
    /\ UNCHANGED <<spState, external, log, touched>>

\* What an apply depends on, and what of it differs from its bound value.
Checks == {"declared", "current", "original", "attested", "context", "policy", "controls"}

Stale ==
    {x \in Checks : ~Holds(x)}

\* Mutant: Terraform is given the path of the saved plan.
AppliedByPath == tfplan[aroot]

\* The bytes behind the descriptor Terraform is given.
AppliedPlan == ap.ev.copy

\* terraform apply of the descriptor.  A failed apply may have changed
\* something, so the history keeps it as well; it is not counted.
TerraformApply ==
    LET entry(ok) == [at |-> ap.i, plan |-> AppliedPlan, policy |-> ap.policy,
                      opts |-> ap.opts, att |-> ap.ev.att, src |-> ap.ev.src,
                      unseen |-> Stale \ touched, ok |-> ok]
    IN  /\ ap.pc = "apply"
        /\ \/ /\ AppliedPlan \notin {Null, Torn}
              /\ log' = Append(log, entry(TRUE))
              /\ ap' = [ap EXCEPT !.applied = @ + 1, !.ev.fd = FALSE, !.pc = "dropPlan"]
           \/ /\ AppliedPlan \notin {Null, Torn}
              /\ log' = Append(log, entry(FALSE))
              /\ Refuse
           \/ Refuse /\ UNCHANGED log
        /\ UNCHANGED <<spState, external, touched>>

\* RemoveSavedPlanArtifacts of the applied root, by path.
DropApplied ==
    /\ ap.pc \in {"dropPlan", "dropSources", "dropAttest"}
    /\ \/ /\ tfplan'  = IF ap.pc = "dropPlan" THEN [tfplan EXCEPT ![aroot] = Null] ELSE tfplan
          /\ sources' = IF ap.pc = "dropSources" THEN [sources EXCEPT ![aroot] = Null] ELSE sources
          /\ attest'  = IF ap.pc = "dropAttest" THEN [attest EXCEPT ![aroot] = Null] ELSE attest
          /\ AGoto(CASE ap.pc = "dropPlan" -> "dropSources"
                     [] ap.pc = "dropSources" -> "dropAttest"
                     [] ap.pc = "dropAttest" -> "cleanup")
       \/ Refuse /\ UNCHANGED <<tfplan, sources, attest>>
    /\ UNCHANGED <<inputs, pl, cl, plans, edits, epoch, churn, external, log, touched>>

\* Mutants: the error of the cleanup, or that of the root, is dropped.
RootAloneFailed(copy, refused)    == ap.failing
CleanupAloneFailed(copy, refused) == copy # Null \/ refused

\* An error of the cleanup is the result only of a root that had none.
RootFailed(copy, refused) == ap.failing \/ copy # Null \/ refused

\* The deferred cleanup: close the descriptor, scrub the bound inode and, unless
\* that failed, remove the directory, which may be refused.  Then the first
\* error, the next root, or the end.
Cleanup ==
    /\ ap.pc = "cleanup"
    /\ \E ev \in ScrubLeaves(ap.ev), refused \in BOOLEAN :
         LET failed == RootFailed(ev.copy, refused)
             left   == ap.left \cup (IF ev.copy = Null THEN {} ELSE {aroot})
         IN  \/ /\ failed
                /\ ap' = [Ended("failed") EXCEPT !.left = left]
             \/ /\ ~failed
                /\ \A i \in (ap.i + 1)..Len(Order) : Order[i] \notin ap.selected
                /\ ap' = [Ended("done") EXCEPT !.left = left]
             \/ /\ ~failed
                /\ \E i \in (ap.i + 1)..Len(Order) :
                     /\ FirstSelected(ap.selected, ap.i + 1, i)
                     /\ ap' = [ap EXCEPT !.ev = NoEvidence, !.k = 1, !.final = FALSE,
                                         !.i = i, !.left = left, !.pc = "prepare"]
    /\ touched' = {}
    /\ UNCHANGED <<spState, external, log>>

ApplyCrash ==
    /\ ap.pc \notin {"idle", "done", "failed"}
    /\ ap' = ApplyIdle
    /\ log' = <<>> /\ touched' = {}
    /\ UNCHANGED <<spState, external>>

ApplyStep ==
    \/ LoadPolicy \/ LoadInputs \/ RecheckControls \/ Materialize \/ Prepare
    \/ ApplyInitialize \/ Recheck \/ OpenSnapshot \/ ShowSnapshot \/ Gate
    \/ RecheckDescriptor \/ TerraformApply \/ DropApplied \/ Cleanup

-----------------------------------------------------------------------------
(* The others *)

\* The files the final recheck of the running root covers, changed by a step
\* of another process.
Watched == ap.pc \in {"recheck", "fdCheck", "apply"} /\ ap.final

Changes ==
    (IF inputs'[aroot] # inputs[aroot] THEN {"current"} ELSE {})
      \cup (IF sources'[aroot] # sources[aroot] THEN {"declared"} ELSE {})
      \cup (IF tfplan'[aroot] # tfplan[aroot] THEN {"original"} ELSE {})
      \cup (IF attest'[aroot] # attest[aroot] THEN {"attested"} ELSE {})
      \cup (IF tfplan' # tfplan THEN {"context"} ELSE {})

OthersStep ==
    /\ SPNext
    /\ touched' = IF Watched THEN touched \cup Changes ELSE touched
    /\ UNCHANGED <<external, ap, log>>

\* Somebody edits the policy or a control file.
EditPolicy(c) ==
    /\ edits < MaxEdits /\ policy # c
    /\ edits' = edits + 1
    /\ policy' = c
    /\ touched' = IF Watched THEN touched \cup {"policy"} ELSE touched
    /\ UNCHANGED <<inputs, tfplan, sources, attest, pl, cl, plans, epoch, churn,
                   controls, ap, log>>

EditControls(c) ==
    /\ edits < MaxEdits /\ controls # c
    /\ edits' = edits + 1
    /\ controls' = c
    /\ touched' = IF Watched THEN touched \cup {"controls"} ELSE touched
    /\ UNCHANGED <<inputs, tfplan, sources, attest, pl, cl, plans, epoch, churn,
                   policy, ap, log>>

\* The private directory is cleaned under the running process.
DisturbSnapshot ==
    /\ Disturbs
    /\ ap.ev.linked /\ ap.ev.copy # Torn
    /\ \/ ap' = [ap EXCEPT !.ev.linked = FALSE]
       \/ ap' = [ap EXCEPT !.ev.copy = Torn]
    /\ UNCHANGED <<spState, external, log, touched>>

-----------------------------------------------------------------------------
Init ==
    /\ SPInit
    /\ policy \in Policies /\ controls \in Controls
    /\ ap = ApplyIdle
    /\ log = <<>>
    /\ touched = {}

Next ==
    \/ OthersStep
    \/ \E opts \in Options, onMain \in BOOLEAN : StartApply(opts, onMain)
    \/ ApplyStep
    \/ ApplyCrash
    \/ \E c \in Policies : EditPolicy(c)
    \/ \E c \in Controls : EditControls(c)
    \/ DisturbSnapshot

Spec == Init /\ [][Next]_vars

-----------------------------------------------------------------------------
(* Properties *)

ApplyPCs == {"idle", "policy", "controls", "bound", "materialize", "prepare", "init",
             "recheck", "open", "show", "gate", "fdCheck", "apply", "dropPlan",
             "dropSources", "dropAttest", "cleanup", "done", "failed"}

OptionSet == [allowDestroy : BOOLEAN, allowPlanChanges : BOOLEAN, allowNonMain : BOOLEAN]

ApplyStates ==
    [pc : ApplyPCs, k : Nat, i : Nat, final : BOOLEAN, selected : SUBSET Roots, ev : Evidence,
     left : SUBSET Roots,
     policy : Policies \cup {Null}, controls : Controls \cup {Null}, applied : Nat,
     failing : BOOLEAN, opts : OptionSet]

LogEntries ==
    [at : Nat, plan : SavedPlans, policy : Policies \cup {Null}, opts : OptionSet,
     att : Attestations \cup {Null}, src : Fingerprints \cup {Null},
     unseen : SUBSET Checks, ok : BOOLEAN]

TypeOK ==
    /\ SPTypeOK
    /\ policy \in Policies /\ controls \in Controls
    /\ ap \in ApplyStates
    /\ ap.pc \notin {"idle", "policy", "controls", "bound", "materialize", "done", "failed"}
         => ap.i \in 1..Len(Order)
    /\ log \in Seq(LogEntries)
    /\ touched \subseteq Checks

\* Whatever Terraform applies was consented to: judged on the bytes applied,
\* under the policy the run loaded and the overrides of its command line, it
\* destroys nothing unless --allow-destroy, does nothing but imports, tolerated
\* updates and no-ops unless --allow-plan-changes, and only imports from an
\* incomplete plan; even while plans, policy and snapshot change around the
\* run (applyExactPlanRoot).
OnlyConsentedApplied ==
    \A n \in 1..Len(log) :
      Consented(log[n].plan.body, log[n].policy,
                log[n].opts.allowDestroy, log[n].opts.allowPlanChanges)

\* No change goes unseen: anything an apply depends on -- the root's inputs,
\* saved files, the set of saved roots, policy, control files -- that differs
\* from its bound value when Terraform starts was changed after the final
\* recheck had begun, never before the plan was shown and classified.
NoUnseenChangeAtApply ==
    \A n \in 1..Len(log) : log[n].unseen = {}

\* The applied plan was computed from the inputs its declaration names, unless
\* they changed away and back while it was planned (planner, evidence and
\* apply together; one planner at a time).
AppliedFromDeclaredInputs ==
    \A n \in 1..Len(log) :
      log[n].plan.from = log[n].src \/ churn[log[n].plan.id] >= 2

\* Apply implements its promise: under one set of terms the selected roots are
\* applied in order, each once and each with an approved plan, nothing after the
\* first failure, and a run that ends without error applied every root it
\* selected and leaves none of the applied plans for a second apply.  A plan is
\* approved if it was consented to and, targeted and hence incomplete, imports
\* exactly the addresses it was planned for (ApplyExactSavedPlans; the promise
\* is ApprovedApply).
TermsOf(entry) == [policy |-> entry.policy, opts |-> entry.opts]
ConsentsTo(terms, plan) ==
    /\ Consented(plan.body, terms.policy, terms.opts.allowDestroy, terms.opts.allowPlanChanges)
    /\ plan.body.complete \/ plan.targets = ImportingAddresses(plan.body)
Approved == INSTANCE ApprovedApply WITH
    Approves <- ConsentsTo,
    outcome  <- CASE ap.pc = "idle" -> "none" [] ap.pc \in {"done", "failed"} -> ap.pc [] OTHER -> "running",
    roots    <- ap.selected,
    applied  <- [n \in DOMAIN log |-> [root |-> Order[log[n].at], plan |-> log[n].plan,
                                      terms |-> TermsOf(log[n]), ok |-> log[n].ok]],
    left     <- {Order[log[n].at] : n \in {m \in DOMAIN log : tfplan[Order[log[m].at]] = log[m].plan}}
ImplementsApprovedApply == Approved!Spec

\* A copy of a plan does not outlive its root unnoticed: a run whose scrub of
\* some root failed, with the copy intact or after its name was taken away,
\* ends at that root as a failure; it neither goes on to the next root nor
\* succeeds, and every earlier root's copy is gone (the deferred cleanup of
\* applyExactPlanRoot, whose error is the root's only when it had no other).
SnapshotScrubbed == ap.left # {} => ap.pc = "failed" /\ ap.left = {aroot}
=============================================================================
