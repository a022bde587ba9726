------------------------------ MODULE SavedPlan ------------------------------
(***************************************************************************)
(* The life of the saved plans of a workspace                              *)
(* (go/internal/plan/lifecycle.go, attestation.go, fingerprint*.go).       *)
(*                                                                         *)
(* Every environment root has a directory with its inputs and up to three  *)
(* saved files: tfplan (Terraform's bytes), tfplan.sources (the            *)
(* fingerprint of the inputs it was made from) and tfplan.attestation (the *)
(* digest and the argv of the plan's creation).  Several processes touch   *)
(* them with no lock: `iw plan` runs (Planners), an `iw clean-plans` run   *)
(* and whoever edits the inputs.  A process may be killed between any two  *)
(* of its steps; no file operation spans two files.                        *)
(***************************************************************************)
EXTENDS Integers, Sequences, FiniteSets, Absent

CONSTANTS
    Order,         \* the environment roots, in planning order
    Planners,      \* concurrent `iw plan` processes
    Contents,      \* contents of an input file
    InitContents,  \* those (or Null: no var file) the workspace starts with
    Invocations,   \* the [save, importsOnly] options of `iw plan` in use
    Derived,       \* roots with a derived, non-importable member
    DataRoots,     \* roots whose members are all data referents
    RefRoots,      \* roots whose main.tf declares the reference backend variable
    RemoteBackend, \* root configurations (contents) that declare a remote backend
    BackendGiven,  \* whether the invocation names a backend configuration
    Staged,        \* [Contents -> set of addresses staged in that configuration]
    Bodies,        \* the plan documents Terraform may produce
    CleanerRuns,   \* whether an `iw clean-plans` process exists
    MaxPlans,      \* bound on the plans Terraform writes
    MaxEdits,      \* bound on the edits of inputs
    Torn           \* a file cut short by a failed or killed write

Roots == {Order[i] : i \in 1..Len(Order)}
Parts == {"backend", "tf", "lock", "vars"}

ASSUME SavedPlanAssumption ==
    /\ Order \in Seq(Roots)
    /\ \A i, j \in 1..Len(Order) : Order[i] = Order[j] => i = j
    /\ Derived \subseteq Roots /\ DataRoots \subseteq Roots /\ RefRoots \subseteq Roots
    /\ RemoteBackend \subseteq Contents
    /\ InitContents \subseteq Contents \cup {Null}
    /\ Invocations \subseteq [save : BOOLEAN, importsOnly : BOOLEAN]
    /\ BackendGiven \in BOOLEAN /\ CleanerRuns \in BOOLEAN
    /\ MaxPlans \in Nat /\ MaxEdits \in Nat
    /\ Null # Torn /\ Null \notin Contents /\ Torn \notin Contents

VARIABLES
    inputs,   \* inputs[r]: the files plan.FingerprintPlanV2 hashes, by part
    tfplan,   \* tfplan[r]: Null or the plan Terraform wrote last
    sources,  \* sources[r]: Null, Torn or the declared fingerprint
    attest,   \* attest[r]: Null, Torn or [plan, targets]
    pl,       \* pl[p]: the state of an `iw plan` process
    cl,       \* the state of the `iw clean-plans` process
    plans,    \* number of plans written, their identity
    edits,    \* number of edits made
    epoch,    \* history: epoch[r] counts the changes of inputs[r]
    churn     \* history: churn[n] counts the changes of inputs while plan n was made

worldVars   == <<inputs, tfplan, sources, attest>>
historyVars == <<epoch, churn>>
spVars == <<inputs, tfplan, sources, attest, pl, cl, plans, edits, epoch, churn>>

-----------------------------------------------------------------------------
(* Inputs and what is read of them *)

\* CapturePlanSourcesPayload: backend, modules and .tf files, lock file, vars.
PlanSources(r) == inputs[r]

\* CaptureInitSourcesPayload: what init itself does not write.
InitSources(r) == [backend |-> inputs[r].backend, tf |-> inputs[r].tf]

\* referenceEnvironment: the TF_VAR projection of the backend configuration.
ReferenceEnvironment(r) ==
    IF r \in RefRoots /\ BackendGiven THEN inputs[r].backend ELSE Null

\* RequireBackendConfiguration.
BackendConfigured(r) == BackendGiven \/ inputs[r].tf \notin RemoteBackend

\* stagedImportTargets over the members of the root.
StagedTargets(r) == Staged[inputs[r].tf]

\* Mutant: a declaration cut short passes for one.
DeclaredOrTorn(r) == sources[r] # Null

\* ReadSavedPlanFingerprint accepts the declaration.
Declared(r) == sources[r] \notin {Null, Torn}

\* A root's inputs change: every later fingerprint differs from the last one.
ChangeInputs(R, new) ==
    /\ inputs' = [r \in Roots |-> IF r \in R THEN new[r] ELSE inputs[r]]
    /\ epoch' = [r \in Roots |-> IF r \in R THEN epoch[r] + 1 ELSE epoch[r]]

\* terraform init writes the dependency lock file when there is none.
TerraformInit(r) ==
    IF inputs[r].lock = Null
    THEN \E c \in Contents :
           ChangeInputs({r}, [inputs EXCEPT ![r].lock = c])
    ELSE UNCHANGED <<inputs, epoch>>

\* The documents terraform plan may produce: -target makes a plan incomplete
\* and confines it to the targets.
PlanBodies(targets) ==
    {b \in Bodies : /\ b.complete <=> targets = {}
                    /\ targets # {} => \A c \in b.changes \cup b.drift : c.address \in targets}

-----------------------------------------------------------------------------
(* `iw plan` *)

PlannerIdle ==
    [pc |-> "idle", i |-> 1, save |-> FALSE, importsOnly |-> FALSE, targets |-> {},
     ref |-> Null, init |-> Null, fp |-> Null, since |-> 0, seen |-> 0, sha |-> Null,
     planned |-> 0, lost |-> FALSE]

\* The steps inside runLifecyclePlan's closure, whose failure undoes the save.
RunSteps == {"init", "initCheck", "refAfter", "fingerprint", "refConfirm", "plan",
             "sha", "attest", "fpCheck", "isFile", "sources"}
UndoSteps == {"undoPlan", "undoSources", "undoAttest"}
DropSteps == {"dropPlan", "dropSources", "dropAttest"}
OuterSteps == {"select", "refSeen", "capture"}

PlannerPCs == {"idle", "root", "done", "failed"}
                \cup RunSteps \cup UndoSteps \cup DropSteps \cup OuterSteps

root(p) == Order[pl[p].i]

Goto(p, pc) == pl' = [pl EXCEPT ![p].pc = pc]

\* The next iteration of the loop, whose locals start afresh.
NextRoot(p, planned) ==
    pl' = [pl EXCEPT ![p] = [PlannerIdle EXCEPT !.pc = "root", !.i = pl[p].i + 1,
                                                !.save = pl[p].save,
                                                !.importsOnly = pl[p].importsOnly,
                                                !.planned = planned]]

\* The command returns an error; lost tells that a removal failed.
Fails(p, lost) ==
    pl' = [pl EXCEPT ![p] = [PlannerIdle EXCEPT !.pc = "failed", !.i = pl[p].i,
                                                !.save = pl[p].save, !.lost = lost]]

\* runLifecyclePlan's error exit.
UndoSave(p) == IF pl[p].save THEN Goto(p, "undoPlan") ELSE Fails(p, FALSE)

\* A new invocation: PlanEnvironmentRoots with the options of the command.
StartPlan(p, save, importsOnly) ==
    /\ pl[p].pc \in {"idle", "done", "failed"}
    /\ plans < MaxPlans
    /\ pl' = [pl EXCEPT ![p] = [PlannerIdle EXCEPT !.pc = "root", !.save = save,
                                                   !.importsOnly = importsOnly]]
    /\ UNCHANGED <<worldVars, historyVars, cl, plans, edits>>

\* The loop head: skip a derived root, remove the old artifacts of a save, or
\* finish (NO_ROOTS_PLANNED is an error).
PlanRoot(p) ==
    /\ pl[p].pc = "root"
    /\ IF pl[p].i > Len(Order)
       THEN IF pl[p].planned = 0 THEN Fails(p, FALSE) ELSE Goto(p, "done")
       ELSE IF pl[p].importsOnly /\ root(p) \in Derived
            THEN NextRoot(p, pl[p].planned)
            ELSE Goto(p, IF pl[p].save THEN "dropPlan" ELSE "select")
    /\ UNCHANGED <<worldVars, historyVars, cl, plans, edits>>

\* RemoveSavedPlanArtifacts, file by file; the first error ends the run.
RemoveArtifact(p, step, file, next) ==
    /\ pl[p].pc = step
    /\ \/ /\ tfplan'  = IF file = "plan" THEN [tfplan EXCEPT ![root(p)] = Null] ELSE tfplan
          /\ sources' = IF file = "sources" THEN [sources EXCEPT ![root(p)] = Null] ELSE sources
          /\ attest'  = IF file = "attest" THEN [attest EXCEPT ![root(p)] = Null] ELSE attest
          /\ IF next = "failed" THEN Fails(p, FALSE) ELSE Goto(p, next)
       \/ /\ Fails(p, TRUE)
          /\ UNCHANGED <<tfplan, sources, attest>>
    /\ UNCHANGED <<inputs, historyVars, cl, plans, edits>>

DropSaved(p) ==
    \/ RemoveArtifact(p, "dropPlan", "plan", "dropSources")
    \/ RemoveArtifact(p, "dropSources", "sources", "dropAttest")
    \/ RemoveArtifact(p, "dropAttest", "attest", "select")

\* Mutant: the error exit removes only the plan file.
UndoPlanOnly(p) == RemoveArtifact(p, "undoPlan", "plan", "failed")

UndoSaved(p) ==
    \/ RemoveArtifact(p, "undoPlan", "plan", "undoSources")
    \/ RemoveArtifact(p, "undoSources", "sources", "undoAttest")
    \/ RemoveArtifact(p, "undoAttest", "attest", "failed")

\* Var files and staged targets are read here, before any fingerprint.
SelectTargets(p) ==
    LET targets == IF pl[p].importsOnly THEN StagedTargets(root(p)) ELSE {}
    IN  /\ pl[p].pc = "select"
        /\ IF \/ inputs[root(p)].vars = Null
              \/ pl[p].importsOnly /\ targets = {} /\ root(p) \notin DataRoots
           THEN NextRoot(p, pl[p].planned)
           ELSE IF BackendConfigured(root(p))
                THEN pl' = [pl EXCEPT ![p].pc = "refSeen", ![p].targets = targets]
                ELSE Fails(p, FALSE)
        /\ UNCHANGED <<worldVars, historyVars, cl, plans, edits>>

CaptureReference(p) ==
    /\ pl[p].pc = "refSeen"
    /\ pl' = [pl EXCEPT ![p].ref = ReferenceEnvironment(root(p)),
                        ![p].pc = IF pl[p].save THEN "capture" ELSE "init"]
    /\ UNCHANGED <<worldVars, historyVars, cl, plans, edits>>

CaptureInitSources(p) ==
    /\ pl[p].pc = "capture"
    /\ pl' = [pl EXCEPT ![p].init = InitSources(root(p)), ![p].pc = "init"]
    /\ UNCHANGED <<worldVars, historyVars, cl, plans, edits>>

Initialize(p) ==
    /\ pl[p].pc = "init"
    /\ TerraformInit(root(p))
    /\ Goto(p, IF pl[p].save THEN "initCheck" ELSE "refAfter")
    /\ UNCHANGED <<tfplan, sources, attest, churn, cl, plans, edits>>

\* INIT_INPUTS_CHANGED.
CheckInitSources(p) ==
    /\ pl[p].pc = "initCheck"
    /\ IF InitSources(root(p)) = pl[p].init THEN Goto(p, "refAfter") ELSE UndoSave(p)
    /\ UNCHANGED <<worldVars, historyVars, cl, plans, edits>>

CheckReferenceAfterInit(p) ==
    /\ pl[p].pc = "refAfter"
    /\ IF ReferenceEnvironment(root(p)) = pl[p].ref
       THEN Goto(p, IF pl[p].save THEN "fingerprint" ELSE "refConfirm")
       ELSE UndoSave(p)
    /\ UNCHANGED <<worldVars, historyVars, cl, plans, edits>>

Fingerprint(p) ==
    /\ pl[p].pc = "fingerprint"
    /\ pl' = [pl EXCEPT ![p].fp = PlanSources(root(p)), ![p].since = epoch[root(p)],
                        ![p].pc = "refConfirm"]
    /\ UNCHANGED <<worldVars, historyVars, cl, plans, edits>>

ConfirmReference(p) ==
    /\ pl[p].pc = "refConfirm"
    /\ IF ReferenceEnvironment(root(p)) = pl[p].ref THEN Goto(p, "plan") ELSE UndoSave(p)
    /\ UNCHANGED <<worldVars, historyVars, cl, plans, edits>>

PlanDone(p) == NextRoot(p, pl[p].planned + 1)

\* terraform plan; with -out=tfplan it writes a plan of its own identity.
TerraformPlan(p) ==
    /\ pl[p].pc = "plan"
    /\ IF pl[p].save
       THEN /\ plans < MaxPlans
            /\ plans' = plans + 1
            /\ \E b \in PlanBodies(pl[p].targets) :
                 tfplan' = [tfplan EXCEPT ![root(p)] =
                              [id |-> plans', from |-> inputs[root(p)],
                               targets |-> pl[p].targets, body |-> b]]
            /\ Goto(p, "sha")
       ELSE UNCHANGED <<tfplan, plans>> /\ PlanDone(p)
    /\ UNCHANGED <<inputs, sources, attest, historyVars, cl, edits>>

\* planFileSHA256 of whatever tfplan now holds.
DigestPlan(p) ==
    /\ pl[p].pc = "sha"
    /\ IF tfplan[root(p)] # Null
       THEN pl' = [pl EXCEPT ![p].sha = tfplan[root(p)].id, ![p].pc = "attest"]
       ELSE UndoSave(p)
    /\ UNCHANGED <<worldVars, historyVars, cl, plans, edits>>

\* Mutant: the targets are read again from the configuration.
AttestCurrentTargets(p) ==
    /\ pl[p].pc = "attest"
    /\ attest' = [attest EXCEPT ![root(p)] =
                    [plan |-> pl[p].sha,
                     targets |-> IF pl[p].targets = {} THEN {} ELSE StagedTargets(root(p))]]
    /\ Goto(p, "fpCheck")
    /\ UNCHANGED <<inputs, tfplan, sources, historyVars, cl, plans, edits>>

\* terraform version, then WritePlanCreationAttestation.
WriteAttestation(p) ==
    /\ pl[p].pc = "attest"
    /\ attest' = [attest EXCEPT ![root(p)] = [plan |-> pl[p].sha, targets |-> pl[p].targets]]
    /\ Goto(p, "fpCheck")
    /\ UNCHANGED <<inputs, tfplan, sources, historyVars, cl, plans, edits>>

\* Mutant: the fingerprint is not taken again.
TrustFingerprint(p) ==
    /\ pl[p].pc = "fpCheck"
    /\ pl' = [pl EXCEPT ![p].pc = "isFile", ![p].seen = epoch[root(p)] - pl[p].since]
    /\ UNCHANGED <<worldVars, historyVars, cl, plans, edits>>

\* PLAN_INPUTS_CHANGED.
CheckFingerprint(p) ==
    /\ pl[p].pc = "fpCheck"
    /\ IF PlanSources(root(p)) = pl[p].fp
       THEN pl' = [pl EXCEPT ![p].pc = "isFile", ![p].seen = epoch[root(p)] - pl[p].since]
       ELSE UndoSave(p)
    /\ UNCHANGED <<worldVars, historyVars, cl, plans, edits>>

\* lifecycleIsFile, then chmod.
CheckPlanFile(p) ==
    /\ pl[p].pc = "isFile"
    /\ IF tfplan[root(p)] # Null THEN Goto(p, "sources") ELSE UndoSave(p)
    /\ UNCHANGED <<worldVars, historyVars, cl, plans, edits>>

\* The declaration comes last and is the fingerprint taken before planning.
WriteSources(p) ==
    /\ pl[p].pc = "sources"
    /\ sources' = [sources EXCEPT ![root(p)] = pl[p].fp]
    /\ churn' = [churn EXCEPT ![pl[p].sha] = pl[p].seen]
    /\ PlanDone(p)
    /\ UNCHANGED <<inputs, tfplan, attest, epoch, cl, plans, edits>>

\* A write that failed or was cut short leaves a file no reader accepts.
TearWrite(p) ==
    /\ attest'  = IF pl[p].pc = "attest" THEN [attest EXCEPT ![root(p)] = Torn] ELSE attest
    /\ sources' = IF pl[p].pc = "sources" THEN [sources EXCEPT ![root(p)] = Torn] ELSE sources

\* Any call of the closure may fail: a Terraform command, a read, a write.
RunFails(p) ==
    /\ pl[p].pc \in RunSteps
    /\ UndoSave(p)
    /\ TearWrite(p) \/ UNCHANGED <<attest, sources>>
    /\ UNCHANGED <<inputs, tfplan, historyVars, cl, plans, edits>>

\* A failure outside the closure returns at once.
OuterFails(p) ==
    /\ pl[p].pc \in OuterSteps
    /\ Fails(p, FALSE)
    /\ UNCHANGED <<worldVars, historyVars, cl, plans, edits>>

\* The process is killed.
PlannerCrash(p) ==
    /\ pl[p].pc \notin {"idle", "done", "failed"}
    /\ pl' = [pl EXCEPT ![p] = PlannerIdle]
    /\ TearWrite(p) \/ UNCHANGED <<attest, sources>>
    /\ UNCHANGED <<inputs, tfplan, historyVars, cl, plans, edits>>

PlannerStep(p) ==
    \/ PlanRoot(p) \/ DropSaved(p) \/ SelectTargets(p) \/ CaptureReference(p)
    \/ CaptureInitSources(p) \/ Initialize(p) \/ CheckInitSources(p)
    \/ CheckReferenceAfterInit(p) \/ Fingerprint(p) \/ ConfirmReference(p)
    \/ TerraformPlan(p) \/ DigestPlan(p) \/ WriteAttestation(p)
    \/ CheckFingerprint(p) \/ CheckPlanFile(p) \/ WriteSources(p)
    \/ RunFails(p) \/ OuterFails(p) \/ UndoSaved(p)

PlannerNext(p) ==
    \/ \E o \in Invocations : StartPlan(p, o.save, o.importsOnly)
    \/ PlannerStep(p)
    \/ PlannerCrash(p)

-----------------------------------------------------------------------------
(* `iw clean-plans` *)

CleanerIdle == [pc |-> "idle", i |-> 1]

StartClean ==
    /\ CleanerRuns /\ cl.pc = "idle" /\ cl.i <= Len(Order)
    /\ cl' = [cl EXCEPT !.pc = "plan"]
    /\ UNCHANGED <<worldVars, historyVars, pl, plans, edits>>

\* CleanPlans removes the three files of each root in turn.
CleanFile ==
    /\ cl.pc \in {"plan", "sources", "attest"}
    /\ LET r == Order[cl.i]
       IN  /\ tfplan'  = IF cl.pc = "plan" THEN [tfplan EXCEPT ![r] = Null] ELSE tfplan
           /\ sources' = IF cl.pc = "sources" THEN [sources EXCEPT ![r] = Null] ELSE sources
           /\ attest'  = IF cl.pc = "attest" THEN [attest EXCEPT ![r] = Null] ELSE attest
    /\ cl' = CASE cl.pc = "plan"    -> [cl EXCEPT !.pc = "sources"]
               [] cl.pc = "sources" -> [cl EXCEPT !.pc = "attest"]
               [] cl.pc = "attest"  -> [i |-> cl.i + 1,
                                        pc |-> IF cl.i = Len(Order) THEN "idle" ELSE "plan"]
    /\ UNCHANGED <<inputs, historyVars, pl, plans, edits>>

\* A removal fails, or the process is killed.
CleanerStops ==
    /\ cl.pc \in {"plan", "sources", "attest"}
    /\ cl' = [cl EXCEPT !.pc = "idle", !.i = Len(Order) + 1]
    /\ UNCHANGED <<worldVars, historyVars, pl, plans, edits>>

CleanerNext == StartClean \/ CleanFile \/ CleanerStops

-----------------------------------------------------------------------------
(* Whoever works in the workspace *)

\* One file of one root; the backend configuration is shared by all roots.
EditInputs(r, part, c) ==
    /\ edits < MaxEdits
    /\ edits' = edits + 1
    /\ inputs[r][part] # c
    /\ part = "lock" => c = Null
    /\ part \in {"backend", "tf"} => c # Null
    /\ LET R == IF part = "backend" THEN Roots ELSE {r}
       IN  ChangeInputs(R, [s \in Roots |-> [inputs[s] EXCEPT ![part] = c]])
    /\ UNCHANGED <<tfplan, sources, attest, churn, pl, cl, plans>>

Editor == \E r \in Roots, part \in Parts, c \in Contents \cup {Null} : EditInputs(r, part, c)

-----------------------------------------------------------------------------
SPInit ==
    /\ inputs \in [Roots -> [backend : InitContents \ {Null}, tf : InitContents \ {Null},
                             lock : {Null}, vars : InitContents]]
    /\ \A r, s \in Roots : inputs[r].backend = inputs[s].backend
    /\ tfplan = [r \in Roots |-> Null]
    /\ sources = [r \in Roots |-> Null]
    /\ attest = [r \in Roots |-> Null]
    /\ pl = [p \in Planners |-> PlannerIdle]
    /\ cl = CleanerIdle
    /\ plans = 0 /\ edits = 0
    /\ epoch = [r \in Roots |-> 0]
    /\ churn = [n \in 1..MaxPlans |-> 0]

SPNext == (\E p \in Planners : PlannerNext(p)) \/ CleanerNext \/ Editor

SPSpec == SPInit /\ [][SPNext]_spVars

-----------------------------------------------------------------------------
(* Properties *)

Fingerprints == [backend : Contents, tf : Contents, lock : Contents \cup {Null},
                 vars : Contents \cup {Null}]

Targets == SUBSET UNION {Staged[c] : c \in Contents}

SavedPlans == [id : Nat, from : Fingerprints, targets : Targets, body : Bodies]

Attestations == [plan : Nat, targets : Targets]

PlannerFields ==
    [pc : PlannerPCs, i : Nat, save : BOOLEAN, importsOnly : BOOLEAN, targets : Targets,
     ref : Contents \cup {Null}, init : [backend : Contents, tf : Contents] \cup {Null},
     fp : Fingerprints \cup {Null}, since : Nat, seen : Int, sha : Nat \cup {Null},
     planned : Nat, lost : BOOLEAN]

\* Inside the loop there is a current root; past the fingerprint, a fingerprint.
PlannerStates ==
    {s \in PlannerFields :
       /\ s.i \in 1..(Len(Order) + 1)
       /\ s.pc \notin {"idle", "root", "done", "failed"} => s.i \in 1..Len(Order)
       /\ s.pc \in {"refConfirm", "plan"} /\ s.save => s.fp \in Fingerprints
       /\ s.pc \in {"sha", "attest", "fpCheck", "isFile", "sources"}
            => s.save /\ s.fp \in Fingerprints
       /\ s.pc = "attest" => s.sha \in Nat}

CleanerStates ==
    {s \in [pc : {"idle", "plan", "sources", "attest"}, i : 1..(Len(Order) + 1)] :
       s.pc # "idle" => s.i \in 1..Len(Order)}

SPTypeOK ==
    /\ inputs \in [Roots -> Fingerprints]
    /\ tfplan \in [Roots -> SavedPlans \cup {Null}]
    /\ sources \in [Roots -> Fingerprints \cup {Null, Torn}]
    /\ attest \in [Roots -> Attestations \cup {Null, Torn}]
    /\ pl \in [Planners -> PlannerStates]
    /\ cl \in CleanerStates
    /\ plans \in Nat /\ edits \in Nat
    /\ epoch \in [Roots -> Nat]
    /\ churn \in [1..MaxPlans -> Int]

\* A saved pair declares the inputs its plan was computed from: with one
\* planner at a time, a plan and a declaration that differ can be left behind
\* only if the inputs changed twice (away and back) while the plan was made.
\* This must survive kills, torn writes, clean-plans and failed removals
\* (runLifecyclePlan: artifacts removed first, sources written last).
SourcesBindPlan ==
    \A r \in Roots :
      tfplan[r] # Null /\ Declared(r)
        => tfplan[r].from = sources[r] \/ churn[tfplan[r].id] >= 2

\* An attestation that binds the bytes of the saved plan tells the scope that
\* plan was really created with (planTerraformAdapter.Plan).
AttestationTellsScope ==
    \A r \in Roots :
      /\ tfplan[r] # Null
      /\ attest[r] \notin {Null, Torn}
      /\ attest[r].plan = tfplan[r].id
      => attest[r].targets = tfplan[r].targets

\* A SAVE=1 run that failed leaves nothing of the root it stopped at, neither
\* its own plan nor the one of an earlier run, unless a removal itself failed
\* (runLifecyclePlan's error exit, PlanEnvironmentRoots).
FailedSaveLeavesNothing ==
    \A p \in Planners :
      /\ pl[p].pc = "failed" /\ pl[p].save /\ ~pl[p].lost
      /\ pl[p].i <= Len(Order)
      => /\ tfplan[root(p)] = Null
         /\ sources[root(p)] = Null
         /\ attest[root(p)] = Null
=============================================================================
