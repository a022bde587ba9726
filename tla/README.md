# A verification project for infrawright

Infrawright (`iw`) turns live provider resources into Terraform configuration
and import blocks, and carries them through an exact-plan workflow:

    fetch -> adopt | transform -> gen-modules -> gen-env -> stage-imports
          -> plan (SAVE=1) -> assert-clean | assert-adoptable -> apply

with `refresh` and `clean-plans` beside it. Its promise is operational: what is
applied is what was reviewed, from the inputs it was planned from, and a command
that fails or is killed leaves nothing a later command mistakes for a result.
This directory states that promise in TLA+, checks it with TLC on small
instances and proves its core with TLAPS. `PROJECT.json` maps every definition
to the lines it translates.

All paths below are relative to `src/go/internal/` unless they start with `src/`.

## 1. The system

| component | state | operations | correct when |
|---|---|---|---|
| plan contract and classification (`assessment/eval.go`, `plan/contract.go`) | none: pure functions of a shown plan, a drift policy, an attestation | validate, classify, gate | nothing is cleared that changes a value; nothing destroyed without consent; an incomplete plan only imports its targets |
| saved-plan life cycle (`plan/lifecycle.go`, `fingerprint*.go`, `attestation.go`) | per environment root the inputs and three files: `tfplan`, `tfplan.sources`, `tfplan.attestation` | `plan`, `clean-plans` | a pair (tfplan, sources) declares the inputs the plan was made from; a failed save leaves nothing |
| saved-plan evidence (`plan/evidence.go`) | a private snapshot, the bound digests | prepare, open, recheck, clean up | a change of anything bound is seen by the next recheck |
| exact apply (`assessment/exact_plan_apply.go`) | one evidence at a time, the list of applied roots | `apply` | only the classified bytes are applied, only if nothing changed before the final recheck; stops at the first failure |
| assessment (`assessment/assessment.go`, `inputs.go`, `runner.go`) | per-root results until the closing passes | `assert-clean`, `assert-adoptable` | a report describes roots that were all unchanged at its end |
| temporary-directory cleanup (`assessment/assessment_cleanup.go`) | a private directory | remove known names, then the directory | nothing foreign is removed |
| terraform runner (`terraformcmd/runner.go`) | five goroutines, two pipes, two pumps, a deadline | run one command | success means reaped, read and delivered; a deadline ends it |
| terraform process groups (`terraformcmd/process_group_unix.go`) | registry of groups, watcher generations | start, unregister, handle a signal | no group outlives a terminated host; the signal is not lost |
| fetch batch (`collectors/rest.go`) | destination files, outcomes, per-identity authentication | `fetch` | a report that depends on the answers alone; nothing stale survives |
| assessment reports and guidance (`assessment/report.go`, `semantics.go`, `guidance.go`) | none | build, validate | blocks what nobody explained; shows no secret; broken guidance costs guidance only |
| http transport, retry (`httptransport/transport.go`, `collectors/retry.go`) | the closed flag, the cookie jar, each request's attempt | request, close | credentials stay with their origin; no attempt begins after close; every request comes back |
| collectors (`collectors/rest.go`, `zscaler_adapters.go`, `selection.go`) | none: functions of what a server answers | sign in, page, expand, follow, merge | a pull is every item once, or a failure |
| import staging (`adopt/import_staging.go`, `import_filter.go`) | staged copies in the root directories | stage, unstage | a copy is whole or absent, and what is staged is what the state lacks |
| import oracle (`adopt/oracle*.go`, `generated_config_policy.go`) | a scratch directory with private state | import, correct, plan again, apply | exactly the asked imports; no state left by a success |
| adopt (`adopt/runner.go`, `state_project.go`, `adoption_meta.go`, `policy.go`) | a batch over types | identify, project, publish | the keys of transform where both read the same; policy and sensitivity kept |
| transform (`transform`, `transformrun`) | a batch over types | skip, key, project, publish | every item accounted for, every loss told |
| artifacts of a type (`tfrender`) | configuration, imports, moves, lookup, bindings of each type | compile, publish | references are never stranded; a rename is a move |
| environment generation (`envgen`) | one directory per root | gen-env | tokens resolve to what the states publish |
| refresh (`plan/refresh.go`) | a temporary refresh-only plan | refresh | only a state-only plan is applied, and the one that was shown |
| topology (`roots`, `refedges`, `deployment`) | none | select, order, locate, scope | a changed file concerns the root it belongs to |
| drift policy (`metadata/driftpolicy.go`) | none | validate, merge, match, omit | the first match is found; a stale entry has no effect |
| module generation (`modulesgen`) | generated trees | render | text only |
| bounded files (`artifacts`) | descriptors, a read budget | stable read, snapshot | a read that raced a writer fails |
| authoring (`authoring/*`) | published artifacts | analyse, publish | a published tree is complete or untouched |

Components meet through files and processes, with no lock between commands:
`plan` writes what `apply` and the assertions read, `clean-plans` removes it,
`stage-imports` edits a root between two plans, `fetch` writes what `transform`
reads. `terraformcmd` is the only package that runs goroutines next to a signal
handler; `fetch` the only one with a worker pool. The hard behaviours are listed
under "hazards" in `PROJECT.json`, each at its line.

Hard behaviours, by kind: interleavings of commands over one root (plan, apply,
clean-plans, whoever edits the workspace); staleness between a read and its use
(inputs against a fingerprint, a snapshot against its file, a policy against a
classification); kills between the writes of three related files; the races of
one child process with a deadline, a cancellation, a byte limit and a host that
does not read; a termination signal next to commands that start and return;
workers that end in any order; kills between the files of one type, which other
types refer to; and Terraform deviating from what was asked in any step of an
import. Beside them stand large pure algorithms (projection, keys, tokens,
topology, pages), whose hazards are long: one function decides a key, another
repeats the decision, a third relies on both.

## 2. The plan

Written, in this order:

1. `PlanEval` — the pure gates: contract, classification, the gate of apply.
2. `SavedPlan` — `plan` and `clean-plans` over the files of the roots.
3. `SavedPlanEvidence` — what binds the files of one saved plan, and the reads
   that prepare and recheck it; shared by 4 and 5.
4. `ExactApply` — `apply`, composed with 1–3 (it extends them: apply runs
   next to the planner, the cleaner and the editors of `SavedPlan` and asks the
   gates of `PlanEval`), and `ApprovedApply`, the abstract specification that it
   implements through a refinement mapping.
5. `Assessment` — `assert-clean` and `assert-adoptable`, composed in the same way;
   `AssessmentReport` — what is published of an assessment.
6. `TerraformCommand`, `ProcessGroups` — one bounded subprocess; the process
   groups next to termination signals.
7. `FetchBatch` — the worker pool of `fetch`; `Collectors` — what one resource is
   collected from; `HttpTransport` — what one request does.
8. `Values`, `TransformKernel`, `AdoptIdentity` — items, keys and configuration in
   the two lanes; `DriftPolicy`, `StateProjection`, `GeneratedConfig` — policies
   and what they make of a state and of generated text.
9. `ImportStaging`, `OracleImport`, `Refresh` — sequential commands with Terraform
   and the file system between their steps.
10. `Topology`, `ReferenceTokens`, `TransformArtifacts`, `LaneOptions`, `LaneRun` —
    types and roots, references, what a lane publishes, and the batches.
11. `ExpressionBindings`, `EnvironmentRoots` — gen-env, composed of 10.
12. Proofs for 1, 2, 4, 5, 6, 7, 9, the policies of 8, the lanes and the topology of 10
    (section 6).

What is left, by value: `SavedPlan` as an implementation of an
abstract "publish a bound pair or nothing"; the writes of gen-env as steps; the removal
of temporary directories as steps; the stable read and its budget; `apply` next to two
planners and to `clean-plans` in a checked instance as well as in the theorems.

Every module takes its parameters as CONSTANTS with a named assumption and has
one action per step of the code. The modules of stateful components, and the pure ones
that are proved about, use no RECURSIVE operator; the modules of pure algorithms over
nested values do, and are only model-checked. Where a stateful module needs the result of
such an algorithm it takes the operator as a constant, with what it relies on as a named
assumption, and the configuration gives it the recursive definition (`LaneRun`).

## 3. The modules and the code

Common conventions: `Null` (module `Absent`) is nil or a missing file; `Torn` is
a file a failed or killed write cut short. A file's content is a value, its
digest equality of contents: SHA-256 is taken to be injective. A local variable
of the code is a field of its process record (`pl[p]`, `ap`, `sa`, `cmd`); `pc` names
the statement reached. Every read or write of shared state is a step of its
own, so that others can move between any two.

**`PlanEval`** (`assessment/eval.go`, `plan/contract.go`,
`canonjson/equality.go`, the gate of `assessment/exact_plan_apply.go`). A shown
plan is a record: completeness, error flag, whether its outputs are acceptable,
and two sets of resource changes. Values are one level deep: an attribute is a
scalar, a list or a set. `ValidateAssessmentPlan`, `ClassifyPlan`,
`ApplyGate` and the import-only acceptances are operators named for the
functions. `PyEqual` keeps the one surprise of `JSONEqual`: numbers are compared
after rounding to a double, given here as the constant function `Round`.

**`SavedPlan`** (`plan/lifecycle.go`, `fingerprint*.go`, `attestation.go`).
`inputs[r]` is what the fingerprint hashes, in four parts (backend, *.tf, lock
file, var files); `tfplan[r]`, `sources[r]`, `attest[r]` are the saved files. A
saved plan carries, as ghosts, what it was made from (`from`) and its targets.
`PlannerStep` follows the loop of PlanEnvironmentRoots and runLifecyclePlan
statement by statement, from SelectTargets to WriteSources, with the removal of
old artifacts before and the undo after a failure; every step can fail and the
process can be killed before each (PlannerCrash). `clean-plans` removes one file
per step. `churn[n]` counts the input changes between the first fingerprint and
the declaration of plan `n`.

**`SavedPlanEvidence`** (`plan/evidence.go`). Evidence is the record of what was
bound: the declaration, the plan with the content of its snapshot, the
attestation. PrepareScript and EvidenceScript are the file reads of prepare and
recheck in order; `Bound` says what each of them compares, `PreparedBy` what the
binding ones bind (`ReadsAttestation`: a sidecar that parses and names the plan).
`ScrubLeaves` is what a scrub may leave: nothing; the bytes, when the name was lost to others; or the
copy intact under its name, when opening, truncating or syncing it fails.

**`ExactApply`** (`assessment/exact_plan_apply.go`). One
`apply` process: policy, controls, materialised roots, then for each root
prepare, init, recheck, open and show the snapshot, gate, final recheck,
descriptor check, terraform apply, removal of the applied files, cleanup.
RecheckScript is the sequence of single file reads of a recheck. The cleanup scrubs with any outcome of
`ScrubLeaves`; `ap.left` is the root whose copy is left behind. `log` records each terraform apply with what it was given;
`touched` what others changed since the final recheck began.

**`Assessment`** (`assessment/assessment.go`, `inputs.go`, `runner.go`). One
assertion process: preflight of the policy, binding of the deployment file, roots
that have a plan, a first recheck; then for each root prepare, show by the path
of the snapshot, recheck, classify, recheck, row; then twice the evidence of every
root, the policy, the deployment, the roots and, when scoped, the staged import
addresses; then the report, the scrub of every snapshot and the removal of their
directory. AssertFails is the error or the deadline of any step; it keeps the rows
made so far, which is the partial report. Three histories describe the closing passes: `earlier`
is what others changed during the first, `away` what was not as bound when the second began, and
`touched` what others changed since. The two modes are options: only assert-adoptable reads a
policy and demotes drift, only assert-clean can be scoped.

**`TerraformCommand`** (`terraformcmd/runner.go`). Goroutines: the select loop
(`cmd`), a reader per stream, the waiter, a pump per stream with a host output.
`proc` is the process group with descendants that may outlive the child or close
their pipes ("mute"). The select is a disjunction, so any ready case may win.

**`ProcessGroups`** (`terraformcmd/process_group_unix.go`). The registry, one
watcher per generation (from the first registration to the last
unregistration), the termination gate, the subscriptions with their buffered
channels, and commands as their calls into this file. `other` says whether
another package of the process has subscribed to the same signals.

**`FetchBatch`** (`collectors/rest.go`, `selection.go`). Authentication per
identity, reset of destinations, rotation of the work list over products, the
worker pool (one worker is a loop that stops at a fatal outcome, several drain a
channel), and the report built from the outcomes. A lane is the set of the registry
indices of one product that are still to be taken, its least index first; `cursor` is
the lane whose turn it is, and one worker has one lane of everything selected.

**`ApprovedApply`** states what a reviewer may rely on without evidence, files or
rechecks: one set of terms, roots in order, each applied at most once with a plan
the terms approve, the first failure last, and after a success nothing that was
applied left to be applied again. `ExactApply` instantiates it: `outcome` is a
view of `ap.pc`, `applied` of `log`, `left` the applied roots whose saved plan is
still the applied one, and the terms approve what `Consented` (on the meaning of
the values, not on the code's gate) approves.

**`AssessmentReport`** (`assessment/eval.go`, `guidance.go`, `report.go`,
`semantics.go`, `assessment.go`). Findings of classified changes with redacted
content, guidance rules of three lanes joined to blocked findings, the report,
its validator, and the isolation that retries without guidance. Nothing in a report is
blocked without a reason: `Undecided` is the exact gap between what classification blocks
and what `Harmless` excuses (an update that shows no difference at all, or one with a set
whose members are not all known).

**`FetchBatch`'s two neighbours.** `Collectors` (`rest.go`,
`zscaler_adapters.go`): paths, four page styles, merged and followed collections,
sign-in and URLs. A collection is the sequence of the server's answers up to the first
that is refused or that ends it (`UpTo`), which is where the loops of the code leave;
several paths, merged objects and followed items are results in turn (`InTurn`), of which
the first refusal refuses all. `HttpTransport` (`transport.go`, `retry.go`): one action per hop,
answer and sleep; `wire` remembers what was sent under which circumstances. Close is looked at when an
attempt begins (Admit) and not before its hops (Send), which go on after it. The jar is the one of
`cookiejar.New(nil)`: a cookie is of the host that set it, or of the domain that its Domain attribute
names (`Scopes`, `Covers`).

**`Values`, `TransformKernel`, `AdoptIdentity`** (`transform`,
`adopt/adoption_meta.go`). A value is tagged with its kind. TransformLoadedItems
skips, renames, coerces, keys and projects the items of a type; PreparedIdentities
derives the keys of adopt, by the other code, over an index of the eligible items only. `Unescape` is the
decoding of display names, which transform alone has, before skips and keys. Texts are opaque; what the code reads out
of one is a table (`SnakeOf`, `SlugOf`, `IntegerOf`).

**`DriftPolicy`, `StateProjection`, `GeneratedConfig`** (`metadata/driftpolicy.go`,
`adopt/policy.go`, `state_project.go`, `generated_config_*.go`). Selectors and the
compiled tolerance index; the walk of a state under a schema, with omissions,
syncs, defaults and the sensitivity mask; and the same policy on lines of text.
Each value carries where it came from, which the code cannot see and the properties
ask. In the text a block that is not repeated has a position ("s[0].x"), in a state
it has none: a selector fits one of the two spellings only, so the two agree on
attributes and not on such blocks. What is null in a state is a line `x = null` in the text that most
versions generate (both forms are checked); and a fill followed by a conditional omission is
not idempotent.

**`ImportStaging`, `OracleImport`, `Refresh`** (`adopt/import_staging.go`,
`adopt/oracle_*.go`, `plan/refresh.go`). One action per file operation or Terraform
call; each may fail. Next to staging, generators rewrite and applies grow the
state; next to the oracle, Terraform generates, plans and observes what it wants;
next to refresh, others replace the plan by its name.

**`Topology`** (`roots`, `refedges`, `deployment`, `transform/selection.go`). Packs,
manifests, root labels and members, the reference order (which places one type at a time,
`PlaceNext`), the files of a type and the scope of changed paths.

**`ReferenceTokens`, `TransformArtifacts`, `LaneOptions`, `LaneRun`** (`tfrender`,
`transformrun/runner.go`, `adopt/runner.go`). A lookup sidecar, the tokens and
expressions identifiers become, the stranding guard, the moves between two sets of
imports; a compilation reads the tree and returns the list of file changes in the
order of PublishCompiledTransformArtifacts; `LaneRun` makes one step of each change
and kills the process between or in them. A kill or an error in a write leaves what os.WriteFile has put
into the emptied file (`CutShort`): of imports nothing or whole leading blocks, which parse
(`FirstBlocks`), or a text that does not. Both lanes are one module because they
call the same code and share the tree; only adopt passes the move gate. The tokens of an
item, their substitution and the check of their bindings go through nested values:
`TransformArtifacts` takes them as the constants `TokensOf`, `WithTokens` and
`BindingRefused`, `ReferenceTokens` defines them, and the configurations put the two
together. `LaneAssumption` and `ReferenceAssumption` say what is relied on (section 6).

**`ExpressionBindings`, `EnvironmentRoots`** (`envgen`). The accepted expressions,
where they may be put and which states they read; GenerateEnvironmentRoots over the
committed tree, the operator's and cached bindings, the probed states.

**`MCDocuments`** is the instance of all pure modules: a state is one input, `topic`
says of which algorithm, and each property is about one topic; `MCTopics` holds the topics
that are proved about: plans, reports, topologies, moves, pulls and sign-ins, policies. **`MCCommands`** is
the instance of the sequential commands: they share no state (staging works on the
roots, the lanes on the configuration tree), so a behaviour runs one of them.

Besides what they model, modules define a few operators whose comment starts with
"Mutant": a handler or helper with one guard, reset or order wrong.
Nothing uses them in a specification; they are the forms `PROJECT.json` lists
under "mutants", and each property is checked to fail with one of them in place
of the right definition.

## 4. The runs

| run | what is asked | instance |
|---|---|---|
| `documents` | do the pure algorithms do what they are for: gates of plans (four properties), policies, items and keys, scope of paths, moves, references through gen-env and back, pages and sign-in, reports | per topic: two addresses with up to two change records; one state under policies of two entries, masks and defaults; up to three items under overrides, names that decode to others; three types with files in either format; three keys; lookups, caches and operator expressions of two types; up to four items on pages of two; two roots with rules |
| `commands` | what staging, oracle, refresh, the lanes and the transport leave behind under failures, kills and others; does every request end | two roots, two keys, two runs; requests of two types and identities; three roots and nine plans; two types, one refers to the other, two batches; one worker, four origins on three hosts, two of them of one domain, one retry, one redirect |
| `pending_moves` | the message "must be applied and acknowledged before transform or adopt can run" (violated by the transform lane; see PROJECT.json findings) | the same |
| `saved_plan` | do a plan and its declaration agree under edits, failures, kills and clean-plans; does a failed save undo itself | one root with a reference variable, one planner run with and without SAVE and imports-only, at most two plans, two edits, two contents per part |
| `apply_edits` | does any edit of inputs, policy, controls or snapshot go unseen | one root, one plan, two edits, two control contents, two policies, disturbed snapshot, no override |
| `apply_two` | does apply implement `ApprovedApply`; is only what was consented to applied | two roots, one derived, next to a planner that replaces plans; full, destroying and targeted plans under each override |
| `assess_two` | is nothing of the copies left unnoticed | two roots next to a planner with three plans (so one is replaced), scrubs that may fail |
| `assess_edits` | what a row says of the plan it names; does a report rest on one moment | one root, one plan, two edits of inputs, policy or deployment, also away and back, disturbed snapshots; the policy file starts as one that tolerates the update; adoptable and scoped modes; full and targeted plans |
| `command` | truth of the result (reaped, delivered, named right), silence after a stop, termination | a child with one descendant, two streams, limit one chunk, stdout pumped, stderr empty |
| `groups` | no stranded group, no lost signal, nobody waits for ever | two commands (hence two generations), three signals, with and without another subscriber |
| `fetch` | independence of order, one authentication, no starvation, files that agree with the report | four resources of three products, two identities, one to three workers, at most two unusual answers, earlier files whole, torn or absent |
| `fetch_outcomes` | the comment "every outcome ... is captured" (violated; see PROJECT.json findings) | the same, one and two workers |

What each property says, in short; the comment above its definition has the code it is
about:

- `documents`: `ClearedUpdatesAreUnchanged` (an update is cleared only if no value
  moved), `GatedPlansAreConsented` (what passes the apply gates is consented to),
  `AssertCleanImpliesApplicable` (what assert-clean accepts, apply does not refuse),
  `ScopedAssertSeesImportedDrift` (the scope of an assertion hides no drift inside it),
  `PolicyIsSafeHere` (a policy reveals no secret, drops nothing required, its stale
  entries have no effect, its tolerances are found as they read), `PlannedTextAgreesHere`
  (the text Terraform plans with is corrected and says what the projected object says, but where a fill
  meets a null line), `TransformAccountsHere` (every pulled item is skipped or configured once; under the
  key adopt imports, unless a kept item asks a skipped one for its name or transform alone changed what
  a skip or a key is read from),
  `ScopeCoversFilesHere` (a change of any generated file names its root),
  `MovesReconcileHere` (moves follow identities, never onto a key in use),
  `EnvironmentsResolveHere` (no token reaches a module, what is read is published),
  `ReferencesRoundTripHere` (committed references read back as what was pulled),
  `CollectionsAreSound` (all pages, all members of merged settings, or a failure; a
  signed-in product can be asked),
  `ReportTruthHere` (a report blocks what is unexplained and shows no secret).
- `commands`: `StagingIsSound` (whole copies, no managed import staged again, true
  counts), `ImportsAreExact` (the oracle returns and applies what was asked for),
  `RefreshAppliesWhatWasShown` (the shown descriptor, only state, once per root),
  `LanesKeepTheirWord` (references resolve in every state; batches account for their
  types), `EvidenceComesFirst` (the moves from what the imports read as are on disk before
  these are written over, in whole or in part; unreadable imports stay), `RequestsAreSafe` (no attempt
  begins after close, nothing is sent after cancellation; tokens stay at their origin, sessions in their
  host or domain),
  `RequestsEnd` (every request comes back).
- `pending_moves`: `PendingMovesHold`, violated.
- `saved_plan`: `SourcesBindPlan` (a pair declares the inputs it was made from),
  `AttestationTellsScope` (an attestation tells the scope the plan was created with),
  `FailedSaveLeavesNothing` (a failed save removes the pair, its own and the earlier).
- `apply_edits`, `apply_two`: `NoUnseenChangeAtApply` (whatever differs at the apply
  from what was bound was changed after the final recheck began), `AppliedFromDeclaredInputs`,
  `SnapshotScrubbed` (a run that leaves a copy, whatever made its scrub fail, fails itself, and leaves
  that of one root), `OnlyConsentedApplied` (only what the gates consent to is
  applied), `ImplementsApprovedApply` (the refinement).
- `assess_two`: `CopiesAreScrubbed`; `assess_edits`: `RowsTellTheTruth` (a row is about the plan it names),
  `ReportIsOfOneMoment` (a report covers the selection, and all it rests on held when the last pass
  began, but for what others changed both in the pass before and in the last one: such a thing may have
  been away just then, as a policy that is replaced during one pass and put back before it is read in
  the next; what differs at the report was changed since).
- `command`, `groups`: `ResultIsTrue`, `QuietAfterStop`, `CommandEnds`;
  `NoStrandedGroup`, `NobodyWaitsForEver`.
- `fetch`, `fetch_outcomes`: `ReportIsOrderFree` (the report depends on the answers
  alone), `NoProductStarves`, `FilesTellTheRun` (no stale file, report and disk agree);
  `EveryItemHasItsOutcome`, violated.

The bounds, by name: `MaxPlans` (plans written), `MaxEdits` (changes by editors),
`MaxChunks` (output per stream), `MaxSignals`, `MaxRuns`, `MaxRecords`,
`MaxWildcards` (in a selector), `MaxImportMoves`, `MaxStagings`, `MaxDisturbances`,
`MaxLaneRuns`, `MaxHttpRetries`, `MaxRedirects`, and the page sizes and bounds of
the collectors. Two plans
are what it takes to replace one under a reader, and two edits to change
something away and back, the one case the fingerprints cannot see. A limit of
one chunk with two written overflows. Two commands give a generation that ends
while another is installed; three signals are the window between the two handled
ones and a third. `MaxRuns` is one because `Leftovers` starts the run with every
kind of file an earlier one can leave. Two roots are enough for order: the loop
of apply looks at one root and the set of those to come. Two batches of a lane are what it takes to rename
an object and come back to a killed publication; a page size of two makes four items
two full pages; one redirect from the first origin to each other tells an origin
from a host. A `clean-plans` next to `apply` is left to the theorems: with it the
instance is too large to add anything in the time of a run. Symmetry is used in `assess_edits` only,
between values that nothing tells apart; elsewhere the values differ in what the gates say of them.

For assessment two edits are needed: one takes a value away while the first pass is under way, the
other puts it back before the second reads it. Two roots in one report are left to the theorem
ReportOfOneMoment, which is for any number. The
runs have no liveness property: an assertion is a fixed number of steps, each of
which may also fail.

Deadlock checking is off where the modelled commands end and nothing else need
happen. Where ending is in question it is a property of its own (CommandEnds,
NobodyWaitsForEver, RequestsEnd); plan, apply, assert, fetch, staging, the oracle,
refresh and the lanes are loops over finite lists in which every step may also fail.

## 5. Fairness

- `SavedPlan`, `ExactApply`, `Assessment`, `FetchBatch`, `ImportStaging`,
  `OracleImport`, `Refresh` and `LaneRun` have safety properties only and assume no
  fairness.
- `HttpTransport`, `HttpFairness`: weak fairness of the steps of each worker. A round
  trip ends by itself, because every attempt has a timeout, and a sleep does; which
  answer a server gives is free.
- `TerraformCommand`, `Scheduling`: weak fairness of each goroutine that can move
  and of the passing of time. This is Go's scheduler and clock. Neither the child
  nor the host owes anything: the first half of CommandEnds holds against a child that
  never ends and a host that never reads. Its second half, without a deadline, has
  `Patience` as antecedent: the child ends and the host reads.
- `ProcessGroups`: strong fairness of the steps of a command and of a watcher,
  because they contend for one mutex that Go hands to waiters in turn (a waiter
  is not overtaken for ever: starvation mode). That child processes end by
  themselves is an antecedent of CommandsReturn only, one half of
  NobodyWaitsForEver.

## 6. What is proved

The proofs hold for every value of the constants that the named assumptions allow
(SavedPlanAssumption, ExactApplyAssumption, CommandAssumption and so on, each in the
module that declares the constants): any number of roots, planners, contents, plans,
edits, callers, workers, products, signals. "The sole planner" below is the hypothesis
`Planners = {p}`: two planners of one root do break what it guards, as the code takes
no lock, and the theorems that need it state it.

Each theorem is `Spec => []P` along one argument: an inductive invariant, a conjunction
of named parts; `Init` implies it; every action preserves it, one lemma per action and
part it can disturb; it implies P. What follows says which parts, and why P alone is
not inductive.

- `PlanEval_proofs`, for any document, policy, attestation and overrides:
  **GatedIsConsented** (whatever passes ApplyGate is consented to),
  **AssertedCleanIsApplicable** (apply refuses nothing that assert-clean accepted without
  a policy), **ClearedUpdateIsUnchanged** (a cleared update moved no value) and
  **ScopedAssertHidesNoDrift** (a scoped assertion accepts no incomplete plan with a resource
  left to write, and no drift in its scope). They speak of one evaluation.
  Lemmas: what a validated document and a status-free classification imply, change by
  change; a policy only ever tolerates.
- `Documents_proofs`, **ReportsTellTheTruth**, for any roots, plans, policy,
  attestations and guidance. Its hypothesis `Askable` is what the command line and the
  deployment guarantee: assert-clean takes no policy, only a policy that was asked for can
  be unreadable, and the roots of a tenant share neither label nor type. The argument
  follows a report backwards: the validator accepts what `ReportRoots` built, since every
  finding is fit for it (`FindingsAreFit`) and the statuses agree (`StatusesOfFindings`);
  guidance that does not join is left out (`ReportIsBuilt`, `ReportIsPublished`); each phase
  an assessment ends in has the evidence the validator wants of it (`PhaseOfAssessment`,
  over the least root outside the contract); and what is blocked in a row is what nothing
  explains, but for updates that cannot be told (`BlockedIsUnexplained`).
  **ReportsHereTellTheTruth** and four more carry this and the theorems of
  `PlanEval_proofs` over to what TLC runs, for any addresses, any number of records and any
  tables of types and providers: `ReportsAreAskable`, `PlanTyped`, and the five properties
  of `MCTopics` about plans and reports one by one.
- `Documents_proofs`, moves: **MovesAlwaysReconcile**, for any imports before and after and
  any limit of candidates, and **MovesHereReconcile** for those of the instance. A candidate is
  a move only when its identity had one old key, that key goes to one new key, and neither
  is in use on the other side; so two moves that meet in a key are one, and a plain rename,
  alone on both sides, is excluded by none of the four reasons to suppress it.
- `Documents_proofs`, topology: **ScopeAlwaysCoversFiles**, for any packs, tenant,
  deployment and selection, and **ScopesHereCoverFiles** for the packs and deployments of
  the instance. Its hypotheses are that the parts of a path are path segments (`Segments`)
  and that every type has a name for each of its files (`FilesNamed`), of which the latter
  is in the assumption TypesAssumption that TLC evaluates. A path of a type is a base and a
  rest, and the scope decides on the rest. That the order of types has each selected type
  once and after all it refers to is by induction over the number of types placed
  (`PlacedWell`: no type twice, and the referents of each placed before it); when all are
  placed there are as many as were selected, and otherwise the order is refused as a cycle.
- `Documents_proofs`, collections: **PullsAreAlwaysComplete**, for any items, page sizes,
  bounds, numbers of pages, refused page and server with or without totals, for the four
  ways to page, expansions, merged settings and followed paths; **SignedInAreReachable**, for
  any environment; and **CollectionsHereAreSound** for the instance, of which TLC evaluates
  the property. Its hypotheses are that the server holds sequences (`Serves`) and that an
  entry lists its paths (`Registered`). The lemmas: concatenated pages are a prefix of the
  items (`PagesAre`), so that they are the items once they reach their number
  (`PagesJoin`); a way to page returns the answers up to one that ends it (`UpToIs`); and each way
  ends only where no item is left: a short page (`ZiaPathIs`), the number of pages the server
  told (`ZpaPathIs`), and an empty page, a page shorter than the limit or a total that is
  reached (`ZccPathIs`). The last needs that what was collected so far is the same prefix,
  and fails for a missing total read as zero, which is the mutant.
- `Documents_proofs`, policies: **ProjectedObjectsAreSafe**, **StaleEntriesHaveNoEffect**
  and **TolerancesAreReadInOrder**, for any schema, state, mask, raw item, defaults and policy
  with any number of entries, and **PoliciesHereAreSafe** for the instance, however its policy
  grows. The hypotheses: a schema whose blocks enclose what is in them
  (`SchemaAssumption`), a state that Terraform shows under it (`StateFits`: each value where
  the schema has a place for it), an entry's path of strings (`EntriesFit`) and a raw item whose values come
  from it (`RawFits`); for a safe object also a valid policy, which the merge checks
  (`ValidPolicy`). That the states and paths of the instance are such is the assumption
  StatesAssumption and StringsAssumption, which TLC evaluates (the provers do not know that a literal is in STRING). The safe object is an invariant of
  the steps, mode by mode. A fill asks whether its target is sensitive and a sync does not, so a
  sync must not find a value of the raw item to copy; it finds none, because all syncs come
  before the fills (`Rawless`, an invariant of the first mode only). For stale entries each step either marks its entry or leaves the outcome as
  it is, so the steps of unmarked entries can be left out; of an omission, which marks by the
  first match, every path that it answers for is answered by an entry that is left, and by the
  same one.
- `SavedPlan_proofs`, **SavedPlanTypeCorrect**: one lemma per step of the planner.
  SPTypeOK is inductive as it stands because it says which fields are set where
  (`pl[p].fp` from the fingerprint on, a current root inside the loop).
  **SavedPairDeclaresItsInputs**, **AttestationIsTrue**, **FailedSaveIsUndone**, with the
  sole planner. They speak of files, and the step that breaks them is the write of a
  declaration that was captured five steps before. `SoleInv(p)` adds what the
  running planner knows at each pc: no declaration while its plan is unwritten; the
  fingerprint it holds against the inputs and `churn`; the digest it holds against
  tfplan; the targets against the attestation.
- `ExactApply_proofs`: **ApplyTypeCorrect**, **OnlyConsentedIsApplied**,
  **NoUnseenChangeIsApplied**, **SnapshotIsScrubbed**, for any number of planners.
  `ApplyInv` adds to TypeOK: from the show on the descriptor's content is what was
  shown or the recheck of the digest will fail; from the gate on what was shown is
  consented to; and during the final recheck every check already made holds or is
  in `touched`. The last one is the heart: it turns a sequence of non-atomic reads
  into one statement about the moment of the apply. **AppliedIsDeclared** and
  **ApplyKeepsItsPromise** (the refinement of `ApprovedApply`), with the sole
  planner: `PromiseInv(p)` joins ApplyInv and SoleInv(p) and adds `Evident(p)` (the
  bound plan was saved by this planner, and once it was found unchanged after its
  declaration was read, the two belong together), `Logged(p)` (the same of every plan in
  the log, and that it is complete or targets what it imports) and `Running` (the selected
  roots before the current one are those of the log, and of their saved plans only the
  one that is about to be dropped is left). With it each action of apply is shown to be a step of the abstract
  specification or to leave its variables alone; the initial state maps to the
  abstract one.
- `Assessment_proofs`: **CopiesDoNotOutlive**, **ReportOfOneMoment**,
  **StatusesAreTrue**, for any number of planners; **RowsAreTrue** with the sole planner,
  because an attestation tells its plan's targets only then. `AssertInv` is AssertType,
  `Progress` (how far the loops and scripts have come), `CopiesKnown` (which snapshots
  exist), `ChangesSeen` (the one moment and what was away then, over all roots, the policy, the deployment and
  the selection instead of one root) and `ShownIsBound` (what a row was classified from).
  `ScopesKnown(p)` adds which plans the evidence and the attestations are of.
- `Subprocess_proofs`: **ResultsAreTrue**, **StoppedIsQuiet** (an action
  property). `CommandInv` follows the bytes: what the child wrote is in the pipe, with a
  reader, queued for a pump or delivered; and the ends: a reader tells only after the
  stream closed, a pump only after it delivered all or was aborted, the loop has
  `Gathered` what each of them told, and a `Returned` result is about ended goroutines.
  ResultIsTrue is about the last step alone; the parts are needed because five
  goroutines tell the loop in any order.
  **SignalStrandsNoGroup**: signals are tokens that are never
  multiplied: each is in a channel or with a watcher that has not sent it on, and two such
  places mean that two were sent (`Counted`), so the host can only end in the window of
  NoStrandedGroup by a second one. `Owned` and `Reached`: a running group is about to be
  registered, registered, or about to be killed; `Gated`: a command that a watcher took
  over does not return before the signal was sent on.
- `Commands_proofs`: **TransportIsSafe** (`HttpInv`: an attempt under way
  has credentials only at the origin of its request and a body only on its first hop,
  `AttemptStaysHome`, through every redirect and retry, and what the jar holds for a host or domain was
  given by that host or one of that domain),
  **RefreshAppliesTheShownPlan** (`RefreshInv`: an open descriptor is of the plan that
  was shown, `OpenIsShown`, whoever replaces the file), **OracleImportsAreExact**
  (`OracleInv`: a plan was judged against the requests it was made for, `PlanOfConfig`;
  it is applied once, and the answers are of that apply), **StagingIsAlwaysSound**
  (`StagingInv`: what a state-aware run is about to publish names nothing its listing
  does, `AtArtifact`; what is staged of a listed type neither, but for the artifact at hand,
  `ListedAreGone`; the count is bounded by the files that stand among the artifacts
  passed, `StagedAreCounted`, which rests on the loop meeting every artifact once; and a first
  run has one temporary name at most, `TemporariesKnown`).
- `Commands_proofs`, the lanes, for any types, results, trees and number of batches:
  **MovesAreWrittenFirst** (the action property EvidenceComesFirst), **LanesAccount** and
  **LanesAlwaysKeepTheirWord**. `LaneInv` adds to the shapes of the batch that the types passed
  are those accounted for, each under one heading, with what was published still standing
  (`LaneAccounts`), and, while a type is published, what the rest of the list of changes
  makes of each file and in which order (`LanePublishes`, over `Leaves` and `Precedes`): the
  moves that follow from new imports come before these. That is why a kill between any two
  writes is harmless: what is on disk is what a prefix of the list left. A cut in a write of the moves, which
  come first, leaves the imports as they were; one in the imports comes after the moves are whole. `ReferenceInv` adds
  that every sidecar is one that a result of this history compiles to or that it began with
  (`SidecarsKnown`), that the tokens on disk resolve (TokensResolve), and that what is still
  to be written keeps them so (`ReferencesPending`): the new configuration names keys of
  sidecars on disk, and a sidecar is only replaced by one that has every key that is named,
  the old spelling of it only removed after the new one is there. Two assumptions are relied
  on, both evaluated by TLC for the instance. `LaneAssumption`: the batch goes over its types once, and
  a result has one of the five statuses. `ReferenceAssumption`: what is fetched holds no tokens yet and
  its keys are in the order of names; no identity is the empty text; a token that is made names the key some
  lookup has for an identity of another type (what `SubstituteReferenceTokens` does); and a history begins
  in a tree whose references resolve.
- `FetchBatch_proofs`: **ReportNeverDependsOnTheOrder**, **ProductsTakeTurns**,
  **FilesAlwaysTellTheRun**. `FetchInv`: an item is in one lane, with one worker or
  has an outcome (`InOnePlace`); outcomes, authentications and files are what the
  answers say (`OutcomesTell`, `AskedOnce`); destinations are cleared before the
  first request (`Cleared`); items without an outcome lie behind a fatal one of a
  single worker (`InOrder`); and a product has waited at most as often as there are lanes that the
  rotation passed since its turn (`Rotates`), which bounds a wait by the number of products
  although lanes run dry in between.

Only model-checked:

- the liveness properties (CommandEnds, NobodyWaitsForEver, RequestsEnd): fairness and
  ENABLED are beyond the prover;
- TransformAccountsHere, EnvironmentsResolveHere, ReferencesRoundTripHere and
  PlannedTextAgreesHere: the algorithms they are about go through nested values or lines by
  recursive definitions and folds, and what these compute for every input needs induction over
  data. (An object under a policy is a function on paths and its entries are taken by a
  recursive function over their number, so of PolicyIsSafeHere this is not true.)

## 7. Where the code does not do what its text says

Two disagreements are runs of their own (`fetch_outcomes`, `pending_moves`; PROJECT.json
"findings"). Four more are in the models, and the properties state them as they are:

- **Keys of the two lanes.** `adopt/adoption_meta.go:23` says that adopt "mirrors
  transform's key_field_references exactly: the two lanes must agree on every key". Adopt indexes
  the eligible items only (`adopt/runner.go:150`), transform all raw items, skipped ones too
  (`transform/kernel.go:185`): a child of a skipped parent gets a key with the parent's name in one
  lane and without it in the other. And transform decodes `name` and `description` before it skips
  and keys (`kernel.go:156`), adopt never does. TransformAccountsHere claims equal keys where neither
  is the case (`AsksSkipped`, `ReadAlike`); without either condition TLC finds it violated.
- **Fills over null lines.** `docs/import-oracle.md` says a fill restores what the readback omits, in
  the projected object and in the generated text alike. A null attribute is not in the object and is
  filled; its line `x = null` counts as present (`adopt/generated_config_policy.go:669`), so the text
  is not filled (474) and Terraform plans with null. PlannedTextAgreesHere says so of exactly these
  paths (`FillsOverNull`).
- **Imports cut short.** `tfrender/import_moves.go:251` says that partial blocks are not interpreted,
  "because the prior artifact becomes state-move evidence". A partial block is refused, but
  imports.tf is emptied before it is written (`transform_artifacts.go:2918`), and nothing, or a prefix
  of whole blocks, is a complete text (263, 309). A rename of an object whose block is gone by then
  yields no move. EvidenceComesFirst therefore speaks of what the imports read as, not of all they once held.
- **Cookies of a domain.** `httptransport/transport.go:128` says that the jar keeps "host-only cookies only".
  Without a list of public suffixes it honours a Domain attribute, and sends the cookie to the other
  hosts of the domain. CredentialsStayHome bounds a session by its host or domain. The hosts the
  collectors sign in at are single ones, as the comment goes on to say.

## 8. What is abstracted and what is not modelled

- A kill of `apply` or of an assertion leaves private snapshots in the temporary
  directory; SnapshotScrubbed and CopiesAreScrubbed speak of runs that end. A
  private directory is kept after a failed preparation: its scrubbed snapshot is
  not among the names the removal expects, so it refuses (`stray`). A kill of `fetch` in the middle of a
  write leaves a torn file at the destination; FilesTellTheRun claims of such a file only
  that it is not an earlier run's, and of a report that it matches, for runs
  that report.
- NoStrandedGroup has a window the code leaves open and comments on: between the
  end of its own subscription and its kills a second signal takes its default
  effect. The property says exactly that.
- `outputsOK` stands for the check of reference outputs and is either way;
  nested values, identities of files (device, inode, mode) and time stamps are
  abstracted to contents; SIGKILL of a group takes effect at once.
- Terraform is a process that may fail at any time, and writes any document of
  `Bodies`. That its plan applies to what it was computed from is its promise.
- The lanes are checked with JSON configurations and without alternate key spaces
  in the batch; alternate spaces and HCL are in the topics of `MCDocuments`.
  TokensResolve speaks of canonical keys: the guard of the code looks at no other
  space, and references to one may be stranded.
- gen-env is one step: it writes `main.tf` before `expressions.tf`, and a failure
  between the two leaves a directory of two generations (a hazard without a
  property). An absent referent state, an older cache and operator expressions are
  inputs.
- The server of a pull serves pages of the requested size. paginateZccV2 advances by
  that size also when a server announces a smaller limit, and ZPA pages have no bound
  of their own: a server that does so is outside the model.
- In reports, two plan paths that render to one text are two; the wording of messages
  and the bytes of a report are left out.
- Not modelled: the steps of the removal of temporary directories; the stable read
  and its budget arithmetic; rendering and parsing of text (HCL, JSON, Terraform
  files), which would transliterate formats no property here is about; module
  generation from schemas, which is such text; programmable overrides and flag
  parsing, which enter as results and options; and the offline authoring tools
  (source and OpenAPI analysis, contracts, publication), which no command of the
  workflow above calls.
