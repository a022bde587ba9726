---------------------------- MODULE OracleImport ----------------------------
(***************************************************************************)
(* One import transaction of the oracle                                    *)
(* (go/internal/adopt/oracle_transaction.go, oracle_validate.go,           *)
(* oracle.go, oracle_runner.go).                                           *)
(*                                                                         *)
(* In a private directory Terraform imports every requested object, and    *)
(* what the provider observed is handed to adopt.  The configuration that  *)
(* Terraform generates is corrected by policy and planned again; the plan  *)
(* has to be exactly the requested imports before it is applied (to the    *)
(* local scratch state) or its observations are taken without applying.    *)
(***************************************************************************)
EXTENDS Integers, Sequences, FiniteSets, SequencesExt, Absent

CONSTANTS
    OracleTypes,     \* resource types
    ObjectIds,       \* import identities; an object is known by the identity it was read with
    OracleKeys,      \* keys of a request
    InstanceName,    \* InstanceName[k]: the hashed name of a key in the scratch root
    OracleRequests   \* the requests a transaction may be started with

\* A request names its type, the import identity of each key, its provider, and
\* whether its policy fills fields from raw items and has them.
ASSUME OracleAssumption ==
    /\ IsFiniteSet(OracleKeys)
    /\ \A requests \in OracleRequests :
        /\ IsFiniteSet(DOMAIN requests)
        /\ \A i \in DOMAIN requests :
              /\ requests[i].type \in OracleTypes
              /\ requests[i].ids \in UNION {[K -> ObjectIds] : K \in SUBSET OracleKeys}
              /\ requests[i].fills \in BOOLEAN /\ requests[i].rawItems \in BOOLEAN

VARIABLES
    oracle,    \* the transaction: where it stands, what it asked for, and its result
    scratch,   \* Null, or what the private directory holds
    applied    \* history: the plan Terraform applied, Null if none

orvars == <<oracle, scratch, applied>>

NoOracle == [pc |-> "idle", requests |-> <<>>, acceptedPlan |-> FALSE, keep |-> FALSE,
             generateFailed |-> FALSE, shown |-> Null, output |-> Null, failed |-> FALSE]

Active == {i \in DOMAIN oracle.requests : DOMAIN oracle.requests[i].ids # {}}

\* The addresses of the scratch root, with the key and identity each stands for.
Expected(requests) ==
    UNION {{[type |-> requests[i].type, name |-> InstanceName[k], key |-> k, id |-> requests[i].ids[k]] :
              k \in DOMAIN requests[i].ids} : i \in DOMAIN requests}
AddressOf(instance) == <<instance.type, instance.name>>
Addresses == {AddressOf(e) : e \in Expected(oracle.requests)}

\* The checks before a directory is made.
RefusedRequests(requests) ==
    \/ \E i, j \in DOMAIN requests : i # j /\ requests[i].type = requests[j].type
    \/ \E i \in DOMAIN requests :
          LET request == requests[i]
          IN  /\ DOMAIN request.ids # {}
              /\ \/ request.fills /\ ~ request.rawItems
                 \/ \E k, l \in DOMAIN request.ids :
                       k # l /\ (request.ids[k] = request.ids[l] \/ InstanceName[k] = InstanceName[l])
    \/ \E i, j \in DOMAIN requests :
          /\ DOMAIN requests[i].ids # {} /\ DOMAIN requests[j].ids # {}
          /\ requests[i].provider # requests[j].provider

OracleFails == oracle' = [oracle EXCEPT !.pc = "cleanup", !.failed = TRUE, !.output = Null]
OracleAt(pc) == oracle.pc = pc

-----------------------------------------------------------------------------
(* What Terraform may answer *)

\* A plan: its changes, whether it is complete, applyable and without other
\* effects, the observed objects before and after, and what stays unknown.
ImportOf(e) == [address |-> AddressOf(e), id |-> e.id, provider |-> "asked", action |-> "no-op"]
ExactObjects == [a \in Addresses |-> (CHOOSE e \in Expected(oracle.requests) : AddressOf(e) = a).id]
ExactPlan == [sound |-> TRUE, changes |-> {ImportOf(e) : e \in Expected(oracle.requests)},
              planned |-> ExactObjects, prior |-> ExactObjects, unknown |-> FALSE,
              config |-> scratch.config]

\* The ways to differ from it in one place: another effect of one import, another
\* provider or identity, a change nobody asked for, an object that is not shown.
WithAction(c) == [ExactPlan EXCEPT !.changes = (@ \ {c}) \cup {[c EXCEPT !.action = "update"]}]
WithProvider(c) == [ExactPlan EXCEPT !.changes = (@ \ {c}) \cup {[c EXCEPT !.provider = "other"]}]
WithIdentity(c, id) == [ExactPlan EXCEPT !.changes = (@ \ {c}) \cup {[c EXCEPT !.id = id]},
                                         !.planned[c.address] = id, !.prior[c.address] = id]
WithUnasked(t, id) == [ExactPlan EXCEPT !.changes = @ \cup {[address |-> <<t, "unasked">>, id |-> id,
                                                             provider |-> "asked", action |-> "no-op"]}]
PlansToAnswer ==
    {ExactPlan, [ExactPlan EXCEPT !.sound = FALSE], [ExactPlan EXCEPT !.unknown = TRUE]}
    \cup {[ExactPlan EXCEPT !.changes = @ \ {c}] : c \in ExactPlan.changes}
    \cup {WithAction(c) : c \in ExactPlan.changes} \cup {WithProvider(c) : c \in ExactPlan.changes}
    \cup {WithIdentity(c, id) : c \in ExactPlan.changes, id \in ObjectIds}
    \cup {WithUnasked(t, id) : t \in OracleTypes, id \in ObjectIds}
    \cup {[ExactPlan EXCEPT !.planned[a] = Null] : a \in Addresses}
    \cup {[ExactPlan EXCEPT !.prior[a] = Null] : a \in Addresses}

\* The state an applied plan leaves: what it imports; or another one.
StatesToAnswer(plan) ==
    LET full == [a \in {c.address : c \in plan.changes} |->
                    (CHOOSE c \in plan.changes : c.address = a).id]
    IN  {[objects |-> full, clean |-> TRUE], [objects |-> full, clean |-> FALSE]}
        \cup {[objects |-> [a \in DOMAIN full \ {x} |-> full[a]], clean |-> TRUE] : x \in DOMAIN full}
        \cup {[objects |-> [a \in DOMAIN full \cup {<<t, "unasked">>} |->
                               IF a \in DOMAIN full THEN full[a] ELSE Null], clean |-> TRUE] : t \in OracleTypes}

-----------------------------------------------------------------------------
(* What the code asks of an answer *)

\* A bool complete, no deferral, no other effect, and one no-op import of the asked
\* identity by the asked provider for each expected address.
AssertImportOnlyBatchPlan(plan) ==
    /\ plan.sound
    /\ Cardinality(plan.changes) = Cardinality(Expected(oracle.requests))
    /\ \A c \in plan.changes : \E e \in Expected(oracle.requests) : c = ImportOf(e)

\* Exactly the expected addresses, none of them tainted or deposed.
ExactBatchStateObjects(state) == state.clean /\ DOMAIN state.objects = Addresses

\* The plan's own observations, when they agree with each other and nothing is unknown.
ExtractAccepted(plan) ==
    /\ AssertImportOnlyBatchPlan(plan)
    /\ ExactBatchStateObjects([clean |-> TRUE, objects |-> plan.planned])
    /\ ExactBatchStateObjects([clean |-> TRUE, objects |-> plan.prior])
    /\ ~ plan.unknown
    /\ plan.planned = plan.prior

\* The observed objects by type and key, with an empty entry for a type without imports.
FillEmptyBatchResources(objects) ==
    [t \in {oracle.requests[i].type : i \in DOMAIN oracle.requests} |->
        LET instances == {e \in Expected(oracle.requests) : e.type = t}
        IN  [k \in {e.key : e \in instances} |-> objects[<<t, InstanceName[k]>>]]]

-----------------------------------------------------------------------------
(* The transaction *)

StartOracle(requests, acceptedPlan, keep) ==
    /\ OracleAt("idle")
    /\ LET asked == [NoOracle EXCEPT !.requests = requests, !.acceptedPlan = acceptedPlan, !.keep = keep]
           nothing == \A i \in DOMAIN requests : DOMAIN requests[i].ids = {}
           types == {requests[i].type : i \in DOMAIN requests}
       IN  oracle' = IF RefusedRequests(requests) THEN [asked EXCEPT !.pc = "failed", !.failed = TRUE]
                     ELSE IF nothing THEN [asked EXCEPT !.pc = "done", !.output = [t \in types |-> <<>>]]
                     ELSE [asked EXCEPT !.pc = "create"]
    /\ UNCHANGED <<scratch, applied>>

\* The directory, then main.tf without backend or cloud block, and imports.tf.
CreateScratch ==
    /\ OracleAt("create")
    /\ \/ scratch' = [config |-> Null, plan |-> Null, state |-> Null]
          /\ (oracle' = [oracle EXCEPT !.pc = "init"] \/ OracleFails)
       \/ oracle' = [oracle EXCEPT !.pc = "failed", !.failed = TRUE] /\ UNCHANGED scratch
    /\ UNCHANGED applied

InitializeScratch ==
    /\ OracleAt("init")
    /\ (oracle' = [oracle EXCEPT !.pc = "generate"] \/ OracleFails)
    /\ UNCHANGED <<scratch, applied>>

\* A failed generation goes on when it left a configuration and failed as a command
\* does; a timeout or a lost executable ends the transaction.
GenerateConfig ==
    /\ OracleAt("generate")
    /\ \/ \E config \in {Null, "generated"} :
             /\ scratch' = [scratch EXCEPT !.config = config, !.plan = config]
             /\ oracle' = [oracle EXCEPT !.pc = "policy"]
       \/ /\ scratch' = [scratch EXCEPT !.config = "generated"]
          /\ oracle' = [oracle EXCEPT !.pc = "policy", !.generateFailed = TRUE]
       \/ OracleFails /\ scratch' \in {scratch, [scratch EXCEPT !.config = "generated"]}
    /\ UNCHANGED applied

\* Mutant: a corrected configuration is planned again only after a failed generation.
CorrectWithoutReplan ==
    /\ OracleAt("policy")
    /\ \/ OracleFails /\ UNCHANGED scratch
       \/ /\ scratch.config # Null /\ scratch' = [scratch EXCEPT !.config = "corrected"]
          /\ oracle' = [oracle EXCEPT !.pc = IF oracle.generateFailed THEN "replan" ELSE "show"]
       \/ /\ UNCHANGED scratch
          /\ IF oracle.generateFailed THEN OracleFails ELSE oracle' = [oracle EXCEPT !.pc = "show"]
    /\ UNCHANGED applied

\* ApplyGeneratedConfigPolicies and what follows from its edits: a configuration
\* that policy could not correct keeps the failure of its generation.
CorrectConfig ==
    /\ OracleAt("policy")
    /\ \/ OracleFails /\ UNCHANGED scratch
       \/ /\ scratch.config # Null /\ scratch' = [scratch EXCEPT !.config = "corrected"]
          /\ oracle' = [oracle EXCEPT !.pc = "replan"]
       \/ /\ UNCHANGED scratch
          /\ IF oracle.generateFailed THEN OracleFails ELSE oracle' = [oracle EXCEPT !.pc = "show"]
    /\ UNCHANGED applied

PlanImports ==
    /\ OracleAt("replan")
    /\ \/ /\ scratch' = [scratch EXCEPT !.plan = scratch.config]
          /\ oracle' = [oracle EXCEPT !.pc = "show"]
       \/ OracleFails /\ UNCHANGED scratch
    /\ UNCHANGED applied

\* The shown plan was made from the configuration that the plan file recorded.
ShowPlan ==
    /\ OracleAt("show")
    /\ \/ \E plan \in PlansToAnswer :
             oracle' = [oracle EXCEPT !.pc = "judge", !.shown = [plan EXCEPT !.config = scratch.plan]]
       \/ OracleFails
    /\ UNCHANGED <<scratch, applied>>

JudgePlan ==
    /\ OracleAt("judge")
    /\ IF oracle.acceptedPlan
       THEN IF ExtractAccepted(oracle.shown)
            THEN oracle' = [oracle EXCEPT !.pc = "cleanup", !.output = FillEmptyBatchResources(oracle.shown.planned)]
            ELSE OracleFails
       ELSE IF AssertImportOnlyBatchPlan(oracle.shown)
            THEN oracle' = [oracle EXCEPT !.pc = "apply"]
            ELSE OracleFails
    /\ UNCHANGED <<scratch, applied>>

ApplyScratchPlan ==
    /\ OracleAt("apply")
    /\ applied' = oracle.shown
    /\ \/ \E state \in StatesToAnswer(oracle.shown) :
             /\ scratch' = [scratch EXCEPT !.state = state]
             /\ oracle' = [oracle EXCEPT !.pc = "show state"]
       \/ OracleFails /\ UNCHANGED scratch

ShowState ==
    /\ OracleAt("show state")
    /\ \/ /\ ExactBatchStateObjects(scratch.state)
          /\ oracle' = [oracle EXCEPT !.pc = "cleanup",
                          !.output = FillEmptyBatchResources(scratch.state.objects)]
       \/ OracleFails
    /\ UNCHANGED <<scratch, applied>>

\* The deferred removal.  A success whose directory cannot be removed becomes a
\* failure without a result.
CleanupScratch ==
    /\ OracleAt("cleanup")
    /\ IF oracle.keep
       THEN UNCHANGED scratch /\ oracle' = [oracle EXCEPT !.pc = IF oracle.failed THEN "failed" ELSE "done"]
       ELSE \/ scratch' = Null
               /\ oracle' = [oracle EXCEPT !.pc = IF oracle.failed THEN "failed" ELSE "done"]
            \/ UNCHANGED scratch
               /\ oracle' = [oracle EXCEPT !.pc = "failed", !.failed = TRUE, !.output = Null]
    /\ UNCHANGED applied

OracleInit == oracle = NoOracle /\ scratch = Null /\ applied = Null

OracleNext ==
    \/ \E requests \in OracleRequests, acceptedPlan, keep \in BOOLEAN :
          StartOracle(requests, acceptedPlan, keep)
    \/ CreateScratch \/ InitializeScratch \/ GenerateConfig \/ CorrectConfig \/ PlanImports
    \/ ShowPlan \/ JudgePlan \/ ApplyScratchPlan \/ ShowState \/ CleanupScratch

OracleSpec == OracleInit /\ [][OracleNext]_orvars

-----------------------------------------------------------------------------
(* Properties *)

\* What adopt receives is, for every asked type and key and for nothing else, the
\* object that carries the asked identity, whichever way Terraform deviates.
ResultIsWhatWasAsked ==
    oracle.pc = "done" =>
        /\ DOMAIN oracle.output = {oracle.requests[i].type : i \in DOMAIN oracle.requests}
        /\ \A i \in DOMAIN oracle.requests :
              oracle.output[oracle.requests[i].type] = oracle.requests[i].ids

\* Terraform applies nothing but the asked imports, from the configuration that the
\* policy left, and nothing at all when the plan's own observations are used.
OnlyImportsAreApplied ==
    applied # Null =>
        /\ ~ oracle.acceptedPlan /\ applied.sound
        /\ applied.changes = {ImportOf(e) : e \in Expected(oracle.requests)}
        /\ scratch # Null => applied.config = scratch.config

\* The directory holds provider state in clear: a success leaves it only on request
\* (oracle_transaction.go:178).
NoScratchLeftBySuccess == oracle.pc = "done" /\ ~ oracle.keep => scratch = Null

\* The oracle's promise to adopt: it returns exactly the objects asked for, had Terraform
\* apply nothing but their imports, and leaves no directory of provider state behind by a
\* success (ImportProviderStates).
ImportsAreExact == ResultIsWhatWasAsked /\ OnlyImportsAreApplied /\ NoScratchLeftBySuccess
=============================================================================
