------------------------------- MODULE Refresh -------------------------------
(***************************************************************************)
(* Reconciling recorded state with reality, root by root                   *)
(* (go/internal/plan/refresh.go).  Terraform saves a refresh-only plan in  *)
(* a private directory; the file is opened once, shown, judged, and the    *)
(* open file is applied.  Whatever replaces the name in between is not     *)
(* what was judged.  A root that fails ends the run without a result.      *)
(***************************************************************************)
EXTENDS Integers, Sequences, FiniteSets, Absent

CONSTANTS
    RefreshRoots,   \* the roots a run may be started on, each a sequence of [configured, backend]
    RefreshPlans    \* the plans Terraform may save

\* A plan: its envelope, the sections that would act on something remote, its resource
\* changes, and the addresses whose recorded values it moves.
ASSUME RefreshAssumption ==
    /\ \A rs \in RefreshRoots : rs \in Seq([configured : BOOLEAN, backend : BOOLEAN])
    /\ \A p \in RefreshPlans :
          /\ {p.supported, p.complete, p.errored, p.readable} \subseteq BOOLEAN
          /\ p.executable \in BOOLEAN /\ IsFiniteSet(p.drift)

VARIABLES
    refresh,    \* the run: its roots, where it stands in the current one, and its result
    saved,      \* the plan the snapshot path names now, Null if there is none
    reconciled  \* history: the plans Terraform applied, one per root

rfvars == <<refresh, saved, reconciled>>

NoRefresh == [pc |-> "idle", roots |-> <<>>, at |-> 0, backend |-> FALSE, directory |-> FALSE,
              open |-> Null, shown |-> Null, roots_done |-> 0, moved |-> 0, failed |-> FALSE]
RefreshAt(pc) == refresh.pc = pc

\* refreshRecordActions, requireRefreshPlanEnvelope: a plan that says all it would do.
RequireRefreshPlanEnvelope(p) == p.supported /\ p.complete /\ ~ p.errored /\ p.readable
\* Nothing but recorded values may move.
RequireStateOnlyRefreshPlan(p) ==
    /\ RequireRefreshPlanEnvelope(p)
    /\ ~ p.executable
    /\ \A c \in p.changes : c.actions = <<"no-op">> /\ ~ c.importing

RefreshFails == refresh' = [refresh EXCEPT !.pc = "cleanup", !.failed = TRUE]

StartRefresh(roots, backend) ==
    /\ RefreshAt("idle")
    /\ refresh' = [NoRefresh EXCEPT !.pc = "next", !.roots = roots, !.backend = backend]
    /\ UNCHANGED <<saved, reconciled>>

\* The next root with a config file, if any; a root that declares a backend needs one.
NextRefreshRoot ==
    /\ RefreshAt("next")
    /\ refresh' = LET next == refresh.at + 1
                  IN  IF next > Len(refresh.roots)
                      THEN [refresh EXCEPT !.pc = IF refresh.roots_done = 0 THEN "failed" ELSE "done",
                                           !.failed = refresh.roots_done = 0]
                      ELSE IF ~ refresh.roots[next].configured THEN [refresh EXCEPT !.at = next]
                      ELSE IF refresh.roots[next].backend /\ ~ refresh.backend
                      THEN [refresh EXCEPT !.at = next, !.pc = "failed", !.failed = TRUE]
                      ELSE [refresh EXCEPT !.at = next, !.pc = "init"]
    /\ UNCHANGED <<saved, reconciled>>

\* Init, then the private directory.
InitializeRefresh ==
    /\ RefreshAt("init")
    /\ \/ refresh' = [refresh EXCEPT !.pc = "plan", !.directory = TRUE]
       \/ refresh' = [refresh EXCEPT !.pc = "failed", !.failed = TRUE]
    /\ UNCHANGED <<saved, reconciled>>

PlanRefreshOnly ==
    /\ RefreshAt("plan")
    /\ \/ \E p \in RefreshPlans \cup {Null} : saved' = p /\ refresh' = [refresh EXCEPT !.pc = "open"]
       \/ RefreshFails /\ UNCHANGED saved
    /\ UNCHANGED reconciled

OpenRefreshPlan ==
    /\ RefreshAt("open")
    /\ IF saved = Null THEN RefreshFails
       ELSE refresh' = [refresh EXCEPT !.pc = "show", !.open = saved]
    /\ UNCHANGED <<saved, reconciled>>

\* The show reads the open file.
ShowRefreshPlan ==
    /\ RefreshAt("show")
    /\ refresh' = [refresh EXCEPT !.pc = "judge", !.shown = refresh.open] \/ RefreshFails
    /\ UNCHANGED <<saved, reconciled>>

JudgeRefreshPlan ==
    /\ RefreshAt("judge")
    /\ IF RequireStateOnlyRefreshPlan(refresh.shown)
       THEN refresh' = [refresh EXCEPT !.pc = "apply"] ELSE RefreshFails
    /\ UNCHANGED <<saved, reconciled>>

\* Mutant: the plan is applied by its name.
ApplyRefreshPath ==
    /\ RefreshAt("apply")
    /\ saved # Null
    /\ reconciled' = Append(reconciled, [root |-> refresh.at, plan |-> saved, shown |-> refresh.shown])
    /\ \/ RefreshFails
       \/ refresh' = [refresh EXCEPT !.pc = "cleanup", !.roots_done = @ + 1,
                                     !.moved = @ + Cardinality(refresh.shown.drift)]
    /\ UNCHANGED saved
\* Terraform may have applied it even when the command fails.
ApplyRefreshPlan ==
    /\ RefreshAt("apply")
    /\ reconciled' = Append(reconciled, [root |-> refresh.at, plan |-> refresh.open, shown |-> refresh.shown])
    /\ \/ RefreshFails
       \/ refresh' = [refresh EXCEPT !.pc = "cleanup", !.roots_done = @ + 1,
                                     !.moved = @ + Cardinality(refresh.shown.drift)]
    /\ UNCHANGED saved

\* A directory that cannot be removed fails a root that has not failed yet.
CleanupRefresh ==
    /\ RefreshAt("cleanup")
    /\ \/ /\ refresh' = [refresh EXCEPT !.pc = IF refresh.failed THEN "failed" ELSE "next",
                                        !.directory = FALSE, !.open = Null, !.shown = Null]
          /\ saved' = Null
       \/ /\ refresh' = [refresh EXCEPT !.pc = "failed", !.failed = TRUE, !.open = Null, !.shown = Null]
          /\ UNCHANGED saved
    /\ UNCHANGED reconciled

\* Environment: another plan takes the name while the run is between its steps.
ReplaceSnapshot(p) ==
    /\ refresh.pc \in {"show", "judge", "apply"} /\ saved # Null /\ p # saved
    /\ saved' = p
    /\ UNCHANGED <<refresh, reconciled>>

RefreshInit == refresh = NoRefresh /\ saved = Null /\ reconciled = <<>>
RefreshNext ==
    \/ \E rs \in RefreshRoots, b \in BOOLEAN : StartRefresh(rs, b)
    \/ NextRefreshRoot \/ InitializeRefresh \/ PlanRefreshOnly \/ OpenRefreshPlan \/ ShowRefreshPlan
    \/ JudgeRefreshPlan \/ ApplyRefreshPlan \/ CleanupRefresh
    \/ \E p \in RefreshPlans : ReplaceSnapshot(p)

RefreshSpec == RefreshInit /\ [][RefreshNext]_rfvars

-----------------------------------------------------------------------------

\* What is applied is the plan that was shown, it only moves recorded values, and each root
\* is applied at most once; a run that succeeds applied each of the roots it counts and
\* leaves no directory behind.  (refreshSingleRoot's open descriptor.)
RefreshAppliesWhatWasShown ==
    /\ \A i \in DOMAIN reconciled :
          /\ reconciled[i].plan = reconciled[i].shown
          /\ RequireStateOnlyRefreshPlan(reconciled[i].plan)
          /\ \A j \in DOMAIN reconciled : reconciled[i].root = reconciled[j].root => i = j
    /\ RefreshAt("done") =>
          /\ ~ refresh.failed /\ ~ refresh.directory /\ refresh.roots_done > 0
          /\ Len(reconciled) = refresh.roots_done
          /\ {reconciled[i].root : i \in DOMAIN reconciled}
                = {i \in DOMAIN refresh.roots : refresh.roots[i].configured}
=============================================================================
