-------------------------- MODULE SavedPlanEvidence --------------------------
(***************************************************************************)
(* The evidence of one saved plan (go/internal/plan/evidence.go): a        *)
(* private snapshot of tfplan bound to the declaration, the inputs, the    *)
(* original and the attestation it was found with.  Apply and assessment   *)
(* prepare it, recheck it and scrub it; every function is a sequence of    *)
(* reads between which another process may move.                           *)
(***************************************************************************)
EXTENDS SavedPlan

\* Files of one root are bound by src, plan and att; copy is the content of
\* the snapshot's inode and linked whether its name still leads to it.
NoEvidence == [src |-> Null, plan |-> Null, att |-> Null, copy |-> Null,
               linked |-> FALSE, fd |-> FALSE, shown |-> Null]

Evidence ==
    [src : Fingerprints \cup {Null}, plan : SavedPlans \cup {Null},
     att : Attestations \cup {Null}, copy : SavedPlans \cup {Null, Torn},
     linked : BOOLEAN, fd : BOOLEAN, shown : Bodies \cup {Null}]

\* MaterializeLoadedSavedPlanAssessmentRoots: the roots that have a tfplan.
SavedRoots == {r \in Roots : tfplan[r] # Null}

\* The reads of prepareSavedPlanEvidence; "declare", "snapshot" and "attest"
\* bind what they find.
PrepareScript ==
    <<"declare", "current", "snapshot", "identity", "digest", "attest",
      "declared", "current", "original", "digest", "attested", "identity">>

\* The reads of RecheckSavedPlanEvidence.
EvidenceScript ==
    <<"identity", "attested", "original", "declared", "current", "digest",
      "identity", "declared", "current", "original", "digest", "attested", "identity">>

\* One read of root r against what evidence ev binds.
Bound(check, r, ev) ==
    CASE check = "declared"  -> sources[r] = ev.src
      [] check = "current"   -> PlanSources(r) = ev.src
      [] check = "original"  -> tfplan[r] = ev.plan
      [] check = "digest"    -> ev.linked /\ ev.copy = ev.plan
      [] check = "identity"  -> ev.linked
      [] check = "attested"  -> attest[r] = ev.att

\* ReadSavedPlanAttestation: none, or one that parses and names the plan it is found beside.
ReadsAttestation(r, plan) == attest[r] = Null \/ (attest[r] # Torn /\ attest[r].plan = plan.id)

\* One read while evidence is prepared: what it may leave bound, nothing when
\* it refuses.
PreparedBy(check, r, ev) ==
    CASE check = "declare" ->
           IF Declared(r) THEN {[ev EXCEPT !.src = sources[r]]} ELSE {}
      [] check = "snapshot" ->
           IF tfplan[r] # Null
           THEN {[ev EXCEPT !.plan = tfplan[r], !.copy = tfplan[r], !.linked = TRUE]}
           ELSE {}
      [] check = "attest" ->
           IF ReadsAttestation(r, ev.plan) THEN {[ev EXCEPT !.att = attest[r]]} ELSE {}
      [] check \notin {"declare", "snapshot", "attest"} ->
           IF Bound(check, r, ev) THEN {ev} ELSE {}

\* CleanupSavedPlanEvidence.  It refuses a name that no longer leads to the
\* bound inode; to open, truncate or sync one that does may fail as well.  What
\* remains is nothing, bytes that lost their name, or the copy as it was.
Leavings(ev) ==
    IF ev.copy # Null /\ ~ev.linked THEN [NoEvidence EXCEPT !.copy = ev.copy] ELSE NoEvidence
ScrubLeaves(ev) ==
    {Leavings(ev)} \cup
    (IF ev.copy = Null THEN {} ELSE {[NoEvidence EXCEPT !.copy = ev.copy, !.linked = ev.linked]})
=============================================================================
