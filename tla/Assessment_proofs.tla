-------------------------- MODULE Assessment_proofs --------------------------
(***************************************************************************)
(* What `iw assert-clean` and `iw assert-adoptable` report and leave       *)
(* behind, for every workspace, plan and policy, whatever the processes    *)
(* around them do.                                                         *)
(***************************************************************************)
EXTENDS Assessment, SavedPlan_proofs, PlanEval_proofs

\* Before the first root, at work on one, and in the closing passes.
EarlyPCs == {"idle", "preflight", "bind", "resolve", "start"}
RootPCs  == {"prepare", "show", "controls", "recheck", "classify", "row"}
LivePCs  == RootPCs \cup {"pass", "report"}
EndPCs   == {"scrub", "directory"}
AssertPCs == EarlyPCs \cup LivePCs \cup EndPCs \cup {"done", "failed"}

Statuses == {Clean, Tolerated, Blocked}
Scopes   == Targets \cup {Null}
Rows     == [root : Roots, plan : SavedPlans, src : Fingerprints \cup {Null},
             scope : Scopes, status : Statuses]

ModeSet  == [adoptable : BOOLEAN, scoped : BOOLEAN]

AssertStates ==
    [pc : AssertPCs, mode : ModeSet, k : Nat, i : Nat,
     pass : 1..2, policy : Policies \cup {Null}, controls : Controls \cup {Null},
     selected : Seq(Roots), evs : [Roots -> Evidence], scopes : [Roots -> Scopes], kept : Nat,
     status : Statuses \cup {Null}, rows : Seq(Rows), failing : BOOLEAN, stray : BOOLEAN,
     unclean : BOOLEAN]

AssertType ==
    /\ SPTypeOK
    /\ policy \in Policies /\ controls \in Controls
    /\ sa \in AssertStates

\* How far the process is: one row per finished root, one piece of evidence per
\* registered one.
Reads(pc, left) ==
    CASE pc = "start"   -> Len(StartScript)
      [] pc = "prepare" -> Len(PrepareScript)
      [] pc = "recheck" -> Len(EvidenceScript)
      [] pc = "pass"    -> IF left THEN Len(EvidenceScript) ELSE Len(PassScript)
      [] pc \notin {"start", "prepare", "recheck", "pass"} -> 1

Progress ==
    /\ sa.pc \notin EndPCs \cup {"done", "failed"} => sa.k \in 1..Reads(sa.pc, EvidenceLeft)
    /\ sa.pc \in EarlyPCs =>
         /\ sa.rows = <<>> /\ sa.kept = 0 /\ sa.i = 1 /\ sa.status = Null
         /\ sa.evs = [r \in Roots |-> NoEvidence]
    /\ sa.pc \in EarlyPCs \cup LivePCs => ~sa.failing /\ ~sa.stray /\ ~sa.unclean
    /\ sa.pc \in RootPCs =>
         /\ sa.i \in 1..Len(sa.selected) /\ Len(sa.rows) = sa.i - 1
         /\ sa.kept = (IF sa.pc = "prepare" THEN sa.i - 1 ELSE sa.i)
    /\ sa.pc \in {"pass", "report"} =>
         /\ Len(sa.rows) = Len(sa.selected) /\ sa.kept = Len(sa.selected)
         /\ sa.i \in 1..(sa.kept + 1)
    /\ sa.pc \in EndPCs => sa.kept <= Len(sa.selected) /\ sa.i \in 1..(sa.kept + 1)
    /\ sa.pc \in LivePCs => sa.selected # <<>>
    /\ sa.pc \in EndPCs /\ ~sa.failing => sa.selected # <<>> /\ Len(sa.rows) = Len(sa.selected)
    /\ sa.pc \in {"prepare", "show", "controls", "classify"} => sa.status = Null
    /\ sa.pc = "row" => sa.status # Null
    /\ sa.pc = "report" => sa.pass = 2
    /\ CoversSelection

\* Whose copies there are: those of registered roots and of the one at work;
\* after a failure, those still to be scrubbed or known to remain.
Registered(r) == \E n \in 1..sa.kept : sa.selected[n] = r

CopiesKnown ==
    /\ sa.pc \in LivePCs =>
         \A r \in Roots :
           /\ sa.evs[r].copy \in {sa.evs[r].plan, Torn}
           /\ sa.evs[r].copy = Torn \/ sa.evs[r].linked => sa.evs[r].plan # Null
           /\ sa.evs[r].plan # Null => Registered(r) \/ (sa.pc = "prepare" /\ r = sroot)
    /\ sa.pc \in EndPCs =>
         \A r \in Roots :
           sa.evs[r].copy # Null
             => \/ sa.unclean \/ sa.stray
                \/ sa.pc = "scrub" /\ \E n \in sa.i..sa.kept : sa.selected[n] = r
    /\ CopiesAreScrubbed

\* What the running pass has read so far still holds, or was changed since it began.
Lately == IF sa.pass = 1 THEN earlier ELSE touched

FileChecks == {"declared", "current", "original", "attested"}
WideChecks == {"policy", "controls", "context"}

ReadOf(n, c) == \/ sa.pc = "report" \/ n < sa.i
                \/ n = sa.i /\ \E j \in 1..(sa.k - 1) : EvidenceScript[j] = c
ReadLast(c)  == \/ sa.pc = "report"
                \/ sa.i > sa.kept /\ \E j \in 1..(sa.k - 1) : PassScript[j] = c

FreshRoot(r, c) == Bound(c, r, sa.evs[r]) \/ <<c, r>> \in Lately
FreshScope(r)   == (sa.mode.scoped => ImportScope(r) = sa.scopes[r]) \/ <<"scopes", r>> \in Lately

ChangesSeen ==
    Watched =>
      /\ \A n \in 1..sa.kept, c \in FileChecks : ReadOf(n, c) => FreshRoot(sa.selected[n], c)
      /\ \A c \in WideChecks : ReadLast(c) => Holds(c, Null) \/ <<c, Null>> \in Lately
      /\ ReadLast("scopes") => \A n \in 1..sa.kept : FreshScope(sa.selected[n])

\* The plan shown is the plan bound, and the status is that of this plan under
\* the policy and the scope of the run.
Judged(r) ==
    LET ev == sa.evs[r]
    IN  /\ ValidateAssessmentPlan(ev.plan.body, Attested(ev.att), sa.scopes[r])
        /\ sa.status = ClassifyPlan(ev.plan.body, sa.policy, sa.scopes[r], sa.mode.adoptable)

ShownIsBound ==
    /\ sa.pc \in {"controls", "recheck", "classify", "row"}
         => sa.evs[sroot].plan # Null /\ sa.evs[sroot].shown = sa.evs[sroot].plan.body
    /\ sa.pc \in {"recheck", "row"} /\ sa.status # Null => Judged(sroot)
    /\ \A n \in 1..Len(sa.rows) : StatusIsTrue(sa.rows[n])

AssertInv ==
    /\ AssertType /\ Progress /\ CopiesKnown /\ ChangesSeen /\ ShownIsBound

\* Next to one planner at a time: every plan that evidence holds was once saved
\* in its root, an attestation that was accepted tells the scope of the plan it
\* was accepted for, and the rows account for it.
PlansKnown(p) ==
    sa.pc \in LivePCs =>
      \A r \in Roots : sa.evs[r].plan # Null => KnownPlan(p, r, sa.evs[r].plan)

PlanTaken == sa.pc = "prepare" /\ sa.k > 3 => sa.evs[sroot].plan # Null

AttestedScope ==
    sa.pc \in RootPCs /\ (sa.pc = "prepare" => sa.k > 6) /\ sa.evs[sroot].att # Null
      => sa.evs[sroot].att.targets = sa.evs[sroot].plan.targets

RowsAccounted == \A n \in 1..Len(sa.rows) : TargetsAccountedFor(sa.rows[n])

ScopesKnown(p) ==
    /\ SoleInv(p) /\ PlansKnown(p) /\ PlanTaken /\ AttestedScope /\ RowsAccounted

-----------------------------------------------------------------------------
(* The state of the process *)

LEMMA NoEvidenceType == NoEvidence \in Evidence
  BY DEF NoEvidence, Evidence

LEMMA ScriptLengths ==
  /\ Len(StartScript) = 5 /\ Len(PrepareScript) = 12
  /\ Len(EvidenceScript) = 13 /\ Len(PassScript) = 6
  BY DEF StartScript, PrepareScript, EvidenceScript, PassScript

LEMMA ReadsAre ==
  ASSUME NEW left \in BOOLEAN
  PROVE  /\ Reads("start", left) = 5 /\ Reads("prepare", left) = 12 /\ Reads("recheck", left) = 13
         /\ Reads("pass", left) = IF left THEN 13 ELSE 6
         /\ \A pc \in AssertPCs \ {"start", "prepare", "recheck", "pass"} : Reads(pc, left) = 1
  BY ScriptLengths DEF Reads

LEMMA LeftIsBoolean == EvidenceLeft \in BOOLEAN
  BY DEF EvidenceLeft

LEMMA AssertFields ==
  ASSUME AssertType
  PROVE  /\ sa.pc \in AssertPCs /\ sa.k \in Nat /\ sa.i \in Nat /\ sa.pass \in 1..2
         /\ sa.mode \in ModeSet /\ sa.kept \in Nat
         /\ sa.mode.adoptable \in BOOLEAN /\ sa.mode.scoped \in BOOLEAN
         /\ sa.policy \in Policies \cup {Null} /\ sa.controls \in Controls \cup {Null}
         /\ sa.selected \in Seq(Roots) /\ sa.evs \in [Roots -> Evidence]
         /\ sa.scopes \in [Roots -> Scopes] /\ sa.status \in Statuses \cup {Null}
         /\ sa.rows \in Seq(Rows) /\ sa.failing \in BOOLEAN /\ sa.stray \in BOOLEAN
         /\ sa.unclean \in BOOLEAN
  <1>1. sa \in AssertStates
    BY DEF AssertType
  <1>2. sa.mode \in ModeSet
    BY <1>1 DEF AssertStates
  <1>3. sa.mode.adoptable \in BOOLEAN /\ sa.mode.scoped \in BOOLEAN
    BY <1>2 DEF ModeSet
  <1> QED BY <1>1, <1>3 DEF AssertStates

LEMMA EvidenceFields ==
  ASSUME NEW ev \in Evidence
  PROVE  /\ ev.src \in Fingerprints \cup {Null} /\ ev.plan \in SavedPlans \cup {Null}
         /\ ev.att \in Attestations \cup {Null} /\ ev.copy \in SavedPlans \cup {Null, Torn}
         /\ ev.linked \in BOOLEAN /\ ev.shown \in Bodies \cup {Null}
  BY DEF Evidence

LEMMA AtRoot ==
  ASSUME AssertType, sa.i \in 1..Len(sa.selected)
  PROVE  /\ sroot \in Roots /\ sa.evs[sroot] \in Evidence /\ sa.scopes[sroot] \in Scopes
  BY AssertFields DEF sroot

LEMMA IdleState ==
  /\ AssertIdle \in AssertStates /\ AssertIdle.pc = "idle" /\ AssertIdle.k = 1
  /\ AssertIdle.rows = <<>> /\ AssertIdle.kept = 0 /\ AssertIdle.i = 1
  /\ AssertIdle.status = Null /\ AssertIdle.evs = [r \in Roots |-> NoEvidence]
  /\ ~AssertIdle.failing /\ ~AssertIdle.stray /\ ~AssertIdle.unclean
  /\ AssertIdle.pass = 1
  BY NoEvidenceType DEF AssertIdle, AssertStates, AssertPCs, EarlyPCs, Scopes, ModeSet

\* What a process holds before its first root.
FreshState(s) ==
    /\ s.pc \in EarlyPCs /\ s.k \in 1..(IF s.pc = "start" THEN 5 ELSE 1)
    /\ s.rows = <<>> /\ s.kept = 0 /\ s.i = 1 /\ s.status = Null
    /\ s.evs = [r \in Roots |-> NoEvidence]
    /\ ~s.failing /\ ~s.stray /\ ~s.unclean

LEMMA FreshKeepsInv ==
  ASSUME SPTypeOK', policy' \in Policies, controls' \in Controls,
         sa' \in AssertStates, FreshState(sa')
  PROVE  AssertInv'
  <1>1. AssertType'
    BY DEF AssertType
  <1>2. Progress'
    <2>1. sa'.selected \in Seq(Roots) /\ sa'.pc \in EarlyPCs
      BY DEF AssertStates, FreshState
    <2>2. sa'.pc \notin LivePCs /\ sa'.pc \notin EndPCs /\ sa'.pc \notin RootPCs
      BY <2>1 DEF EarlyPCs, LivePCs, RootPCs, EndPCs
    <2>3. CoversSelection'
      BY <2>1 DEF CoversSelection, FreshState, EarlyPCs
    <2>4. sa'.k \in 1..Reads(sa.pc, EvidenceLeft)'
      BY <2>1, ScriptLengths DEF FreshState, EarlyPCs, Reads
    <2> QED BY <2>1, <2>2, <2>3, <2>4
            DEF Progress, FreshState, EarlyPCs, LivePCs, RootPCs, EndPCs
  <1>3. CopiesKnown'
    BY DEF CopiesKnown, FreshState, CopiesAreScrubbed, EarlyPCs, LivePCs, RootPCs, EndPCs
  <1>4. ChangesSeen' /\ ShownIsBound'
    BY DEF ChangesSeen, Watched, ShownIsBound, FreshState, EarlyPCs
  <1> QED BY <1>1, <1>2, <1>3, <1>4 DEF AssertInv

LEMMA StartKeepsInv ==
  ASSUME AssertInv, NEW mode \in Modes, StartAssert(mode)
  PROVE  AssertInv'
  <1>1. mode \in ModeSet
    BY AssessmentAssumption DEF ModeSet
  <1>2. sa' = [AssertIdle EXCEPT !.pc = "preflight", !.mode = mode]
    BY DEF StartAssert
  <1>a. sa' \in AssertStates
    BY <1>1, <1>2, IdleState DEF AssertStates, AssertPCs, EarlyPCs
  <1>b. FreshState(sa')
    BY <1>2, IdleState DEF AssertStates, EarlyPCs, FreshState
  <1>3. sa' \in AssertStates /\ FreshState(sa')
    BY <1>a, <1>b
  <1>4. SPTypeOK' /\ policy' \in Policies /\ controls' \in Controls
    BY DEF StartAssert, spState, external, AssertInv, AssertType, SPTypeOK
  <1> QED BY <1>3, <1>4, FreshKeepsInv

LEMMA CrashKeepsInv ==
  ASSUME AssertInv, AssertCrash
  PROVE  AssertInv'
  <1>1. sa' \in AssertStates /\ FreshState(sa')
    BY IdleState DEF AssertCrash, FreshState, EarlyPCs
  <1>2. SPTypeOK' /\ policy' \in Policies /\ controls' \in Controls
    BY DEF AssertCrash, spState, external, AssertInv, AssertType, SPTypeOK
  <1> QED BY <1>1, <1>2, FreshKeepsInv

LEMMA PreflightKeepsInv ==
  ASSUME AssertInv, Preflight
  PROVE  AssertInv'
  <1>1. AssertType /\ Progress
    BY DEF AssertInv
  <1>2. SPTypeOK' /\ policy' \in Policies /\ controls' \in Controls
    BY <1>1 DEF Preflight, spState, external, AssertType, SPTypeOK
  <1>3. sa.pc \in {"preflight", "bind", "resolve"}
    BY DEF Preflight
  <1>4. FreshState(sa)
    BY <1>1, <1>3, ReadsAre, LeftIsBoolean DEF Progress, FreshState, AssertPCs, EarlyPCs, EndPCs
  <1>5. PolicyFile(sa.mode) \in Policies \cup {Null} /\ controls \in Controls
    BY <1>1 DEF PolicyFile, AssertType
  <1>6. ASSUME NEW s \in Selections
        PROVE  s \in Seq(Roots)
    BY <1>6 DEF Selections
  <1>7. sa \in AssertStates
    BY <1>1 DEF AssertType
  <1>8. ASSUME sa' \in AssertStates, sa'.pc \in {"bind", "resolve", "start"},
               UNCHANGED <<sa.k, sa.rows, sa.kept, sa.i, sa.status, sa.evs, sa.failing,
                           sa.stray, sa.unclean>>
        PROVE  sa' \in AssertStates /\ FreshState(sa')
    BY <1>3, <1>4, <1>8 DEF FreshState, EarlyPCs
  <1>9. ASSUME sa' = [sa EXCEPT !.policy = PolicyFile(sa.mode), !.pc = "bind"]
        PROVE  sa' \in AssertStates /\ FreshState(sa')
    <2>1. sa' \in AssertStates
      BY <1>5, <1>7, <1>9 DEF AssertStates, AssertPCs, EarlyPCs
    <2>2. /\ sa'.pc = "bind"
          /\ UNCHANGED <<sa.k, sa.rows, sa.kept, sa.i, sa.status, sa.evs, sa.failing,
                         sa.stray, sa.unclean>>
      BY <1>7, <1>9 DEF AssertStates
    <2> QED BY <1>8, <2>1, <2>2
  <1>10. ASSUME sa' = [sa EXCEPT !.controls = controls, !.pc = "resolve"]
         PROVE  sa' \in AssertStates /\ FreshState(sa')
    <2>1. sa' \in AssertStates
      BY <1>5, <1>7, <1>10 DEF AssertStates, AssertPCs, EarlyPCs
    <2>2. /\ sa'.pc = "resolve"
          /\ UNCHANGED <<sa.k, sa.rows, sa.kept, sa.i, sa.status, sa.evs, sa.failing,
                         sa.stray, sa.unclean>>
      BY <1>7, <1>10 DEF AssertStates
    <2> QED BY <1>8, <2>1, <2>2
  <1>11. ASSUME NEW s \in Selections, sa' = [sa EXCEPT !.selected = s, !.pc = "start"]
         PROVE  sa' \in AssertStates /\ FreshState(sa')
    <2>1. sa' \in AssertStates
      BY <1>6, <1>7, <1>11 DEF AssertStates, AssertPCs, EarlyPCs
    <2>2. /\ sa'.pc = "start"
          /\ UNCHANGED <<sa.k, sa.rows, sa.kept, sa.i, sa.status, sa.evs, sa.failing,
                         sa.stray, sa.unclean>>
      BY <1>7, <1>11 DEF AssertStates
    <2> QED BY <1>8, <2>1, <2>2
  <1>12. sa' \in AssertStates /\ FreshState(sa')
    BY <1>9, <1>10, <1>11 DEF Preflight
  <1> QED BY <1>2, <1>12, FreshKeepsInv

-----------------------------------------------------------------------------
(* The others *)

\* Whatever the others do while the process rests, as long as the history
\* records it.
LEMMA OthersKeepInv ==
  ASSUME AssertInv, UNCHANGED sa, SPTypeOK', policy' \in Policies, controls' \in Controls,
         Watched => /\ Lately \subseteq Lately'
                    /\ \A r \in Roots : Changes(r) \subseteq Lately'
                    /\ policy' = policy \/ <<"policy", Null>> \in Lately'
                    /\ controls' = controls \/ <<"controls", Null>> \in Lately'
  PROVE  AssertInv'
  <1>1. AssertType'
    BY DEF AssertInv, AssertType
  <1>2. Progress' /\ CopiesKnown' /\ ShownIsBound'
    <2>1. sroot' = sroot
      BY DEF sroot
    <2>2. Progress'
      BY <2>1 DEF AssertInv, Progress, EvidenceLeft, CoversSelection
    <2>3. CopiesKnown'
      BY <2>1 DEF AssertInv, CopiesKnown, Registered, CopiesAreScrubbed
    <2>4. ShownIsBound'
      BY <2>1 DEF AssertInv, ShownIsBound, Judged, StatusIsTrue
    <2> QED BY <2>2, <2>3, <2>4
  <1>3. ASSUME Watched
        PROVE  ChangesSeen'
    <2>1. /\ AssertType /\ Progress /\ ChangesSeen /\ SPTypeOK
      BY DEF AssertInv, AssertType
    <2>2. sa.selected \in Seq(Roots) /\ sa.kept = Len(sa.selected)
      BY <1>3, <2>1, AssertFields DEF Progress, Watched
    <2>3. ASSUME NEW r \in Roots, NEW c \in FileChecks, FreshRoot(r, c)
          PROVE  FreshRoot(r, c)'
      BY <1>3, <2>3 DEF FreshRoot, FileChecks, Bound, PlanSources, Changes
    <2>4. ASSUME NEW r \in Roots, FreshScope(r)
          PROVE  FreshScope(r)'
      BY <1>3, <2>4 DEF FreshScope, ImportScope, StagedTargets, Changes
    <2>5. Holds("context", Null) => Holds("context", Null)' \/ <<"context", Null>> \in Lately'
      <3>1. CASE \A r \in Roots : tfplan'[r] = Null <=> tfplan[r] = Null
        <4>1. SavedRoots' = SavedRoots
          BY <3>1 DEF SavedRoots
        <4> QED BY <4>1 DEF Holds, Selects
      <3>2. CASE \E r \in Roots : ~(tfplan'[r] = Null <=> tfplan[r] = Null)
        <4>1. PICK r \in Roots : ~(tfplan'[r] = Null <=> tfplan[r] = Null)
          BY <3>2
        <4>2. <<"context", Null>> \in Changes(r)
          BY <4>1 DEF Changes
        <4> QED BY <1>3, <4>2
      <3> QED BY <3>1, <3>2
    <2>6. Holds("policy", Null) => Holds("policy", Null)' \/ <<"policy", Null>> \in Lately'
      BY <1>3 DEF Holds, PolicyFile
    <2>7. Holds("controls", Null) => Holds("controls", Null)' \/ <<"controls", Null>> \in Lately'
      BY <1>3 DEF Holds
    <2>8. ASSUME NEW n \in 1..sa.kept, NEW c \in FileChecks, ReadOf(n, c)'
          PROVE  FreshRoot(sa.selected[n], c)'
      <3>1. ReadOf(n, c)
        BY <2>8 DEF ReadOf
      <3>2. PICK r \in Roots : r = sa.selected[n]
        BY <2>2
      <3>3. FreshRoot(r, c)'
        BY <1>3, <2>1, <2>3, <3>1, <3>2 DEF ChangesSeen
      <3> QED BY <3>2, <3>3 DEF FreshRoot
    <2>9. ASSUME NEW c \in WideChecks, ReadLast(c)'
          PROVE  Holds(c, Null)' \/ <<c, Null>> \in Lately'
      <3>1. ReadLast(c)
        BY <2>9 DEF ReadLast
      <3>2. Holds(c, Null) \/ <<c, Null>> \in Lately
        BY <1>3, <2>1, <3>1 DEF ChangesSeen
      <3> QED BY <1>3, <2>5, <2>6, <2>7, <3>2 DEF WideChecks
    <2>10. ASSUME ReadLast("scopes")', NEW n \in 1..sa.kept
           PROVE  FreshScope(sa.selected[n])'
      <3>1. ReadLast("scopes")
        BY <2>10 DEF ReadLast
      <3>2. PICK r \in Roots : r = sa.selected[n]
        BY <2>2
      <3>3. FreshScope(r)'
        BY <1>3, <2>1, <2>4, <3>1, <3>2 DEF ChangesSeen
      <3> QED BY <3>2, <3>3 DEF FreshScope
    <2> QED BY <2>8, <2>9, <2>10 DEF ChangesSeen
  <1>4. ASSUME ~Watched
        PROVE  ChangesSeen'
    BY <1>4 DEF ChangesSeen, Watched
  <1> QED BY <1>1, <1>2, <1>3, <1>4 DEF AssertInv

LEMMA OthersStepKeepsInv ==
  ASSUME AssertInv, OthersStep
  PROVE  AssertInv'
  <1>1. SPTypeOK' /\ policy' \in Policies /\ controls' \in Controls
    BY SPNextType DEF AssertInv, AssertType, OthersStep, external
  <1>2. ASSUME Watched
        PROVE  Lately \subseteq Lately' /\ \A r \in Roots : Changes(r) \subseteq Lately'
    <2>1. sa.pass \in 1..2 /\ sa' = sa /\ Noted(UNION {Changes(r) : r \in Roots})
      BY AssertFields DEF AssertInv, OthersStep
    <2> QED BY <1>2, <2>1 DEF Noted, Lately
  <1> QED BY <1>1, <1>2, OthersKeepInv DEF OthersStep, external

LEMMA EditsKeepInv ==
  ASSUME AssertInv, \/ \E c \in Policies : EditPolicy(c)
                    \/ \E c \in Controls : EditControls(c)
  PROVE  AssertInv'
  <1>1. UNCHANGED <<inputs, tfplan, sources, attest, pl, cl, plans, epoch, churn, sa>>
    BY DEF EditPolicy, EditControls
  <1>2. AssertType /\ SPTypeOK
    BY DEF AssertInv, AssertType
  <1>3. edits' = edits + 1
    BY DEF EditPolicy, EditControls
  <1>4. SPTypeOK'
    BY <1>1, <1>2, <1>3 DEF SPTypeOK
  <1>5. policy' \in Policies /\ controls' \in Controls
    BY <1>2 DEF EditPolicy, EditControls, AssertType
  <1>6. \A r \in Roots : Changes(r) = {}
    BY <1>1 DEF Changes
  <1>7. ASSUME Watched
        PROVE  /\ Lately \subseteq Lately'
               /\ policy' = policy \/ <<"policy", Null>> \in Lately'
               /\ controls' = controls \/ <<"controls", Null>> \in Lately'
    <2>1. sa.pass \in 1..2 /\ sa' = sa
      BY <1>1, <1>2, AssertFields
    <2>2. \/ controls' = controls /\ Noted({<<"policy", Null>>})
          \/ policy' = policy /\ Noted({<<"controls", Null>>})
      BY DEF EditPolicy, EditControls
    <2> QED BY <1>7, <2>1, <2>2 DEF Noted, Lately
  <1> QED BY <1>1, <1>4, <1>5, <1>6, <1>7, OthersKeepInv

-----------------------------------------------------------------------------
(* The end *)

LEMMA ScrubLeavesType ==
  ASSUME NEW ev \in Evidence, NEW left \in ScrubLeaves(ev)
  PROVE  left \in Evidence /\ (left.copy # Null => ev.copy # Null)
  <1>1. ASSUME NEW copy \in SavedPlans \cup {Null, Torn}, NEW linked \in BOOLEAN
        PROVE  [NoEvidence EXCEPT !.copy = copy, !.linked = linked] \in Evidence
    BY NoEvidenceType DEF Evidence
  <1>2. /\ [NoEvidence EXCEPT !.copy = ev.copy] \in Evidence
        /\ [NoEvidence EXCEPT !.copy = ev.copy].copy = ev.copy
        /\ [NoEvidence EXCEPT !.copy = ev.copy, !.linked = ev.linked].copy = ev.copy
        /\ NoEvidence.copy = Null
    BY NoEvidenceType, EvidenceFields DEF Evidence, NoEvidence
  <1>3. CASE left = Leavings(ev)
    BY <1>2, <1>3, NoEvidenceType DEF Leavings
  <1>4. CASE ev.copy # Null /\ left = [NoEvidence EXCEPT !.copy = ev.copy, !.linked = ev.linked]
    BY <1>1, <1>2, <1>4, EvidenceFields
  <1> QED BY <1>3, <1>4 DEF ScrubLeaves

\* A state of the cleanup or after it keeps the rows, and the copies are known.
LEMMA OverKeepsInv ==
  ASSUME AssertInv, SPTypeOK', UNCHANGED <<external, sa.selected, sa.rows, sa.policy, sa.mode>>,
         sa' \in AssertStates, sa'.pc \in EndPCs \cup {"done", "failed"},
         sa'.pc \in EndPCs => sa'.kept <= Len(sa.selected) /\ sa'.i \in 1..(sa'.kept + 1),
         (sa'.pc \in EndPCs /\ ~sa'.failing) \/ sa'.pc = "done"
           => sa.selected # <<>> /\ Len(sa.rows) = Len(sa.selected),
         CopiesKnown'
  PROVE  AssertInv'
  <1>1. AssertType /\ Progress /\ ShownIsBound
    BY DEF AssertInv
  <1>2. AssertType'
    BY <1>1 DEF AssertType, external
  <1>3. /\ sa'.pc \notin EarlyPCs /\ sa'.pc \notin LivePCs /\ sa'.pc \notin RootPCs
        /\ sa'.pc \notin {"pass", "report"}
    BY DEF EarlyPCs, LivePCs, RootPCs, EndPCs
  <1>4. CoversSelection'
    <2>1. sa.rows \in Seq(Rows) /\ sa.selected \in Seq(Roots)
      BY <1>1, AssertFields
    <2> QED BY <1>1, <2>1 DEF Progress, CoversSelection
  <1>5. Progress'
    BY <1>3, <1>4 DEF Progress, RootPCs, EndPCs
  <1>6. ShownIsBound'
    BY <1>1, <1>3 DEF ShownIsBound, StatusIsTrue, RootPCs
  <1>7. ChangesSeen'
    BY <1>3 DEF ChangesSeen, Watched
  <1> QED BY <1>2, <1>5, <1>6, <1>7 DEF AssertInv

LEMMA EndedState ==
  ASSUME AssertType, NEW pc \in {"done", "failed"}, NEW unclean \in BOOLEAN
  PROVE  LET s == Ended(pc, unclean)
         IN  /\ s \in AssertStates /\ s.pc = pc /\ s.unclean = unclean
             /\ s.selected = sa.selected /\ s.rows = sa.rows /\ s.policy = sa.policy
             /\ s.mode = sa.mode /\ s.evs = sa.evs
  <1>1. /\ pc \in AssertPCs /\ sa.mode \in ModeSet /\ sa.policy \in Policies \cup {Null}
        /\ sa.selected \in Seq(Roots) /\ sa.evs \in [Roots -> Evidence] /\ sa.rows \in Seq(Rows)
    BY AssertFields DEF AssertPCs
  <1>a. AssertIdle \in AssertStates
    BY IdleState
  <1>2. Ended(pc, unclean) \in AssertStates
    BY <1>1, <1>a, Zenon DEF Ended, AssertStates
  <1> QED BY <1>2, IdleState DEF Ended, AssertStates

LEMMA RemoveDirectoryKeepsInv ==
  ASSUME AssertInv, RemoveDirectory
  PROVE  AssertInv'
  <1>1. AssertType /\ Progress /\ CopiesKnown /\ sa.pc = "directory" /\ sa.unclean \in BOOLEAN
    BY AssertFields DEF AssertInv, RemoveDirectory
  <1>2. SPTypeOK' /\ UNCHANGED external
    BY <1>1 DEF RemoveDirectory, spState, AssertType, SPTypeOK
  <1>3. PICK refused \in BOOLEAN :
          /\ sa.stray => sa.unclean \/ refused
          /\ sa' = Ended(IF sa.failing \/ (sa.unclean \/ refused) THEN "failed" ELSE "done",
                         sa.unclean \/ refused)
    BY DEF RemoveDirectory
  <1> DEFINE unclean == sa.unclean \/ refused
             pc == IF sa.failing \/ unclean THEN "failed" ELSE "done"
  <1>4. unclean \in BOOLEAN /\ pc \in {"done", "failed"} /\ (pc = "done" => ~sa.failing)
    OBVIOUS
  <1>5. sa' = Ended(pc, unclean) /\ (sa.stray => unclean) /\ (sa.unclean => unclean)
    BY <1>3
  <1> HIDE DEF unclean, pc
  <1>6. /\ sa' \in AssertStates /\ sa'.pc = pc /\ sa'.unclean = unclean
        /\ UNCHANGED <<sa.selected, sa.rows, sa.policy, sa.mode, sa.evs>>
    BY <1>1, <1>4, <1>5, EndedState
  <1>7. pc = "done" => sa.selected # <<>> /\ Len(sa.rows) = Len(sa.selected)
    BY <1>1, <1>4 DEF Progress, EndPCs
  <1>8. CopiesKnown'
    <2>1. ~unclean => \A r \in Roots : sa.evs[r].copy = Null
      BY <1>1, <1>5 DEF CopiesKnown, EndPCs
    <2>2. CopiesAreScrubbed'
      BY <1>6, <2>1 DEF CopiesAreScrubbed
    <2> QED BY <1>4, <1>6, <2>2 DEF CopiesKnown, LivePCs, RootPCs, EndPCs
  <1>9. sa'.pc \in {"done", "failed"} /\ sa'.pc \notin EndPCs
    BY <1>4, <1>6 DEF EndPCs
  <1> QED BY <1>2, <1>6, <1>7, <1>8, <1>9, OverKeepsInv

LEMMA ScrubKeepsInv ==
  ASSUME AssertInv, Scrub
  PROVE  AssertInv'
  <1>1. /\ AssertType /\ Progress /\ CopiesKnown /\ sa.pc = "scrub" /\ sa \in AssertStates
        /\ sa.selected \in Seq(Roots) /\ sa.kept \in Nat /\ sa.i \in 1..(sa.kept + 1)
        /\ sa.kept <= Len(sa.selected)
    BY AssertFields DEF AssertInv, Scrub, AssertType, Progress, EndPCs
  <1>2. SPTypeOK' /\ UNCHANGED external
    BY <1>1 DEF Scrub, spState, AssertType, SPTypeOK
  <1>3. CASE sa.i <= sa.kept
    <2>1. /\ sa.i \in 1..Len(sa.selected) /\ sroot \in Roots /\ sa.evs[sroot] \in Evidence
          /\ sa.evs \in [Roots -> Evidence] /\ sa.i + 1 \in Nat
      BY <1>1, <1>3, AtRoot, AssertFields
    <2>2. PICK left \in ScrubLeaves(sa.evs[sroot]) :
            sa' = [sa EXCEPT !.evs[sroot] = left, !.i = @ + 1,
                             !.unclean = @ \/ left.copy # Null]
      BY <1>3 DEF Scrub, ToScrub
    <2>3. left \in Evidence
      BY <2>1, ScrubLeavesType
    <2>4. [sa.evs EXCEPT ![sroot] = left] \in [Roots -> Evidence]
      BY <2>1, <2>3
    <2>5. (sa.unclean \/ left.copy # Null) \in BOOLEAN
      OBVIOUS
    <2>6. sa' \in AssertStates
      BY <1>1, <2>1, <2>2, <2>4, <2>5 DEF AssertStates
    <2>7. /\ sa'.pc = "scrub" /\ sa'.i = sa.i + 1 /\ sa'.evs = [sa.evs EXCEPT ![sroot] = left]
          /\ sa'.unclean = (sa.unclean \/ left.copy # Null)
          /\ UNCHANGED <<sa.selected, sa.rows, sa.policy, sa.mode, sa.kept, sa.failing, sa.stray>>
      BY <1>1, <2>2 DEF AssertStates
    <2>8. CopiesKnown'
      <3> SUFFICES ASSUME NEW r \in Roots, sa'.evs[r].copy # Null, ~sa'.unclean, ~sa.stray
                   PROVE  \E n \in sa'.i..sa.kept : sa.selected[n] = r
        BY <2>7 DEF CopiesKnown, CopiesAreScrubbed, LivePCs, RootPCs, EndPCs
      <3>1. r # sroot /\ sa'.evs[r] = sa.evs[r]
        BY <2>1, <2>7
      <3>2. PICK n \in sa.i..sa.kept : sa.selected[n] = r
        BY <1>1, <2>7, <3>1 DEF CopiesKnown, EndPCs
      <3>3. n # sa.i
        BY <3>1, <3>2 DEF sroot
      <3> QED BY <1>1, <2>1, <2>7, <3>2, <3>3
    <2>9. /\ sa'.pc \in EndPCs /\ sa'.kept <= Len(sa.selected) /\ sa'.i \in 1..(sa'.kept + 1)
          /\ ~sa'.failing => sa.selected # <<>> /\ Len(sa.rows) = Len(sa.selected)
      BY <1>1, <1>3, <2>7 DEF EndPCs, Progress
    <2> QED BY <1>2, <2>6, <2>7, <2>8, <2>9, OverKeepsInv DEF EndPCs
  <1>4. CASE ~(sa.i <= sa.kept)
    <2>1. sa' = [sa EXCEPT !.pc = "directory", !.k = 1]
      BY <1>4 DEF Scrub, ToScrub, SGoto
    <2>2. sa' \in AssertStates
      BY <1>1, <2>1 DEF AssertStates, AssertPCs, EndPCs
    <2>3. /\ sa'.pc = "directory"
          /\ UNCHANGED <<sa.selected, sa.rows, sa.policy, sa.mode, sa.kept, sa.failing, sa.stray,
                         sa.evs, sa.unclean, sa.i>>
      BY <1>1, <2>1 DEF AssertStates
    <2>4. CopiesKnown'
      BY <1>1, <1>4, <2>3 DEF CopiesKnown, CopiesAreScrubbed, LivePCs, RootPCs, EndPCs
    <2>5. /\ sa'.pc \in EndPCs /\ sa'.kept <= Len(sa.selected) /\ sa'.i \in 1..(sa'.kept + 1)
          /\ ~sa'.failing => sa.selected # <<>> /\ Len(sa.rows) = Len(sa.selected)
      BY <1>1, <2>3 DEF EndPCs, Progress
    <2> QED BY <1>2, <2>2, <2>3, <2>4, <2>5, OverKeepsInv DEF EndPCs
  <1> QED BY <1>3, <1>4

LEMMA FailureKeepsInv ==
  ASSUME AssertInv, AssertFails
  PROVE  AssertInv'
  <1>1. /\ AssertType /\ Progress /\ CopiesKnown /\ sa \in AssertStates
        /\ sa.selected \in Seq(Roots) /\ sa.kept \in Nat /\ sa.i \in Nat /\ sa.stray \in BOOLEAN
        /\ sa.evs \in [Roots -> Evidence]
    BY AssertFields DEF AssertInv, AssertType
  <1>2. SPTypeOK' /\ UNCHANGED external
    BY <1>1 DEF AssertFails, spState, AssertType, SPTypeOK
  <1>3. CASE sa.pc \in {"preflight", "bind", "resolve", "start"} /\ sa' = Ended("failed", FALSE)
    <2>1. /\ sa' \in AssertStates /\ sa'.pc = "failed" /\ ~sa'.unclean
          /\ UNCHANGED <<sa.selected, sa.rows, sa.policy, sa.mode, sa.evs>>
      BY <1>1, <1>3, EndedState
    <2>2. CopiesKnown'
      <3>1. sa.evs = [r \in Roots |-> NoEvidence]
        BY <1>1, <1>3 DEF Progress, EarlyPCs
      <3>2. \A r \in Roots : sa'.evs[r].copy = Null
        BY <2>1, <3>1 DEF NoEvidence
      <3> QED BY <2>1, <3>2 DEF CopiesKnown, CopiesAreScrubbed, LivePCs, RootPCs, EndPCs
    <2> QED BY <1>2, <2>1, <2>2, OverKeepsInv DEF EndPCs
  <1>4. CASE sa.pc = "prepare"
    <2>1. /\ sa.i \in 1..Len(sa.selected) /\ sa.kept = sa.i - 1
          /\ sroot \in Roots /\ sa.evs[sroot] \in Evidence
      BY <1>1, <1>4, AtRoot DEF Progress, RootPCs
    <2>2. PICK left \in ScrubLeaves(sa.evs[sroot]) :
            sa' = [sa EXCEPT !.pc = "scrub", !.i = 1, !.k = 1, !.failing = TRUE,
                             !.evs[sroot] = left, !.stray = sa.evs[sroot].plan # Null]
      BY <1>4 DEF AssertFails
    <2>3. left \in Evidence /\ (left.copy # Null => sa.evs[sroot].copy # Null)
      BY <2>1, ScrubLeavesType
    <2>4. /\ [sa.evs EXCEPT ![sroot] = left] \in [Roots -> Evidence] /\ "scrub" \in AssertPCs
          /\ (sa.evs[sroot].plan # Null) \in BOOLEAN /\ 1 \in Nat
      BY <1>1, <2>1, <2>3 DEF AssertPCs, EndPCs
    <2>5. sa' \in AssertStates
      BY <1>1, <2>2, <2>4, Zenon DEF AssertStates
    <2>6. /\ sa'.pc = "scrub" /\ sa'.i = 1 /\ sa'.failing
          /\ sa'.evs = [sa.evs EXCEPT ![sroot] = left]
          /\ sa'.stray = (sa.evs[sroot].plan # Null)
          /\ UNCHANGED <<sa.selected, sa.rows, sa.policy, sa.mode, sa.kept, sa.unclean>>
      BY <1>1, <2>2 DEF AssertStates
    <2>7. CopiesKnown'
      <3> SUFFICES ASSUME NEW r \in Roots, sa'.evs[r].copy # Null, ~sa'.stray
                   PROVE  \E n \in 1..sa.kept : sa.selected[n] = r
        BY <2>6 DEF CopiesKnown, CopiesAreScrubbed, LivePCs, RootPCs, EndPCs
      <3>1. /\ sa.evs[r].copy \in {sa.evs[r].plan, Torn}
            /\ sa.evs[r].copy = Torn => sa.evs[r].plan # Null
            /\ sa.evs[r].plan # Null => Registered(r) \/ r = sroot
        BY <1>1, <1>4 DEF CopiesKnown, LivePCs, RootPCs
      <3>2. sa.evs[r].copy # Null
        BY <1>1, <2>1, <2>3, <2>6
      <3>3. r # sroot
        BY <2>6, <3>1, <3>2
      <3> QED BY <3>1, <3>2, <3>3 DEF Registered
    <2>8. sa'.pc \in EndPCs /\ sa'.kept <= Len(sa.selected) /\ sa'.i \in 1..(sa'.kept + 1)
      BY <1>1, <2>1, <2>6 DEF EndPCs
    <2> QED BY <1>2, <2>5, <2>6, <2>7, <2>8, OverKeepsInv DEF EndPCs
  <1>5. CASE /\ sa.pc \in {"show", "controls", "recheck", "classify", "row", "pass", "report"}
             /\ sa' = [sa EXCEPT !.pc = "scrub", !.i = 1, !.k = 1, !.failing = TRUE]
    <2>1. /\ sa'.pc = "scrub" /\ sa'.i = 1 /\ sa'.failing
          /\ UNCHANGED <<sa.selected, sa.rows, sa.policy, sa.mode, sa.kept, sa.unclean, sa.evs>>
      BY <1>1, <1>5 DEF AssertStates
    <2>2. sa' \in AssertStates
      <3>1. "scrub" \in AssertPCs
        BY DEF AssertPCs, EndPCs
      <3> QED BY <1>1, <1>5, <3>1 DEF AssertStates
    <2>3. CopiesKnown'
      BY <1>1, <1>5, <2>1
         DEF CopiesKnown, CopiesAreScrubbed, LivePCs, RootPCs, EndPCs, Registered
    <2>4. sa'.pc \in EndPCs /\ sa'.kept <= Len(sa.selected) /\ sa'.i \in 1..(sa'.kept + 1)
      BY <1>1, <1>5, <2>1 DEF EndPCs, Progress, RootPCs
    <2> QED BY <1>2, <2>1, <2>2, <2>3, <2>4, OverKeepsInv DEF EndPCs
  <1> QED BY <1>3, <1>4, <1>5 DEF AssertFails

LEMMA ReportKeepsInv ==
  ASSUME AssertInv, Report
  PROVE  AssertInv'
  <1>1. /\ AssertType /\ Progress /\ CopiesKnown /\ sa \in AssertStates /\ sa.pc = "report"
        /\ sa.selected \in Seq(Roots) /\ sa.kept \in Nat
    BY AssertFields DEF AssertInv, AssertType, Report
  <1>2. SPTypeOK' /\ UNCHANGED external
    BY <1>1 DEF Report, spState, AssertType, SPTypeOK
  <1>3. sa' = [sa EXCEPT !.pc = "scrub", !.i = 1]
    BY DEF Report
  <1>4. /\ sa'.pc = "scrub" /\ sa'.i = 1
        /\ UNCHANGED <<sa.selected, sa.rows, sa.policy, sa.mode, sa.kept, sa.unclean, sa.evs,
                       sa.failing>>
    BY <1>1, <1>3 DEF AssertStates
  <1>5. sa' \in AssertStates
    <2>1. "scrub" \in AssertPCs
      BY DEF AssertPCs, EndPCs
    <2> QED BY <1>1, <1>3, <2>1 DEF AssertStates
  <1>6. CopiesKnown'
    BY <1>1, <1>4
       DEF CopiesKnown, CopiesAreScrubbed, LivePCs, RootPCs, EndPCs, Registered
  <1>7. /\ sa'.pc \in EndPCs /\ sa'.kept <= Len(sa.selected) /\ sa'.i \in 1..(sa'.kept + 1)
        /\ sa.selected # <<>> /\ Len(sa.rows) = Len(sa.selected)
    BY <1>1, <1>4 DEF EndPCs, Progress, LivePCs, RootPCs
  <1> QED BY <1>2, <1>4, <1>5, <1>6, <1>7, OverKeepsInv DEF EndPCs

\* What is read once for all roots depends on nothing else.
LEMMA WideStays ==
  ASSUME NEW c \in WideChecks, UNCHANGED <<tfplan, external>>,
         UNCHANGED <<sa.mode, sa.policy, sa.controls, sa.selected>>
  PROVE  Holds(c, Null)' <=> Holds(c, Null)
  <1>1. Holds("policy", Null)' <=> Holds("policy", Null)
    BY DEF Holds, PolicyFile, external
  <1>2. Holds("controls", Null)' <=> Holds("controls", Null)
    BY DEF Holds, external
  <1>3. Selects(sa.selected)' <=> Selects(sa.selected)
    BY DEF Selects, SavedRoots
  <1>4. Holds("context", Null)' <=> Holds("context", Null)
    BY <1>3 DEF Holds
  <1> QED BY <1>1, <1>2, <1>4 DEF WideChecks

LEMMA DisturbKeepsInv ==
  ASSUME AssertInv, DisturbSnapshots
  PROVE  AssertInv'
  <1>1. /\ AssertType /\ Progress /\ CopiesKnown /\ ChangesSeen /\ ShownIsBound
        /\ sa \in AssertStates /\ sa.evs \in [Roots -> Evidence] /\ sa.selected \in Seq(Roots)
    BY AssertFields DEF AssertInv, AssertType
  <1>2. /\ SPTypeOK' /\ Lately' = Lately
        /\ UNCHANGED <<tfplan, sources, attest, inputs, external>>
    <2>1. /\ edits' = edits + 1
          /\ UNCHANGED <<inputs, tfplan, sources, attest, pl, cl, plans, epoch, churn, external,
                         earlier, touched>>
      BY DEF DisturbSnapshots, history
    <2>2. sa'.pass = sa.pass
      BY <1>1 DEF DisturbSnapshots, AssertStates
    <2> QED BY <1>1, <2>1, <2>2 DEF AssertType, SPTypeOK, Lately
  <1>3. PICK r \in Roots :
          /\ sa.pc \notin {"idle", "done", "failed"}
          /\ sa.evs[r].linked /\ sa.evs[r].copy \notin {Null, Torn}
          /\ \/ sa' = [sa EXCEPT !.evs[r].linked = FALSE]
             \/ sa' = [sa EXCEPT !.evs[r].copy = Torn]
    BY DEF DisturbSnapshots
  <1>4. sa.evs[r] \in Evidence
    BY <1>1
  <1>5. PICK e \in Evidence :
          /\ sa' = [sa EXCEPT !.evs[r] = e]
          /\ e.src = sa.evs[r].src /\ e.plan = sa.evs[r].plan /\ e.att = sa.evs[r].att
          /\ e.shown = sa.evs[r].shown /\ e.copy \in {sa.evs[r].copy, Torn}
          /\ e.linked => sa.evs[r].linked
    <2>1. CASE sa' = [sa EXCEPT !.evs[r].linked = FALSE]
      <3> DEFINE e == [sa.evs[r] EXCEPT !.linked = FALSE]
      <3>1. e \in Evidence
        BY <1>4 DEF Evidence
      <3>2. sa' = [sa EXCEPT !.evs[r] = e]
        BY <2>1
      <3>3. /\ e.src = sa.evs[r].src /\ e.plan = sa.evs[r].plan /\ e.att = sa.evs[r].att
            /\ e.shown = sa.evs[r].shown /\ e.copy \in {sa.evs[r].copy, Torn}
            /\ e.linked => sa.evs[r].linked
        BY <1>4 DEF Evidence
      <3> QED BY <3>1, <3>2, <3>3
    <2>2. CASE sa' = [sa EXCEPT !.evs[r].copy = Torn]
      <3> DEFINE e == [sa.evs[r] EXCEPT !.copy = Torn]
      <3>1. e \in Evidence
        BY <1>4 DEF Evidence
      <3>2. sa' = [sa EXCEPT !.evs[r] = e]
        BY <2>2
      <3>3. /\ e.src = sa.evs[r].src /\ e.plan = sa.evs[r].plan /\ e.att = sa.evs[r].att
            /\ e.shown = sa.evs[r].shown /\ e.copy \in {sa.evs[r].copy, Torn}
            /\ e.linked => sa.evs[r].linked
        BY <1>4 DEF Evidence
      <3> QED BY <3>1, <3>2, <3>3
    <2> QED BY <1>3, <2>1, <2>2
  <1>6. [sa.evs EXCEPT ![r] = e] \in [Roots -> Evidence]
    BY <1>1
  <1>7. sa' \in AssertStates
    BY <1>1, <1>5, <1>6 DEF AssertStates
  <1>8. /\ sa'.evs = [sa.evs EXCEPT ![r] = e]
        /\ UNCHANGED <<sa.pc, sa.mode, sa.k, sa.i, sa.pass, sa.policy, sa.controls, sa.selected,
                       sa.scopes, sa.kept, sa.status, sa.rows, sa.failing, sa.stray, sa.unclean>>
    BY <1>1, <1>5 DEF AssertStates
  <1>9. \A s \in Roots :
          /\ sa'.evs[s].src = sa.evs[s].src /\ sa'.evs[s].plan = sa.evs[s].plan
          /\ sa'.evs[s].att = sa.evs[s].att /\ sa'.evs[s].shown = sa.evs[s].shown
          /\ sa'.evs[s].copy \in {sa.evs[s].copy, Torn}
          /\ sa'.evs[s].copy # sa.evs[s].copy => sa.evs[s].linked
          /\ sa'.evs[s].linked => sa.evs[s].linked
          /\ sa'.evs[s].copy # Null => sa.evs[s].copy # Null
    BY <1>1, <1>3, <1>5, <1>8
  <1>10. sa.pc \notin EarlyPCs
    BY <1>1, <1>3 DEF Progress, NoEvidence
  <1>11. AssertType'
    BY <1>1, <1>2, <1>7 DEF AssertType, external
  <1>12. Progress'
    BY <1>1, <1>8, <1>10 DEF Progress, EvidenceLeft, CoversSelection
  <1>13. CopiesKnown'
    <2>1. ASSUME sa.pc \in LivePCs, NEW s \in Roots
          PROVE  /\ sa'.evs[s].copy \in {sa'.evs[s].plan, Torn}
                 /\ sa'.evs[s].copy = Torn \/ sa'.evs[s].linked => sa'.evs[s].plan # Null
                 /\ sa'.evs[s].plan # Null => Registered(s)' \/ (sa.pc = "prepare" /\ s = sroot)
      BY <1>1, <1>8, <1>9, <2>1 DEF CopiesKnown, Registered
    <2>2. CopiesAreScrubbed'
      BY <1>3, <1>8 DEF CopiesAreScrubbed
    <2>3. sroot' = sroot
      BY <1>8 DEF sroot
    <2>4. ASSUME sa.pc \in EndPCs, NEW s \in Roots, sa'.evs[s].copy # Null
          PROVE  \/ sa.unclean \/ sa.stray
                 \/ sa.pc = "scrub" /\ \E n \in sa.i..sa.kept : sa.selected[n] = s
      BY <1>1, <1>9, <2>4 DEF CopiesKnown
    <2> QED BY <1>8, <2>1, <2>2, <2>3, <2>4 DEF CopiesKnown
  <1>14. ChangesSeen'
    <2> SUFFICES ASSUME Watched
                 PROVE  ChangesSeen'
      BY <1>8 DEF ChangesSeen, Watched
    <2>1. sa.kept = Len(sa.selected)
      BY <1>1 DEF Watched, Progress
    <2>2. ASSUME NEW n \in 1..sa.kept, NEW c \in FileChecks, ReadOf(n, c)'
          PROVE  FreshRoot(sa.selected[n], c)'
      <3>1. PICK s \in Roots : s = sa.selected[n]
        BY <1>1, <2>1
      <3>2. FreshRoot(s, c)
        BY <1>1, <1>8, <2>2, <3>1 DEF ChangesSeen, ReadOf
      <3>3. FreshRoot(s, c)'
        BY <1>2, <1>9, <3>2
           DEF FreshRoot, Bound, FileChecks, PlanSources
      <3> QED BY <1>8, <3>1, <3>3 DEF FreshRoot
    <2>3. ASSUME NEW c \in WideChecks, ReadLast(c)'
          PROVE  Holds(c, Null)' \/ <<c, Null>> \in Lately'
      <3>1. Holds(c, Null) \/ <<c, Null>> \in Lately
        BY <1>1, <1>8, <2>3 DEF ChangesSeen, ReadLast
      <3> QED BY <1>2, <1>8, <3>1, WideStays
    <2>4. ASSUME ReadLast("scopes")', NEW n \in 1..sa.kept
          PROVE  FreshScope(sa.selected[n])'
      <3>1. FreshScope(sa.selected[n])
        BY <1>1, <1>8, <2>4 DEF ChangesSeen, ReadLast
      <3> QED BY <1>2, <1>8, <3>1 DEF FreshScope, ImportScope, StagedTargets
    <2> QED BY <1>8, <2>2, <2>3, <2>4 DEF ChangesSeen
  <1>15. ShownIsBound'
    <2>1. ASSUME sa.pc \in RootPCs
          PROVE  sroot \in Roots /\ sroot' = sroot
      BY <1>1, <1>8, <2>1, AtRoot DEF Progress, sroot
    <2>2. sa.pc \in {"controls", "recheck", "classify", "row"}
            => sa'.evs[sroot].plan # Null /\ sa'.evs[sroot].shown = sa'.evs[sroot].plan.body
      BY <1>1, <1>9, <2>1 DEF ShownIsBound, RootPCs
    <2>3. sa.pc \in {"recheck", "row"} /\ sa.status # Null => Judged(sroot)'
      BY <1>1, <1>8, <1>9, <2>1 DEF ShownIsBound, RootPCs, Judged
    <2>4. \A n \in 1..Len(sa.rows) : StatusIsTrue(sa.rows[n])'
      BY <1>1, <1>8 DEF ShownIsBound, StatusIsTrue
    <2> QED BY <1>8, <2>1, <2>2, <2>3, <2>4 DEF ShownIsBound, RootPCs
  <1> QED BY <1>11, <1>12, <1>13, <1>14, <1>15 DEF AssertInv

-----------------------------------------------------------------------------
(* From the first root to the last row *)

\* A state at work on a root.
LEMMA AtWorkKeepsInv ==
  ASSUME AssertInv, SPTypeOK', UNCHANGED external, sa' \in AssertStates, sa'.pc \in RootPCs,
         Progress', CopiesKnown', ShownIsBound'
  PROVE  AssertInv'
  <1>1. AssertType'
    BY DEF AssertInv, AssertType, external
  <1>2. ChangesSeen'
    BY DEF ChangesSeen, Watched, RootPCs
  <1> QED BY <1>1, <1>2 DEF AssertInv

\* The evidence of root r becomes ev, which keeps the copy or takes the plan.
TakesPlan(r, ev) ==
    \/ ev.plan = sa.evs[r].plan /\ ev.copy = sa.evs[r].copy /\ ev.linked = sa.evs[r].linked
    \/ ev.plan # Null /\ ev.copy = ev.plan

LEMMA PreparedEvidence ==
  ASSUME SPTypeOK, NEW check, NEW r \in Roots, NEW old \in Evidence,
         NEW ev \in PreparedBy(check, r, old)
  PROVE  /\ ev \in Evidence
         /\ check = "snapshot" => tfplan[r] # Null /\ ev.plan = tfplan[r] /\ ev.copy = ev.plan
         /\ check # "snapshot"
              => ev.plan = old.plan /\ ev.copy = old.copy /\ ev.linked = old.linked
         /\ check = "attest"
              => /\ ev.att = attest[r]
                 /\ attest[r] # Null => attest[r] # Torn /\ attest[r].plan = old.plan.id
         /\ check # "attest" => ev.att = old.att
  <1>1. /\ sources[r] \in Fingerprints \cup {Null, Torn} /\ tfplan[r] \in SavedPlans \cup {Null}
        /\ attest[r] \in Attestations \cup {Null, Torn}
    BY DEF SPTypeOK
  <1>2. CASE check = "declare"
    <2>1. Declared(r) /\ ev = [old EXCEPT !.src = sources[r]]
      BY <1>2 DEF PreparedBy, ReadsAttestation
    <2> QED BY <1>1, <1>2, <2>1 DEF Evidence, Declared
  <1>3. CASE check = "snapshot"
    <2>1. /\ tfplan[r] # Null
          /\ ev = [old EXCEPT !.plan = tfplan[r], !.copy = tfplan[r], !.linked = TRUE]
      BY <1>3 DEF PreparedBy, ReadsAttestation
    <2> QED BY <1>1, <1>3, <2>1 DEF Evidence
  <1>4. CASE check = "attest"
    <2>1. /\ attest[r] = Null \/ (attest[r] # Torn /\ attest[r].plan = old.plan.id)
          /\ ev = [old EXCEPT !.att = attest[r]]
      BY <1>4 DEF PreparedBy, ReadsAttestation
    <2>2. attest[r] \in Attestations \cup {Null}
      BY <1>1, <2>1, SavedPlanAssumption
    <2> QED BY <1>1, <1>4, <2>1, <2>2 DEF Evidence
  <1>5. CASE check \notin {"declare", "snapshot", "attest"}
    BY <1>5 DEF PreparedBy, ReadsAttestation
  <1> QED BY <1>2, <1>3, <1>4, <1>5

LEMMA BeginKeepsInv ==
  ASSUME AssertInv, Begin
  PROVE  AssertInv'
  <1>1. /\ AssertType /\ Progress /\ ShownIsBound /\ sa \in AssertStates /\ sa.pc = "start"
        /\ sa.selected \in Seq(Roots) /\ sa.k \in Nat /\ sa.k \in 1..5
    BY AssertFields, ReadsAre, LeftIsBoolean DEF AssertInv, AssertType, Begin, Progress, EndPCs
  <1>2. SPTypeOK' /\ UNCHANGED external /\ policy' \in Policies /\ controls' \in Controls
    BY <1>1 DEF Begin, spState, external, AssertType, SPTypeOK
  <1>3. sa' = Through(StartScript, [sa EXCEPT !.pc = "prepare"])
    BY DEF Begin
  <1>4. FreshState(sa)
    BY <1>1 DEF Progress, FreshState, EarlyPCs
  <1>5. CASE sa.k \in 1..4 /\ sa' = [sa EXCEPT !.k = @ + 1]
    <2>1. sa' \in AssertStates
      <3>1. sa.k + 1 \in Nat
        BY <1>1
      <3> QED BY <1>1, <1>5, <3>1 DEF AssertStates
    <2>2. /\ sa'.k = sa.k + 1
          /\ UNCHANGED <<sa.pc, sa.rows, sa.kept, sa.i, sa.status, sa.evs, sa.failing, sa.stray,
                         sa.unclean>>
      BY <1>1, <1>5 DEF AssertStates
    <2>3. FreshState(sa')
      BY <1>1, <1>4, <1>5, <2>2 DEF FreshState
    <2> QED BY <1>2, <2>1, <2>3, FreshKeepsInv
  <1>6. CASE sa.k = 5 /\ sa' = [[sa EXCEPT !.pc = "prepare"] EXCEPT !.k = 1]
    <2>1. sa.selected # <<>> /\ Len(sa.selected) >= 1
      BY <1>1, <1>6, ScriptLengths DEF Begin
    <2>2. "prepare" \in AssertPCs /\ 1 \in Nat
      BY DEF AssertPCs, LivePCs, RootPCs
    <2>3. sa' \in AssertStates
      BY <1>1, <1>6, <2>2, Zenon DEF AssertStates
    <2>4. /\ sa'.pc = "prepare" /\ sa'.k = 1
          /\ UNCHANGED <<sa.selected, sa.rows, sa.kept, sa.i, sa.status, sa.evs, sa.failing,
                         sa.stray, sa.unclean, sa.policy, sa.mode>>
      BY <1>1, <1>6 DEF AssertStates
    <2>5. CoversSelection'
      BY <1>1, <1>4, <2>4 DEF CoversSelection, FreshState
    <2>6. Progress'
      <3>1. Len(sa.rows) = 0 /\ sa.i = 1 /\ sa.kept = 0
        BY <1>4 DEF FreshState
      <3>2. sa'.k \in 1..Reads(sa.pc, EvidenceLeft)'
        BY <2>4, ScriptLengths DEF Reads
      <3> QED BY <1>4, <2>1, <2>4, <2>5, <3>1, <3>2
              DEF Progress, FreshState, EarlyPCs, LivePCs, RootPCs, EndPCs
    <2>7. CopiesKnown'
      <3>1. \A r \in Roots : /\ sa'.evs[r].copy = Null /\ sa'.evs[r].plan = Null
                             /\ ~sa'.evs[r].linked
        BY <1>4, <2>4 DEF FreshState, NoEvidence
      <3> QED BY <2>4, <3>1, SavedPlanAssumption DEF CopiesKnown, CopiesAreScrubbed, EndPCs
    <2>8. ShownIsBound'
      BY <1>4, <2>4 DEF ShownIsBound, FreshState
    <2> QED BY <1>2, <2>3, <2>4, <2>6, <2>7, <2>8, AtWorkKeepsInv DEF RootPCs
  <1>7. \/ sa.k \in 1..4 /\ sa' = [sa EXCEPT !.k = @ + 1]
        \/ sa.k = 5 /\ sa' = [[sa EXCEPT !.pc = "prepare"] EXCEPT !.k = 1]
    BY <1>1, <1>3, ScriptLengths DEF Through
  <1> QED BY <1>5, <1>6, <1>7

LEMMA PrepareEvidenceKeepsInv ==
  ASSUME AssertInv, PrepareEvidence
  PROVE  AssertInv'
  <1>1. /\ AssertType /\ Progress /\ ShownIsBound /\ CopiesKnown /\ sa \in AssertStates
        /\ sa.pc = "prepare" /\ sa.selected \in Seq(Roots) /\ sa.k \in Nat /\ sa.k \in 1..12
        /\ sa.i \in 1..Len(sa.selected) /\ sa.kept = sa.i - 1 /\ Len(sa.rows) = sa.i - 1
        /\ sa.evs \in [Roots -> Evidence] /\ SPTypeOK
    BY AssertFields, ReadsAre, LeftIsBoolean
       DEF AssertInv, AssertType, PrepareEvidence, Progress, EndPCs, RootPCs
  <1>2. SPTypeOK' /\ UNCHANGED external
    BY <1>1 DEF PrepareEvidence, spState, SPTypeOK
  <1>3. sroot \in Roots /\ sa.evs[sroot] \in Evidence
    BY <1>1, AtRoot
  <1>4. PICK ev \in PreparedBy(PrepareScript[sa.k], sroot, sa.evs[sroot]) :
          sa' = [Through(PrepareScript, [sa EXCEPT !.pc = "show", !.kept = @ + 1])
                   EXCEPT !.evs[sroot] = ev]
    BY DEF PrepareEvidence
  <1>5. ev \in Evidence /\ TakesPlan(sroot, ev)
    BY <1>1, <1>3, PreparedEvidence DEF TakesPlan
  <1>6. [sa.evs EXCEPT ![sroot] = ev] \in [Roots -> Evidence]
    BY <1>1, <1>5
  <1>7. \/ sa.k \in 1..11 /\ sa' = [[sa EXCEPT !.k = @ + 1] EXCEPT !.evs[sroot] = ev]
        \/ /\ sa.k = 12
           /\ sa' = [[[sa EXCEPT !.pc = "show", !.kept = @ + 1] EXCEPT !.k = 1]
                       EXCEPT !.evs[sroot] = ev]
    <2> DEFINE s == Through(PrepareScript, [sa EXCEPT !.pc = "show", !.kept = @ + 1])
    <2>1. \/ sa.k \in 1..11 /\ s = [sa EXCEPT !.k = @ + 1]
          \/ sa.k = 12 /\ s = [[sa EXCEPT !.pc = "show", !.kept = @ + 1] EXCEPT !.k = 1]
      BY <1>1, ScriptLengths DEF Through
    <2> QED BY <1>4, <2>1
  <1>8. /\ sa' \in AssertStates
        /\ sa'.evs = [sa.evs EXCEPT ![sroot] = ev]
        /\ UNCHANGED <<sa.selected, sa.rows, sa.policy, sa.mode, sa.unclean, sa.i, sa.status,
                       sa.failing, sa.stray>>
        /\ \/ sa'.pc = "prepare" /\ sa'.k \in 1..12 /\ sa'.kept = sa.kept
           \/ sa'.pc = "show" /\ sa'.k = 1 /\ sa'.kept = sa.i
    <2>0. "show" \in AssertPCs /\ 1 \in Nat /\ sa.k + 1 \in Nat /\ sa.kept + 1 \in Nat
      BY <1>1 DEF AssertPCs, LivePCs, RootPCs
    <2>1. CASE sa.k \in 1..11 /\ sa' = [[sa EXCEPT !.k = @ + 1] EXCEPT !.evs[sroot] = ev]
      <3>1. sa' \in AssertStates
        BY <1>1, <1>6, <2>0, <2>1, Zenon DEF AssertStates
      <3>2. /\ sa'.evs = [sa.evs EXCEPT ![sroot] = ev]
            /\ UNCHANGED <<sa.selected, sa.rows, sa.policy, sa.mode, sa.unclean, sa.i, sa.status,
                           sa.failing, sa.stray>>
            /\ sa'.pc = "prepare" /\ sa'.k = sa.k + 1 /\ sa'.kept = sa.kept
        BY <1>1, <2>1 DEF AssertStates
      <3>3. sa.k \in 1..11
        BY <2>1, Zenon
      <3>4. sa.k + 1 \in 1..12
        BY <3>3
      <3> QED BY <3>1, <3>2, <3>4
    <2>2. CASE /\ sa.k = 12
               /\ sa' = [[[sa EXCEPT !.pc = "show", !.kept = @ + 1] EXCEPT !.k = 1]
                           EXCEPT !.evs[sroot] = ev]
      <3>1. sa' \in AssertStates
        BY <1>1, <1>6, <2>0, <2>2, Zenon DEF AssertStates
      <3>2. /\ sa'.evs = [sa.evs EXCEPT ![sroot] = ev]
            /\ UNCHANGED <<sa.selected, sa.rows, sa.policy, sa.mode, sa.unclean, sa.i, sa.status,
                           sa.failing, sa.stray>>
            /\ sa'.pc = "show" /\ sa'.k = 1 /\ sa'.kept = sa.kept + 1
        BY <1>1, <2>2 DEF AssertStates
      <3> QED BY <1>1, <3>1, <3>2
    <2> QED BY <1>7, <2>1, <2>2
  <1>9. CoversSelection'
    BY <1>1, <1>8 DEF Progress, CoversSelection
  <1>10. Progress'
    <2>1. sa'.k \in 1..Reads(sa.pc, EvidenceLeft)'
      BY <1>8, ScriptLengths DEF Reads
    <2> QED BY <1>1, <1>8, <1>9, <2>1 DEF Progress, EarlyPCs, LivePCs, RootPCs, EndPCs
  <1>11. CopiesKnown'
    <2>1. ASSUME NEW r \in Roots
          PROVE  /\ sa'.evs[r].copy \in {sa'.evs[r].plan, Torn}
                 /\ sa'.evs[r].copy = Torn \/ sa'.evs[r].linked => sa'.evs[r].plan # Null
                 /\ sa'.evs[r].plan # Null
                      => Registered(r)' \/ (sa'.pc = "prepare" /\ r = sroot)
      <3>1. /\ sa.evs[r].copy \in {sa.evs[r].plan, Torn}
            /\ sa.evs[r].copy = Torn \/ sa.evs[r].linked => sa.evs[r].plan # Null
            /\ sa.evs[r].plan # Null => Registered(r) \/ r = sroot
        BY <1>1 DEF CopiesKnown, LivePCs, RootPCs
      <3>2. CASE r = sroot
        <4>1. sa'.evs[r] = ev
          BY <1>1, <1>8, <3>2
        <4>2. sa'.pc = "show" => Registered(r)'
          BY <1>1, <1>8, <3>2 DEF Registered, sroot
        <4> QED BY <1>5, <1>8, <3>1, <3>2, <4>1, <4>2 DEF TakesPlan
      <3>3. CASE r # sroot
        <4>1. sa'.evs[r] = sa.evs[r]
          BY <1>1, <1>8, <3>3
        <4>2. Registered(r) => Registered(r)'
          BY <1>1, <1>8 DEF Registered
        <4> QED BY <3>1, <3>3, <4>1, <4>2
      <3> QED BY <3>2, <3>3
    <2>2. sroot' = sroot
      BY <1>8 DEF sroot
    <2> QED BY <1>8, <2>1, <2>2 DEF CopiesKnown, CopiesAreScrubbed, EndPCs
  <1>12. ShownIsBound'
    BY <1>1, <1>8 DEF ShownIsBound, StatusIsTrue
  <1> QED BY <1>2, <1>8, <1>10, <1>11, <1>12, AtWorkKeepsInv DEF RootPCs

\* From the recheck of the deployment to the row of the root only the place
\* changes.
LEMMA MoveKeepsInv ==
  ASSUME AssertInv, sa.pc \in {"controls", "recheck"}, UNCHANGED <<spState, external>>,
         sa' \in AssertStates, sa'.pc \in {"recheck", "classify", "row"},
         sa'.k \in 1..(IF sa'.pc = "recheck" THEN 13 ELSE 1),
         sa'.pc = "classify" => sa.status = Null, sa'.pc = "row" => sa.status # Null,
         UNCHANGED <<sa.i, sa.selected, sa.rows, sa.kept, sa.evs, sa.scopes, sa.status, sa.policy,
                     sa.mode, sa.failing, sa.stray, sa.unclean>>
  PROVE  AssertInv'
  <1>1. AssertType /\ Progress /\ CopiesKnown /\ ShownIsBound /\ sroot' = sroot
    BY DEF AssertInv, sroot
  <1>2. SPTypeOK'
    BY <1>1 DEF AssertType, SPTypeOK, spState
  <1>3. /\ sa.i \in 1..Len(sa.selected) /\ Len(sa.rows) = sa.i - 1 /\ sa.kept = sa.i
        /\ sa.selected # <<>> /\ ~sa.failing /\ ~sa.stray /\ ~sa.unclean /\ CoversSelection
        /\ sa.pc = "controls" => sa.status = Null
    BY <1>1 DEF Progress, EarlyPCs, LivePCs, RootPCs
  <1>4. CoversSelection'
    BY <1>3 DEF CoversSelection
  <1>5. Progress'
    <2>1. sa'.k \in 1..Reads(sa.pc, EvidenceLeft)'
      BY ScriptLengths DEF Reads
    <2> QED BY <1>3, <1>4, <2>1 DEF Progress, EarlyPCs, LivePCs, RootPCs, EndPCs
  <1>6. CopiesKnown'
    BY <1>1 DEF CopiesKnown, CopiesAreScrubbed, Registered, LivePCs, RootPCs, EndPCs
  <1>7. ShownIsBound'
    <2>1. \A n \in 1..Len(sa.rows) : StatusIsTrue(sa.rows[n])'
      BY <1>1 DEF ShownIsBound, StatusIsTrue
    <2>2. Judged(sroot)' <=> Judged(sroot)
      BY <1>1 DEF Judged
    <2> QED BY <1>1, <1>3, <2>1, <2>2 DEF ShownIsBound
  <1> QED BY <1>2, <1>5, <1>6, <1>7, AtWorkKeepsInv DEF RootPCs

LEMMA RecheckKeepsInv ==
  ASSUME AssertInv, RecheckControls \/ RecheckEvidence
  PROVE  AssertInv'
  <1>1. /\ AssertType /\ Progress /\ sa \in AssertStates /\ sa.k \in Nat
        /\ UNCHANGED <<spState, external>> /\ sa.pc \in {"controls", "recheck"}
        /\ sa.pc = "recheck" => sa.k \in 1..13
        /\ sa.pc = "controls" => sa.status = Null
    BY AssertFields, ReadsAre, LeftIsBoolean
       DEF AssertInv, AssertType, RecheckControls, RecheckEvidence, Progress, EndPCs
  <1>2. {"recheck", "classify", "row"} \subseteq AssertPCs /\ 1 \in Nat /\ sa.k + 1 \in Nat
    BY <1>1 DEF AssertPCs, LivePCs, RootPCs
  <1> DEFINE next == IF sa.status = Null THEN "classify" ELSE "row"
  <1>3. ASSUME NEW pc \in {"recheck", "classify", "row"}, NEW k \in Nat,
               sa' = [[sa EXCEPT !.pc = pc] EXCEPT !.k = k]
        PROVE  /\ sa' \in AssertStates /\ sa'.pc = pc /\ sa'.k = k
               /\ UNCHANGED <<sa.i, sa.selected, sa.rows, sa.kept, sa.evs, sa.scopes, sa.status,
                              sa.policy, sa.mode, sa.failing, sa.stray, sa.unclean>>
    <2>1. sa' \in AssertStates
      BY <1>1, <1>2, <1>3, Zenon DEF AssertStates
    <2> QED BY <1>1, <1>3, <2>1 DEF AssertStates
  <1>4. CASE sa.pc = "controls" /\ sa' = [[sa EXCEPT !.pc = "recheck"] EXCEPT !.k = 1]
    <2>1. /\ sa' \in AssertStates /\ sa'.pc = "recheck" /\ sa'.k = 1
          /\ UNCHANGED <<sa.i, sa.selected, sa.rows, sa.kept, sa.evs, sa.scopes, sa.status,
                         sa.policy, sa.mode, sa.failing, sa.stray, sa.unclean>>
      BY <1>2, <1>3, <1>4
    <2> QED BY <1>1, <2>1, MoveKeepsInv
  <1>5. CASE sa.pc = "recheck" /\ sa.k \in 1..12 /\ sa' = [sa EXCEPT !.k = @ + 1]
    <2>1. sa' \in AssertStates
      BY <1>1, <1>2, <1>5, Zenon DEF AssertStates
    <2>2. /\ sa'.pc = "recheck" /\ sa'.k = sa.k + 1
          /\ UNCHANGED <<sa.i, sa.selected, sa.rows, sa.kept, sa.evs, sa.scopes, sa.status,
                         sa.policy, sa.mode, sa.failing, sa.stray, sa.unclean>>
      BY <1>1, <1>5 DEF AssertStates
    <2>3. sa.k \in 1..12
      BY <1>5, Zenon
    <2>4. sa'.k \in 1..13
      BY <2>2, <2>3
    <2> QED BY <1>1, <2>1, <2>2, <2>4, MoveKeepsInv
  <1>6. CASE sa.pc = "recheck" /\ sa' = [[sa EXCEPT !.pc = next] EXCEPT !.k = 1]
    <2>1. next \in {"classify", "row"} /\ (next = "classify" <=> sa.status = Null)
      OBVIOUS
    <2> HIDE DEF next
    <2>2. /\ sa' \in AssertStates /\ sa'.pc = next /\ sa'.k = 1
          /\ UNCHANGED <<sa.i, sa.selected, sa.rows, sa.kept, sa.evs, sa.scopes, sa.status,
                         sa.policy, sa.mode, sa.failing, sa.stray, sa.unclean>>
      BY <1>2, <1>3, <1>6, <2>1
    <2>3. /\ sa'.pc \in {"recheck", "classify", "row"}
          /\ sa'.k \in 1..(IF sa'.pc = "recheck" THEN 13 ELSE 1)
          /\ sa'.pc = "classify" => sa.status = Null
          /\ sa'.pc = "row" => sa.status # Null
      BY <2>1, <2>2
    <2> QED BY <1>1, <2>2, <2>3, MoveKeepsInv
  <1>7. CASE RecheckControls
    BY <1>4, <1>7 DEF RecheckControls, SGoto
  <1>8. CASE RecheckEvidence
    <2>1. sa.pc = "recheck" /\ sa' = Through(EvidenceScript, [sa EXCEPT !.pc = next])
      BY <1>8 DEF RecheckEvidence
    <2> HIDE DEF next
    <2>2. \/ sa.k \in 1..12 /\ sa' = [sa EXCEPT !.k = @ + 1]
          \/ sa' = [[sa EXCEPT !.pc = next] EXCEPT !.k = 1]
      BY <1>1, <2>1, ScriptLengths DEF Through
    <2> QED BY <1>5, <1>6, <2>1, <2>2
  <1> QED BY <1>7, <1>8

LEMMA ShowSnapshotKeepsInv ==
  ASSUME AssertInv, ShowSnapshot
  PROVE  AssertInv'
  <1>1. /\ AssertType /\ Progress /\ ShownIsBound /\ CopiesKnown /\ sa \in AssertStates
        /\ sa.pc = "show" /\ sa.selected \in Seq(Roots) /\ sa.k \in 1..1
        /\ sa.i \in 1..Len(sa.selected) /\ sa.kept = sa.i /\ Len(sa.rows) = sa.i - 1
        /\ sa.evs \in [Roots -> Evidence] /\ sa.status = Null /\ CoversSelection
        /\ sa.selected # <<>> /\ ~sa.failing /\ ~sa.stray /\ ~sa.unclean
    BY AssertFields, ScriptLengths
       DEF AssertInv, AssertType, ShowSnapshot, Progress, Reads, EarlyPCs, LivePCs, RootPCs, EndPCs
  <1>2. SPTypeOK' /\ UNCHANGED external
    BY <1>1 DEF ShowSnapshot, spState, SPTypeOK, AssertType
  <1>3. sroot \in Roots /\ sa.evs[sroot] \in Evidence
    BY <1>1, AtRoot
  <1> DEFINE old == sa.evs[sroot]
             ev  == [old EXCEPT !.shown = old.copy.body]
  <1>4. old.linked /\ old.copy # Torn
    BY DEF ShowSnapshot
  <1>5. old.plan # Null /\ old.copy = old.plan /\ old.plan \in SavedPlans
    BY <1>1, <1>3, <1>4, EvidenceFields DEF CopiesKnown, LivePCs, RootPCs
  <1>6. /\ ev \in Evidence /\ ev.plan = old.plan /\ ev.copy = old.copy /\ ev.linked = old.linked
        /\ ev.shown = old.plan.body
    <2>1. old.plan.body \in Bodies
      BY <1>5 DEF SavedPlans
    <2> QED BY <1>3, <1>5, <2>1 DEF Evidence
  <1>7. sa' = [[sa EXCEPT !.evs[sroot] = ev] EXCEPT !.pc = "controls"]
    <2>1. sa' = [sa EXCEPT !.evs[sroot].shown = old.copy.body, !.pc = "controls"]
      BY DEF ShowSnapshot
    <2> QED BY <2>1
  <1> HIDE DEF ev
  <1>8. [sa.evs EXCEPT ![sroot] = ev] \in [Roots -> Evidence] /\ "controls" \in AssertPCs
    BY <1>1, <1>6 DEF AssertPCs, LivePCs, RootPCs
  <1>9. sa' \in AssertStates
    BY <1>1, <1>7, <1>8, Zenon DEF AssertStates
  <1>10. /\ sa'.pc = "controls" /\ sa'.evs = [sa.evs EXCEPT ![sroot] = ev]
         /\ UNCHANGED <<sa.k, sa.i, sa.selected, sa.rows, sa.kept, sa.scopes, sa.status, sa.policy,
                        sa.mode, sa.failing, sa.stray, sa.unclean>>
    BY <1>1, <1>7 DEF AssertStates
  <1>11. sroot' = sroot /\ sa'.evs[sroot] = ev
    BY <1>1, <1>3, <1>10 DEF sroot
  <1>12. CoversSelection'
    BY <1>1, <1>10 DEF CoversSelection
  <1>13. Progress'
    <2>1. sa'.k \in 1..Reads(sa.pc, EvidenceLeft)'
      BY <1>1, <1>10 DEF Reads
    <2> QED BY <1>1, <1>10, <1>12, <2>1 DEF Progress, EarlyPCs, LivePCs, RootPCs, EndPCs
  <1>14. CopiesKnown'
    <2>1. ASSUME NEW r \in Roots
          PROVE  /\ sa'.evs[r].copy = sa.evs[r].copy /\ sa'.evs[r].plan = sa.evs[r].plan
                 /\ sa'.evs[r].linked = sa.evs[r].linked
      BY <1>1, <1>6, <1>10, <1>11
    <2> HIDE DEF old
    <2>2. \A r \in Roots : Registered(r)' <=> Registered(r)
      BY <1>10 DEF Registered
    <2> QED BY <1>1, <1>10, <1>11, <2>1, <2>2
            DEF CopiesKnown, CopiesAreScrubbed, LivePCs, RootPCs, EndPCs
  <1>15. ShownIsBound'
    BY <1>1, <1>5, <1>6, <1>10, <1>11 DEF ShownIsBound, StatusIsTrue
  <1> QED BY <1>2, <1>9, <1>10, <1>13, <1>14, <1>15, AtWorkKeepsInv DEF RootPCs

LEMMA ImportScopeType ==
  ASSUME SPTypeOK, NEW r \in Roots
  PROVE  ImportScope(r) \in Targets
  <1>1. inputs[r].tf \in Contents
    BY DEF SPTypeOK, Fingerprints
  <1> QED BY <1>1 DEF ImportScope, StagedTargets, Targets

LEMMA ClassifyKeepsInv ==
  ASSUME AssertInv, Classify
  PROVE  AssertInv'
  <1>1. /\ AssertType /\ Progress /\ ShownIsBound /\ CopiesKnown /\ sa \in AssertStates
        /\ sa.pc = "classify" /\ sa.selected \in Seq(Roots) /\ sa.k \in 1..1
        /\ sa.i \in 1..Len(sa.selected) /\ sa.kept = sa.i /\ Len(sa.rows) = sa.i - 1
        /\ sa.evs \in [Roots -> Evidence] /\ CoversSelection /\ SPTypeOK
        /\ sa.scopes \in [Roots -> Scopes]
        /\ sa.selected # <<>> /\ ~sa.failing /\ ~sa.stray /\ ~sa.unclean
    BY AssertFields, ScriptLengths
       DEF AssertInv, AssertType, Classify, Progress, Reads, EarlyPCs, LivePCs, RootPCs, EndPCs
  <1>2. SPTypeOK' /\ UNCHANGED external
    BY <1>1 DEF Classify, spState, SPTypeOK
  <1>3. sroot \in Roots /\ sa.evs[sroot] \in Evidence
    BY <1>1, AtRoot
  <1> DEFINE ev     == sa.evs[sroot]
             scope  == IF sa.mode.scoped THEN ImportScope(sroot) ELSE Null
             status == ClassifyPlan(ev.shown, sa.policy, scope, sa.mode.adoptable)
  <1>4. /\ ev.plan # Null /\ ev.shown = ev.plan.body
        /\ ValidateAssessmentPlan(ev.shown, Attested(ev.att), scope)
        /\ sa' = [sa EXCEPT !.scopes[sroot] = scope, !.status = status, !.pc = "recheck"]
    BY <1>1 DEF Classify, ShownIsBound, PolicyInUse
  <1>5. scope \in Scopes /\ status \in Statuses
    <2>1. status \in Statuses
      BY DEF ClassifyPlan, Statuses
    <2> QED BY <1>1, <1>3, <2>1, ImportScopeType DEF Scopes
  <1> HIDE DEF scope, status
  <1>6. [sa.scopes EXCEPT ![sroot] = scope] \in [Roots -> Scopes] /\ "recheck" \in AssertPCs
        /\ status \in Statuses \cup {Null}
    BY <1>1, <1>5 DEF AssertPCs, LivePCs, RootPCs
  <1>7. sa' \in AssertStates
    BY <1>1, <1>4, <1>6, Zenon DEF AssertStates
  <1>8. /\ sa'.pc = "recheck" /\ sa'.status = status
        /\ sa'.scopes = [sa.scopes EXCEPT ![sroot] = scope]
        /\ UNCHANGED <<sa.k, sa.i, sa.selected, sa.rows, sa.kept, sa.evs, sa.policy,
                       sa.mode, sa.failing, sa.stray, sa.unclean>>
    BY <1>1, <1>4 DEF AssertStates
  <1>9. sroot' = sroot /\ sa'.scopes[sroot] = scope
    BY <1>1, <1>3, <1>8 DEF sroot
  <1>10. CoversSelection'
    BY <1>1, <1>8 DEF CoversSelection
  <1>11. Progress'
    <2>1. sa'.k \in 1..Reads(sa.pc, EvidenceLeft)'
      BY <1>1, <1>8, ScriptLengths DEF Reads
    <2> QED BY <1>1, <1>8, <1>10, <2>1 DEF Progress, EarlyPCs, LivePCs, RootPCs, EndPCs
  <1>12. CopiesKnown'
    BY <1>1, <1>8, <1>9
       DEF CopiesKnown, CopiesAreScrubbed, Registered, LivePCs, RootPCs, EndPCs
  <1>13. ShownIsBound'
    <2>1. Judged(sroot)'
      BY <1>4, <1>8, <1>9 DEF Judged, status
    <2>2. \A n \in 1..Len(sa.rows) : StatusIsTrue(sa.rows[n])'
      BY <1>1, <1>8 DEF ShownIsBound, StatusIsTrue
    <2> QED BY <1>4, <1>8, <1>9, <2>1, <2>2 DEF ShownIsBound
  <1> QED BY <1>2, <1>7, <1>8, <1>11, <1>12, <1>13, AtWorkKeepsInv DEF RootPCs

\* The status of a judged root is true of the plan it is bound to.
LEMMA JudgedIsTrue ==
  ASSUME AssertType, NEW r \in Roots, Judged(r), sa.evs[r].plan # Null,
         NEW row, row.plan = sa.evs[r].plan, row.scope = sa.scopes[r], row.status = sa.status
  PROVE  StatusIsTrue(row)
  <1> DEFINE body == sa.evs[r].plan.body
  <1>1. body \in Bodies /\ sa.mode.adoptable \in BOOLEAN
    BY AssertFields, EvidenceFields DEF SavedPlans
  <1>2. RecordsTyped(body)
    BY <1>1, AssessmentAssumption DEF RecordsTyped
  <1>3. \A c \in body.changes \cup body.drift : c.actions \in SupportedActionSequences
    BY DEF Judged, ValidateAssessmentPlan, ValidChangeRecord
  <1>4. row.plan.body = body
        /\ row.status = ClassifyPlan(body, sa.policy, row.scope, sa.mode.adoptable)
    BY DEF Judged
  <1> HIDE DEF body
  <1>5. /\ row.status = Clean =>
             \A c \in body.changes \cup body.drift : InScope(c, row.scope) => Harmless(c, Null)
        /\ row.status = Tolerated =>
             /\ \A c \in body.changes : InScope(c, row.scope) => Harmless(c, sa.policy)
             /\ \/ sa.mode.adoptable
                \/ \A c \in body.drift : InScope(c, row.scope) => Harmless(c, sa.policy)
    BY <1>1, <1>2, <1>3, <1>4, JudgedPlan
  <1> QED BY <1>4, <1>5 DEF StatusIsTrue

LEMMA AddRowKeepsInv ==
  ASSUME AssertInv, AddRow
  PROVE  AssertInv'
  <1> DEFINE row  == [root |-> sroot, plan |-> sa.evs[sroot].plan, src |-> sa.evs[sroot].src,
                      scope |-> sa.scopes[sroot], status |-> sa.status]
             rows == Append(sa.rows, row)
             i    == IF MoreRoots THEN sa.i + 1 ELSE 1
             pc   == IF MoreRoots THEN "prepare" ELSE "pass"
  <1>1. /\ AssertType /\ Progress /\ ShownIsBound /\ CopiesKnown /\ sa \in AssertStates
        /\ sa.pc = "row" /\ sa.selected \in Seq(Roots) /\ sa.k \in 1..1
        /\ sa.i \in 1..Len(sa.selected) /\ sa.kept = sa.i /\ Len(sa.rows) = sa.i - 1
        /\ CoversSelection /\ sa.rows \in Seq(Rows) /\ sa.status # Null
        /\ sa.status \in Statuses \cup {Null}
        /\ sa.selected # <<>> /\ ~sa.failing /\ ~sa.stray /\ ~sa.unclean
    BY AssertFields, ScriptLengths
       DEF AssertInv, AssertType, AddRow, Progress, Reads, EarlyPCs, LivePCs, RootPCs, EndPCs
  <1>2. SPTypeOK' /\ UNCHANGED external
    BY <1>1 DEF AddRow, spState, SPTypeOK, AssertType
  <1>3. sroot \in Roots /\ sa.evs[sroot] \in Evidence /\ sa.scopes[sroot] \in Scopes
    BY <1>1, AtRoot
  <1>4. sa.evs[sroot].plan # Null /\ Judged(sroot)
    BY <1>1 DEF ShownIsBound
  <1>5. row \in Rows
    BY <1>1, <1>3, <1>4, EvidenceFields DEF Rows
  <1>6. StatusIsTrue(row)
    <2>1. row.plan = sa.evs[sroot].plan /\ row.scope = sa.scopes[sroot] /\ row.status = sa.status
      OBVIOUS
    <2> HIDE DEF row
    <2> QED BY <1>1, <1>3, <1>4, <2>1, JudgedIsTrue
  <1>7. row.root = sa.selected[sa.i]
    BY DEF sroot
  <1> HIDE DEF row
  <1>8. /\ rows \in Seq(Rows) /\ Len(rows) = sa.i /\ rows[sa.i] = row
        /\ \A n \in 1..Len(sa.rows) : rows[n] = sa.rows[n]
    BY <1>1, <1>5
  <1>9. sa' = [sa EXCEPT !.rows = rows, !.status = Null, !.i = i, !.pc = pc]
    BY DEF AddRow, row
  <1>10. /\ i \in Nat /\ pc \in {"prepare", "pass"}
         /\ pc = "prepare" => i = sa.i + 1 /\ i \in 1..Len(sa.selected)
         /\ pc = "pass" => i = 1 /\ sa.i = Len(sa.selected)
    BY <1>1 DEF MoreRoots
  <1> HIDE DEF rows, i, pc
  <1>11. sa' \in AssertStates
    <2>1. pc \in AssertPCs
      BY <1>10 DEF AssertPCs, LivePCs, RootPCs
    <2> QED BY <1>1, <1>8, <1>9, <1>10, <2>1, Zenon DEF AssertStates
  <1>12. /\ sa'.pc = pc /\ sa'.i = i /\ sa'.rows = rows /\ sa'.status = Null
         /\ UNCHANGED <<sa.k, sa.selected, sa.kept, sa.evs, sa.policy, sa.pass,
                        sa.mode, sa.failing, sa.stray, sa.unclean>>
    BY <1>1, <1>9 DEF AssertStates
  <1>13. CoversSelection'
    <2>1. \A n \in 1..Len(rows) : rows[n].root = sa.selected[n]
      <3> SUFFICES ASSUME NEW n \in 1..sa.i
                   PROVE  rows[n].root = sa.selected[n]
        BY <1>8
      <3>1. n \in 1..Len(sa.rows) \/ n = sa.i
        BY <1>1
      <3> QED BY <1>1, <1>7, <1>8, <3>1 DEF CoversSelection
    <2>2. Len(rows) <= Len(sa.selected) /\ pc # "done"
      BY <1>1, <1>8, <1>10
    <2> QED BY <1>12, <2>1, <2>2 DEF CoversSelection
  <1>14. Progress'
    <2>1. sa'.k \in 1..Reads(sa.pc, EvidenceLeft)'
      BY <1>1, <1>10, <1>12, ScriptLengths DEF Reads
    <2> QED BY <1>1, <1>8, <1>10, <1>12, <1>13, <2>1
            DEF Progress, EarlyPCs, LivePCs, RootPCs, EndPCs
  <1>15. CopiesKnown'
    BY <1>1, <1>10, <1>12
       DEF CopiesKnown, CopiesAreScrubbed, Registered, LivePCs, RootPCs, EndPCs
  <1>16. ShownIsBound'
    <2>1. ASSUME NEW x, StatusIsTrue(x)
          PROVE  StatusIsTrue(x)'
      BY <1>12, <2>1 DEF StatusIsTrue
    <2>2. ASSUME NEW n \in 1..Len(sa'.rows)
          PROVE  StatusIsTrue(sa.rows[n])'
      <3>1. PICK x : x = rows[n]
        OBVIOUS
      <3>2. n \in 1..sa.i
        BY <1>8, <1>12, <2>2
      <3>3. CASE n \in 1..Len(sa.rows)
        <4>1. x = sa.rows[n]
          BY <1>8, <3>1, <3>3
        <4>2. StatusIsTrue(sa.rows[n])
          BY <1>1, <3>3 DEF ShownIsBound
        <4>3. StatusIsTrue(x)
          BY <4>1, <4>2
        <4> QED BY <1>12, <2>1, <3>1, <4>3
      <3>4. CASE n = sa.i
        <4>1. StatusIsTrue(x)
          BY <1>6, <1>8, <3>1, <3>4
        <4> QED BY <1>12, <2>1, <3>1, <4>1
      <3> QED BY <1>1, <1>10, <3>2, <3>3, <3>4
    <2> QED BY <1>10, <1>12, <2>2 DEF ShownIsBound
  <1>17. ASSUME pc = "pass"
         PROVE  ChangesSeen'
    <2>1. sa'.i = 1 /\ sa'.k = 1 /\ sa'.pc = "pass" /\ sa'.kept >= 1
      BY <1>1, <1>10, <1>12, <1>17
    <2>2. \A n \in 1..sa'.kept : \A c : ~ReadOf(n, c)'
      BY <2>1 DEF ReadOf
    <2>3. \A c : ~ReadLast(c)'
      BY <2>1 DEF ReadLast
    <2> QED BY <2>2, <2>3 DEF ChangesSeen
  <1>18. AssertType'
    BY <1>1, <1>2, <1>11 DEF AssertType, external
  <1>19. ASSUME pc = "prepare"
         PROVE  ChangesSeen'
    BY <1>12, <1>19 DEF ChangesSeen, Watched
  <1> QED BY <1>10, <1>14, <1>15, <1>16, <1>17, <1>18, <1>19 DEF AssertInv

-----------------------------------------------------------------------------
(* The closing passes *)

\* The scripts cover what the report rests on.
LEMMA ScriptsCover ==
  /\ \A c \in FileChecks : \E j \in 1..12 : EvidenceScript[j] = c
  /\ \A c \in WideChecks : \E j \in 1..5 : PassScript[j] = c
  /\ PassScript[6] = "scopes" /\ \A j \in 1..5 : PassScript[j] # "scopes"
  <1>1. /\ EvidenceScript[2] = "attested" /\ EvidenceScript[3] = "original"
        /\ EvidenceScript[4] = "declared" /\ EvidenceScript[5] = "current"
    BY DEF EvidenceScript
  <1>2. /\ PassScript[1] = "policy" /\ PassScript[2] = "controls" /\ PassScript[3] = "context"
        /\ PassScript[4] = "controls" /\ PassScript[5] = "context" /\ PassScript[6] = "scopes"
    BY DEF PassScript
  <1>3. \A c \in FileChecks : \E j \in 1..12 : EvidenceScript[j] = c
    BY <1>1 DEF FileChecks
  <1>4. \A c \in WideChecks : \E j \in 1..5 : PassScript[j] = c
    BY <1>2 DEF WideChecks
  <1>5. \A j \in 1..5 : PassScript[j] # "scopes"
    <2>1. \A j \in 1..5 : j = 1 \/ j = 2 \/ j = 3 \/ j = 4 \/ j = 5
      OBVIOUS
    <2> QED BY <1>2, <2>1
  <1> QED BY <1>2, <1>3, <1>4, <1>5

\* One read of a pass, and where it leads.
LEMMA PassStep ==
  ASSUME AssertInv, ClosingPass
  PROVE  /\ sa.pc = "pass" /\ sa.k \in 1..(IF EvidenceLeft THEN 13 ELSE 6)
         /\ Holds(IF EvidenceLeft THEN EvidenceScript[sa.k] ELSE PassScript[sa.k],
                  IF EvidenceLeft THEN sroot ELSE Null)
         /\ \/ /\ sa.k \in 1..(IF EvidenceLeft THEN 12 ELSE 5)
               /\ sa' = [sa EXCEPT !.k = @ + 1]
            \/ /\ EvidenceLeft /\ sa.k = 13
               /\ sa' = [[sa EXCEPT !.i = @ + 1] EXCEPT !.k = 1]
            \/ /\ ~EvidenceLeft /\ sa.k = 6 /\ sa.pass = 1
               /\ sa' = [[sa EXCEPT !.i = 1, !.pass = 2] EXCEPT !.k = 1]
            \/ /\ ~EvidenceLeft /\ sa.k = 6 /\ sa.pass # 1
               /\ sa' = [[sa EXCEPT !.pc = "report"] EXCEPT !.k = 1]
  <1> DEFINE script == IF EvidenceLeft THEN EvidenceScript ELSE PassScript
  <1>1. /\ sa.pc = "pass" /\ sa.k \in 1..(IF EvidenceLeft THEN 13 ELSE 6)
        /\ sa.k \in Nat /\ sa.pass \in 1..2
    <2>1. sa.pc = "pass" /\ Progress /\ sa.k \in Nat /\ sa.pass \in 1..2
      BY AssertFields DEF AssertInv, ClosingPass
    <2> QED BY <2>1, ReadsAre, LeftIsBoolean DEF Progress, EarlyPCs, LivePCs, RootPCs, EndPCs
  <1>2. Holds(IF EvidenceLeft THEN EvidenceScript[sa.k] ELSE PassScript[sa.k],
              IF EvidenceLeft THEN sroot ELSE Null)
    BY DEF ClosingPass
  <1>3. \/ /\ sa.k \in 1..(IF EvidenceLeft THEN 12 ELSE 5)
           /\ sa' = [sa EXCEPT !.k = @ + 1]
        \/ /\ EvidenceLeft /\ sa.k = 13
           /\ sa' = [[sa EXCEPT !.i = @ + 1] EXCEPT !.k = 1]
        \/ /\ ~EvidenceLeft /\ sa.k = 6 /\ sa.pass = 1
           /\ sa' = [[sa EXCEPT !.i = 1, !.pass = 2] EXCEPT !.k = 1]
        \/ /\ ~EvidenceLeft /\ sa.k = 6 /\ sa.pass # 1
           /\ sa' = [[sa EXCEPT !.pc = "report"] EXCEPT !.k = 1]
    <2>1. Len(script) = IF EvidenceLeft THEN 13 ELSE 6
      BY ScriptLengths
    <2>2. sa' = Through(script,
                  IF EvidenceLeft THEN [sa EXCEPT !.i = @ + 1]
                  ELSE IF sa.pass = 1 THEN [sa EXCEPT !.i = 1, !.pass = 2]
                  ELSE [sa EXCEPT !.pc = "report"])
      BY DEF ClosingPass
    <2> HIDE DEF script
    <2>3. \/ sa.k < Len(script) /\ sa' = [sa EXCEPT !.k = @ + 1]
          \/ /\ ~(sa.k < Len(script)) /\ EvidenceLeft
             /\ sa' = [[sa EXCEPT !.i = @ + 1] EXCEPT !.k = 1]
          \/ /\ ~(sa.k < Len(script)) /\ ~EvidenceLeft /\ sa.pass = 1
             /\ sa' = [[sa EXCEPT !.i = 1, !.pass = 2] EXCEPT !.k = 1]
          \/ /\ ~(sa.k < Len(script)) /\ ~EvidenceLeft /\ sa.pass # 1
             /\ sa' = [[sa EXCEPT !.pc = "report"] EXCEPT !.k = 1]
      BY <2>2, Zenon DEF Through
    <2>4. /\ sa.k < Len(script) => sa.k \in 1..(IF EvidenceLeft THEN 12 ELSE 5)
          /\ ~(sa.k < Len(script)) => sa.k = IF EvidenceLeft THEN 13 ELSE 6
      BY <1>1, <2>1
    <2> QED BY <2>3, <2>4, Zenon
  <1> QED BY <1>1, <1>2, <1>3, Zenon

LEMMA ClosingPassKeepsInv ==
  ASSUME AssertInv, ClosingPass
  PROVE  AssertInv'
  <1> DEFINE script == IF EvidenceLeft THEN EvidenceScript ELSE PassScript
  <1>1. /\ AssertType /\ Progress /\ ShownIsBound /\ CopiesKnown /\ ChangesSeen
        /\ sa \in AssertStates /\ sa.k \in Nat /\ sa.i \in Nat /\ sa.pass \in 1..2
        /\ sa.pc = "pass" /\ sa.selected \in Seq(Roots)
        /\ sa.k \in 1..(IF EvidenceLeft THEN 13 ELSE 6) /\ sa.kept = Len(sa.selected)
        /\ sa.i \in 1..(sa.kept + 1) /\ sa.kept >= 1
        /\ sa.selected # <<>> /\ ~sa.failing /\ ~sa.stray /\ ~sa.unclean
        /\ Len(sa.rows) = Len(sa.selected) /\ CoversSelection
    <2>1. /\ AssertType /\ Progress /\ ShownIsBound /\ CopiesKnown /\ ChangesSeen
          /\ sa \in AssertStates /\ sa.k \in Nat /\ sa.i \in Nat /\ sa.pass \in 1..2
          /\ sa.pc = "pass" /\ sa.selected \in Seq(Roots)
      BY AssertFields DEF AssertInv, AssertType, ClosingPass
    <2> QED BY <2>1, ReadsAre, LeftIsBoolean DEF Progress, EarlyPCs, LivePCs, RootPCs, EndPCs
  <1>2. SPTypeOK' /\ UNCHANGED <<spState, external>>
    BY <1>1 DEF ClosingPass, spState, SPTypeOK, AssertType
  <1>3. AssertType /\ Holds(script[sa.k], IF EvidenceLeft THEN sroot ELSE Null)
    BY <1>1 DEF ClosingPass
  <1>4. \/ /\ sa.k \in 1..(IF EvidenceLeft THEN 12 ELSE 5)
           /\ sa' = [sa EXCEPT !.k = @ + 1]
        \/ /\ EvidenceLeft /\ sa.k = 13
           /\ sa' = [[sa EXCEPT !.i = @ + 1] EXCEPT !.k = 1]
        \/ /\ ~EvidenceLeft /\ sa.k = 6 /\ sa.pass = 1
           /\ sa' = [[sa EXCEPT !.i = 1, !.pass = 2] EXCEPT !.k = 1]
        \/ /\ ~EvidenceLeft /\ sa.k = 6 /\ sa.pass # 1
           /\ sa' = [[sa EXCEPT !.pc = "report"] EXCEPT !.k = 1]
    BY PassStep
  \* What every step of a pass leaves alone.
  <1>5. ASSUME sa' \in AssertStates,
               UNCHANGED <<sa.selected, sa.rows, sa.kept, sa.evs, sa.scopes, sa.status, sa.policy,
                           sa.controls, sa.mode, sa.failing, sa.stray, sa.unclean>>,
               \/ /\ sa'.pc = "pass" /\ sa'.i \in 1..(sa.kept + 1)
                  /\ sa'.k \in 1..(IF sa'.i <= sa.kept THEN 13 ELSE 6)
               \/ /\ sa'.pc = "report" /\ sa'.pass = 2
                  /\ sa'.i \in 1..(sa.kept + 1) /\ sa'.k = 1,
               ChangesSeen'
        PROVE  AssertInv'
    <2>1. AssertType'
      BY <1>1, <1>2, <1>5 DEF AssertType, external
    <2>2. CoversSelection'
      BY <1>1, <1>5 DEF CoversSelection
    <2>3. Progress'
      <3>1. sa'.k \in 1..Reads(sa.pc, EvidenceLeft)'
        BY <1>5, ScriptLengths DEF Reads, EvidenceLeft
      <3> QED BY <1>1, <1>5, <2>2, <3>1 DEF Progress, EarlyPCs, LivePCs, RootPCs, EndPCs
    <2>4. CopiesKnown'
      BY <1>1, <1>5 DEF CopiesKnown, CopiesAreScrubbed, Registered, LivePCs, RootPCs, EndPCs
    <2>5. ShownIsBound'
      BY <1>1, <1>5 DEF ShownIsBound, StatusIsTrue
    <2> QED BY <1>5, <2>1, <2>3, <2>4, <2>5 DEF AssertInv
  \* What was seen stays seen.
  <1>6. ASSUME UNCHANGED <<sa.selected, sa.evs, sa.scopes, sa.policy, sa.controls, sa.mode>>,
               Lately' = Lately
        PROVE  /\ \A r \in Roots, c \in FileChecks : FreshRoot(r, c) => FreshRoot(r, c)'
               /\ \A c \in WideChecks : Holds(c, Null) \/ <<c, Null>> \in Lately
                    => Holds(c, Null)' \/ <<c, Null>> \in Lately'
               /\ \A r \in Roots : FreshScope(r) => FreshScope(r)'
    <2>1. ASSUME NEW r \in Roots, NEW c \in FileChecks, FreshRoot(r, c)
          PROVE  FreshRoot(r, c)'
      BY <1>2, <1>6, <2>1 DEF FreshRoot, Bound, FileChecks, PlanSources, spState
    <2>2. ASSUME NEW c \in WideChecks, Holds(c, Null) \/ <<c, Null>> \in Lately
          PROVE  Holds(c, Null)' \/ <<c, Null>> \in Lately'
      <3>1. Holds(c, Null)' <=> Holds(c, Null)
        BY <1>2, <1>6, WideStays DEF spState
      <3> QED BY <1>6, <2>2, <3>1
    <2>3. ASSUME NEW r \in Roots, FreshScope(r)
          PROVE  FreshScope(r)'
      BY <1>2, <1>6, <2>3 DEF FreshScope, ImportScope, StagedTargets, spState
    <2> QED BY <2>1, <2>2, <2>3
  <1>7. ASSUME NEW c \in FileChecks, EvidenceLeft, script[sa.k] = c
        PROVE  FreshRoot(sroot, c)
    BY <1>3, <1>7 DEF FreshRoot, Holds, FileChecks
  <1>8. ~EvidenceLeft => Holds(PassScript[sa.k], Null)
    BY <1>3
  <1>a. "report" \in AssertPCs /\ 1 \in Nat /\ sa.k + 1 \in Nat /\ sa.i + 1 \in Nat /\ 2 \in 1..2
    BY <1>1 DEF AssertPCs, LivePCs
  <1>9. CASE /\ sa.k \in 1..(IF EvidenceLeft THEN 12 ELSE 5)
             /\ sa' = [sa EXCEPT !.k = @ + 1]
    <2>1. sa' \in AssertStates
      BY <1>1, <1>9, <1>a, Zenon DEF AssertStates
    <2>2. /\ sa'.k = sa.k + 1
          /\ UNCHANGED <<sa.pc, sa.i, sa.pass, sa.selected, sa.rows, sa.kept, sa.evs, sa.scopes,
                         sa.status, sa.policy, sa.controls, sa.mode, sa.failing, sa.stray,
                         sa.unclean>>
      BY <1>1, <1>9 DEF AssertStates
    <2>3. sa.k \in 1..(IF EvidenceLeft THEN 12 ELSE 5)
      BY <1>9, Zenon
    <2>4. Lately' = Lately
      BY <2>2 DEF ClosingPass, Lately
    <2>5. ASSUME Watched, NEW n \in 1..sa.kept, NEW c \in FileChecks, ReadOf(n, c)'
          PROVE  FreshRoot(sa.selected[n], c)'
      <3>1. PICK r \in Roots : r = sa.selected[n]
        BY <1>1
      <3>2. FreshRoot(r, c)
        <4>1. CASE ReadOf(n, c)
          BY <1>1, <2>5, <3>1, <4>1 DEF ChangesSeen
        <4>2. CASE ~ReadOf(n, c)
          <5>1. n = sa.i /\ EvidenceScript[sa.k] = c
            BY <1>1, <2>2, <2>5, <4>2 DEF ReadOf
          <5>2. EvidenceLeft /\ script[sa.k] = c /\ r = sroot
            BY <1>1, <3>1, <5>1 DEF EvidenceLeft, sroot
          <5> QED BY <1>7, <5>2
        <4> QED BY <4>1, <4>2
      <3>3. FreshRoot(r, c)'
        BY <1>6, <2>2, <2>4, <3>2
      <3> QED BY <2>2, <3>1, <3>3 DEF FreshRoot
    <2>6. ASSUME Watched, NEW c \in WideChecks, ReadLast(c)'
          PROVE  Holds(c, Null)' \/ <<c, Null>> \in Lately'
      <3>1. CASE ReadLast(c)
        BY <1>1, <1>6, <2>2, <2>4, <2>6, <3>1 DEF ChangesSeen
      <3>2. CASE ~ReadLast(c)
        <4>1. ~EvidenceLeft /\ PassScript[sa.k] = c
          BY <1>1, <2>2, <2>6, <3>2 DEF ReadLast, EvidenceLeft
        <4> QED BY <1>6, <1>8, <2>2, <2>4, <4>1
      <3> QED BY <3>1, <3>2
    <2>7. ~ReadLast("scopes")'
      BY <1>1, <2>2, <2>3, ScriptsCover DEF ReadLast, EvidenceLeft
    <2>8. ChangesSeen'
      BY <2>2, <2>5, <2>6, <2>7 DEF ChangesSeen, Watched
    <2>9. sa'.k \in 1..(IF sa'.i <= sa.kept THEN 13 ELSE 6)
      BY <1>1, <2>2, <2>3 DEF EvidenceLeft
    <2> QED BY <1>1, <1>5, <2>1, <2>2, <2>8, <2>9
  <1>10. CASE /\ EvidenceLeft /\ sa.k = 13
              /\ sa' = [[sa EXCEPT !.i = @ + 1] EXCEPT !.k = 1]
    <2>1. sa' \in AssertStates
      BY <1>1, <1>10, <1>a, Zenon DEF AssertStates
    <2>2. /\ sa'.k = 1 /\ sa'.i = sa.i + 1
          /\ UNCHANGED <<sa.pc, sa.pass, sa.selected, sa.rows, sa.kept, sa.evs, sa.scopes,
                         sa.status, sa.policy, sa.controls, sa.mode, sa.failing, sa.stray,
                         sa.unclean>>
      BY <1>1, <1>10 DEF AssertStates
    <2>3. Lately' = Lately
      BY <2>2 DEF ClosingPass, Lately
    <2>4. sa.i <= sa.kept /\ sa.k = 13
      BY <1>10 DEF EvidenceLeft
    <2>5. ASSUME Watched, NEW n \in 1..sa.kept, NEW c \in FileChecks, ReadOf(n, c)'
          PROVE  FreshRoot(sa.selected[n], c)'
      <3>1. PICK r \in Roots : r = sa.selected[n]
        BY <1>1
      <3>2. n <= sa.i
        BY <1>1, <2>2, <2>5 DEF ReadOf
      <3>3. ReadOf(n, c)
        BY <1>1, <2>4, <3>2, ScriptsCover DEF ReadOf
      <3>4. FreshRoot(r, c)
        BY <1>1, <2>5, <3>1, <3>3 DEF ChangesSeen
      <3>5. FreshRoot(r, c)'
        BY <1>6, <2>2, <2>3, <3>4
      <3> QED BY <2>2, <3>1, <3>5 DEF FreshRoot
    <2>6. \A c : ~ReadLast(c)'
      BY <1>1, <2>2 DEF ReadLast
    <2>7. ChangesSeen'
      BY <2>2, <2>5, <2>6 DEF ChangesSeen, Watched
    <2> QED BY <1>1, <1>5, <2>1, <2>2, <2>4, <2>7
  <1>11. CASE /\ ~EvidenceLeft /\ sa.k = 6 /\ sa.pass = 1
              /\ sa' = [[sa EXCEPT !.i = 1, !.pass = 2] EXCEPT !.k = 1]
    <2>1. sa' \in AssertStates
      BY <1>1, <1>11, <1>a, Zenon DEF AssertStates
    <2>2. /\ sa'.k = 1 /\ sa'.i = 1
          /\ UNCHANGED <<sa.pc, sa.selected, sa.rows, sa.kept, sa.evs, sa.scopes,
                         sa.status, sa.policy, sa.controls, sa.mode, sa.failing, sa.stray,
                         sa.unclean>>
      BY <1>1, <1>11 DEF AssertStates
    <2>3. \A n \in 1..sa.kept : \A c : ~ReadOf(n, c)'
      BY <1>1, <2>2 DEF ReadOf
    <2>4. \A c : ~ReadLast(c)'
      BY <1>1, <2>2 DEF ReadLast
    <2>5. ChangesSeen'
      BY <2>2, <2>3, <2>4 DEF ChangesSeen
    <2> QED BY <1>1, <1>5, <2>1, <2>2, <2>5
  <1>12. CASE /\ ~EvidenceLeft /\ sa.k = 6 /\ sa.pass # 1
              /\ sa' = [[sa EXCEPT !.pc = "report"] EXCEPT !.k = 1]
    <2>1. sa' \in AssertStates
      BY <1>1, <1>12, <1>a, Zenon DEF AssertStates
    <2>2. /\ sa'.k = 1 /\ sa'.pc = "report"
          /\ UNCHANGED <<sa.i, sa.pass, sa.selected, sa.rows, sa.kept, sa.evs, sa.scopes,
                         sa.status, sa.policy, sa.controls, sa.mode, sa.failing, sa.stray,
                         sa.unclean>>
      BY <1>1, <1>12 DEF AssertStates
    <2>3. Lately' = Lately
      BY <2>2 DEF ClosingPass, Lately
    <2>4. Watched /\ ~EvidenceLeft /\ sa.i > sa.kept /\ sa.k = 6
      BY <1>1, <1>12 DEF Watched, EvidenceLeft
    <2>5. ASSUME NEW n \in 1..sa.kept, NEW c \in FileChecks
          PROVE  FreshRoot(sa.selected[n], c)'
      <3>1. PICK r \in Roots : r = sa.selected[n]
        BY <1>1
      <3>2. ReadOf(n, c)
        BY <1>1, <2>4 DEF ReadOf
      <3>3. FreshRoot(r, c)
        BY <1>1, <2>4, <3>1, <3>2 DEF ChangesSeen
      <3>4. FreshRoot(r, c)'
        BY <1>6, <2>2, <2>3, <3>3
      <3> QED BY <2>2, <3>1, <3>4 DEF FreshRoot
    <2>6. ASSUME NEW c \in WideChecks
          PROVE  Holds(c, Null)' \/ <<c, Null>> \in Lately'
      <3>1. ReadLast(c)
        BY <2>4, ScriptsCover DEF ReadLast
      <3>2. Holds(c, Null) \/ <<c, Null>> \in Lately
        BY <1>1, <2>4, <3>1 DEF ChangesSeen
      <3> QED BY <1>6, <2>2, <2>3, <3>2
    <2>7. ASSUME NEW n \in 1..sa.kept
          PROVE  FreshScope(sa.selected[n])'
      <3>1. PICK r \in Roots : r = sa.selected[n]
        BY <1>1
      <3>2. Holds("scopes", Null)
        BY <1>8, <2>4, ScriptsCover
      <3>3. FreshScope(r)
        BY <1>1, <3>1, <3>2 DEF Holds, FreshScope
      <3>4. FreshScope(r)'
        BY <1>6, <2>2, <2>3, <3>3
      <3> QED BY <2>2, <3>1, <3>4 DEF FreshScope
    <2>8. ChangesSeen'
      BY <2>2, <2>5, <2>6, <2>7 DEF ChangesSeen
    <2>9. sa'.pass = 2
      BY <1>1, <1>12, <2>2
    <2> QED BY <1>1, <1>5, <2>1, <2>2, <2>8, <2>9
  <1> QED BY <1>4, <1>9, <1>10, <1>11, <1>12

-----------------------------------------------------------------------------
(* Every behaviour *)

LEMMA AssertInvInit ==
  ASSUME Init
  PROVE  AssertInv
  <1>1. SPTypeOK /\ policy \in Policies /\ controls \in Controls /\ sa = AssertIdle
    BY SPInitType, AssessmentAssumption DEF Init
  <1>2. AssertType /\ FreshState(sa) /\ sa.pc = "idle" /\ sa.k = 1 /\ sa.selected \in Seq(Roots)
    BY <1>1, IdleState, AssertFields DEF AssertType, FreshState, EarlyPCs, AssertStates
  <1>3. Progress
    <2>1. Reads("idle", EvidenceLeft) = 1
      BY ReadsAre, LeftIsBoolean DEF AssertPCs, EarlyPCs
    <2> QED BY <1>2, <2>1
            DEF Progress, FreshState, CoversSelection, EarlyPCs, LivePCs, RootPCs, EndPCs
  <1>4. CopiesKnown
    BY <1>2 DEF CopiesKnown, CopiesAreScrubbed, LivePCs, RootPCs, EndPCs
  <1>5. ChangesSeen /\ ShownIsBound
    BY <1>2 DEF ChangesSeen, Watched, ShownIsBound, FreshState
  <1> QED BY <1>2, <1>3, <1>4, <1>5 DEF AssertInv

LEMMA AssertInvStep ==
  ASSUME AssertInv, [Next]_vars
  PROVE  AssertInv'
  <1>1. CASE OthersStep
    BY <1>1, OthersStepKeepsInv
  <1>2. ASSUME NEW mode \in Modes, StartAssert(mode)
        PROVE  AssertInv'
    BY <1>2, StartKeepsInv
  <1>3. CASE AssertStep
    BY <1>3, PreflightKeepsInv, BeginKeepsInv, PrepareEvidenceKeepsInv, ShowSnapshotKeepsInv,
       RecheckKeepsInv, ClassifyKeepsInv, AddRowKeepsInv, ClosingPassKeepsInv, ReportKeepsInv,
       FailureKeepsInv, ScrubKeepsInv, RemoveDirectoryKeepsInv DEF AssertStep
  <1>4. CASE AssertCrash
    BY <1>4, CrashKeepsInv
  <1>5. CASE (\E c \in Policies : EditPolicy(c)) \/ (\E c \in Controls : EditControls(c))
    BY <1>5, EditsKeepInv
  <1>6. CASE DisturbSnapshots
    BY <1>6, DisturbKeepsInv
  <1>7. CASE UNCHANGED vars
    <2>1. UNCHANGED <<sa, policy, controls, earlier, touched, inputs, sources, tfplan, attest>>
      BY <1>7 DEF vars
    <2>2. SPTypeOK' /\ policy' \in Policies /\ controls' \in Controls
      BY <1>7 DEF vars, AssertInv, AssertType, SPTypeOK
    <2>3. \A r \in Roots : Changes(r) = {}
      BY <2>1 DEF Changes
    <2>4. Lately' = Lately
      BY <2>1 DEF Lately
    <2> QED BY <2>1, <2>2, <2>3, <2>4, OthersKeepInv
  <1> QED BY <1>1, <1>2, <1>3, <1>4, <1>5, <1>6, <1>7 DEF Next

LEMMA AssertInvHolds == Spec => []AssertInv
  <1>1. Init => AssertInv
    BY AssertInvInit
  <1>2. AssertInv /\ [Next]_vars => AssertInv'
    BY AssertInvStep
  <1> QED BY <1>1, <1>2, PTL DEF Spec

\* No copy of a plan outlives an assertion unnoticed, with any number of
\* planners, cleaners and editors, and whoever clears the private directory
\* (the deferred cleanup of runSavedPlanAssessment).
THEOREM CopiesDoNotOutlive == Spec => []CopiesAreScrubbed
  <1>1. AssertInv => CopiesAreScrubbed
    BY DEF AssertInv, CopiesKnown
  <1> QED BY <1>1, AssertInvHolds, PTL

\* When everything a pass reads is read, what is not as bound was changed since
\* the pass began.
LEMMA StaleIsSeen ==
  ASSUME AssertInv, Watched,
         \A n \in 1..sa.kept, c \in FileChecks : FreshRoot(sa.selected[n], c),
         \A c \in WideChecks : Holds(c, Null) \/ <<c, Null>> \in Lately,
         \A n \in 1..sa.kept : FreshScope(sa.selected[n])
  PROVE  Stale \subseteq Lately
  <1>1. Progress /\ CoversSelection /\ sa.kept = Len(sa.rows)
    BY DEF AssertInv, Progress, Watched
  <1>2. \A r \in Assessed : \E n \in 1..sa.kept : r = sa.selected[n]
    BY <1>1 DEF Assessed, CoversSelection
  <1>3. ASSUME NEW x \in Stale
        PROVE  x \in Lately
    <2>1. CASE x \in {y \in {"declared", "current", "original", "attested"} \X Assessed :
                        ~Bound(y[1], y[2], sa.evs[y[2]])}
      <3>1. PICK c \in {"declared", "current", "original", "attested"}, r \in Assessed :
              x = <<c, r>>
        BY <2>1
      <3>2. ~Bound(c, r, sa.evs[r])
        BY <2>1, <3>1
      <3> QED BY <1>2, <3>1, <3>2 DEF FileChecks, FreshRoot
    <2>2. CASE x \in {<<c, Null>> : c \in {d \in {"policy", "controls", "context"} :
                                           ~Holds(d, Null)}}
      BY <2>2 DEF WideChecks
    <2>3. CASE x \in {<<"scopes", r>> : r \in {s \in Assessed :
                         sa.mode.scoped /\ ImportScope(s) # sa.scopes[s]}}
      BY <1>2, <2>3 DEF FreshScope
    <2> QED BY <1>3, <2>1, <2>2, <2>3 DEF Stale
  <1> QED BY <1>3

\* What was not as bound when the last pass began: it was taken away during the
\* first pass, and it still is not as bound, or was changed again.
AwayKnown ==
    /\ Watched /\ sa.pass = 2 => away \subseteq earlier /\ away \subseteq Stale \cup touched
    /\ sa.pc \in EarlyPCs \cup RootPCs => sa.pass = 1

\* What is not as bound stays so, or the history tells who changed it.
LEMMA StaleStays ==
  ASSUME AssertInv,
         UNCHANGED <<sa.rows, sa.mode, sa.policy, sa.controls, sa.selected, sa.scopes>>,
         \A r \in Roots : /\ sa'.evs[r].src = sa.evs[r].src /\ sa'.evs[r].plan = sa.evs[r].plan
                         /\ sa'.evs[r].att = sa.evs[r].att,
         \A r \in Roots : Changes(r) \subseteq touched',
         policy' = policy \/ <<"policy", Null>> \in touched',
         controls' = controls \/ <<"controls", Null>> \in touched'
  PROVE  Stale \subseteq Stale' \cup touched'
  <1>1. Assessed' = Assessed /\ Assessed \subseteq Roots
    <2>1. sa.rows \in Seq(Rows)
      BY AssertFields DEF AssertInv
    <2>2. ASSUME NEW n \in 1..Len(sa.rows)
          PROVE  sa.rows[n].root \in Roots
      <3>1. sa.rows[n] \in Rows
        BY <2>1
      <3> QED BY <3>1 DEF Rows
    <2> QED BY <2>2 DEF Assessed
  <1>2. ASSUME NEW x \in Stale
        PROVE  x \in Stale' \cup touched'
    <2>1. CASE x \in {y \in {"declared", "current", "original", "attested"} \X Assessed :
                        ~Bound(y[1], y[2], sa.evs[y[2]])}
      <3>1. PICK c \in {"declared", "current", "original", "attested"}, r \in Assessed :
              x = <<c, r>>
        BY <2>1
      <3>2. ~Bound(c, r, sa.evs[r]) /\ r \in Roots
        BY <1>1, <2>1, <3>1
      <3>3. ~Bound(c, r, sa.evs[r])' \/ x \in Changes(r)
        BY <3>1, <3>2 DEF Bound, PlanSources, Changes
      <3>4. ~Bound(c, r, sa.evs[r])' => x \in Stale'
        BY <1>1, <3>1 DEF Stale
      <3> QED BY <3>2, <3>3, <3>4
    <2>2. CASE x \in {<<c, Null>> : c \in {d \in {"policy", "controls", "context"} :
                                           ~Holds(d, Null)}}
      <3>1. PICK c \in {"policy", "controls", "context"} : x = <<c, Null>> /\ ~Holds(c, Null)
        BY <2>2
      <3>2. ~Holds(c, Null)' => x \in Stale'
        BY <3>1 DEF Stale
      <3>3. CASE c = "context"
        <4>1. CASE \A r \in Roots : tfplan'[r] = Null <=> tfplan[r] = Null
          <5>1. SavedRoots' = SavedRoots
            BY <4>1 DEF SavedRoots
          <5>2. ~Holds(c, Null)'
            BY <3>1, <3>3, <5>1 DEF Holds, Selects
          <5> QED BY <3>2, <5>2
        <4>2. CASE \E r \in Roots : ~(tfplan'[r] = Null <=> tfplan[r] = Null)
          <5>1. PICK r \in Roots : ~(tfplan'[r] = Null <=> tfplan[r] = Null)
            BY <4>2
          <5>2. <<"context", Null>> \in Changes(r)
            BY <5>1 DEF Changes
          <5> QED BY <3>1, <3>3, <5>2
        <4> QED BY <4>1, <4>2
      <3>4. CASE c = "policy"
        BY <3>1, <3>2, <3>4 DEF Holds, PolicyFile
      <3>5. CASE c = "controls"
        BY <3>1, <3>2, <3>5 DEF Holds
      <3> QED BY <3>3, <3>4, <3>5
    <2>3. CASE x \in {<<"scopes", r>> : r \in {s \in Assessed :
                         sa.mode.scoped /\ ImportScope(s) # sa.scopes[s]}}
      <3>1. PICK r \in Assessed : /\ x = <<"scopes", r>> /\ sa.mode.scoped
                                  /\ ImportScope(r) # sa.scopes[r]
        BY <2>3
      <3>2. r \in Roots
        BY <1>1, <3>1
      <3>3. (ImportScope(r) # sa.scopes[r])' \/ x \in Changes(r)
        BY <3>1, <3>2 DEF ImportScope, StagedTargets, Changes
      <3>4. (ImportScope(r) # sa.scopes[r])' => x \in Stale'
        BY <1>1, <3>1 DEF Stale
      <3> QED BY <3>2, <3>3, <3>4
    <2> QED BY <1>2, <2>1, <2>2, <2>3 DEF Stale
  <1> QED BY <1>2

LEMMA PassMoves ==
  ASSUME AssertInv, ClosingPass
  PROVE  /\ UNCHANGED <<sa.rows, sa.mode, sa.policy, sa.controls, sa.selected, sa.scopes,
                        sa.evs, sa.kept>>
         /\ sa.pc = "pass" /\ sa'.pc \in {"pass", "report"}
         /\ \/ sa'.pass = sa.pass
            \/ /\ sa.pass = 1 /\ sa'.pass = 2 /\ ~EvidenceLeft /\ sa.k = 6
               /\ Holds("scopes", Null)
  <1>1. sa \in AssertStates
    BY DEF AssertInv, AssertType
  <1>2. PassScript[6] = "scopes"
    BY ScriptsCover
  <1>3. CASE sa' = [sa EXCEPT !.k = @ + 1] \/ sa' = [[sa EXCEPT !.i = @ + 1] EXCEPT !.k = 1]
    BY <1>1, <1>3, PassStep DEF AssertStates
  <1>4. CASE /\ ~EvidenceLeft /\ sa.k = 6 /\ sa.pass = 1
             /\ sa' = [[sa EXCEPT !.i = 1, !.pass = 2] EXCEPT !.k = 1]
    <2>1. Holds("scopes", Null) /\ sa.pc = "pass"
      BY <1>2, <1>4, PassStep
    <2> QED BY <1>1, <1>4, <2>1 DEF AssertStates
  <1>5. CASE sa' = [[sa EXCEPT !.pc = "report"] EXCEPT !.k = 1]
    BY <1>1, <1>5, PassStep DEF AssertStates
  <1> QED BY <1>3, <1>4, <1>5, PassStep

LEMMA AwayStep ==
  ASSUME AssertInv, AwayKnown, [Next]_vars
  PROVE  AwayKnown'
  <1>1. /\ AssertType /\ Progress /\ ChangesSeen /\ sa \in AssertStates
        /\ sa.evs \in [Roots -> Evidence] /\ sa.pass \in 1..2
    BY AssertFields DEF AssertInv, AssertType
  \* A step during the last pass that leaves what is bound alone.
  <1>2. ASSUME Watched, sa.pass = 2, away' = away, earlier' = earlier, touched \subseteq touched',
               UNCHANGED <<sa.rows, sa.mode, sa.policy, sa.controls, sa.selected, sa.scopes>>,
               \A r \in Roots : /\ sa'.evs[r].src = sa.evs[r].src
                               /\ sa'.evs[r].plan = sa.evs[r].plan
                               /\ sa'.evs[r].att = sa.evs[r].att,
               \A r \in Roots : Changes(r) \subseteq touched',
               policy' = policy \/ <<"policy", Null>> \in touched',
               controls' = controls \/ <<"controls", Null>> \in touched',
               sa'.pc \notin EarlyPCs \cup RootPCs
        PROVE  AwayKnown'
    <2>1. Stale \subseteq Stale' \cup touched'
      BY <1>2, StaleStays
    <2> QED BY <1>2, <2>1 DEF AwayKnown, Watched, EarlyPCs, RootPCs
  <1>3. ASSUME sa'.pc \notin {"pass", "report"}, sa'.pc \notin EarlyPCs \cup RootPCs \/ sa'.pass = 1
        PROVE  AwayKnown'
    BY <1>3 DEF AwayKnown, Watched
  \* Steps of others, with the process at rest.
  <1>4. ASSUME UNCHANGED <<sa.pc, sa.pass, sa.rows, sa.mode, sa.policy, sa.controls, sa.selected,
                           sa.scopes>>,
               \A r \in Roots : /\ sa'.evs[r].src = sa.evs[r].src
                               /\ sa'.evs[r].plan = sa.evs[r].plan
                               /\ sa'.evs[r].att = sa.evs[r].att,
               NEW changes, Noted(changes) \/ (UNCHANGED history /\ changes = {}),
               \A r \in Roots : Changes(r) \subseteq changes,
               policy' = policy \/ <<"policy", Null>> \in changes,
               controls' = controls \/ <<"controls", Null>> \in changes
        PROVE  AwayKnown'
    <2>1. CASE Watched /\ sa.pass = 2
      <3>1. /\ earlier' = earlier /\ away' = away /\ touched \subseteq touched'
            /\ touched' = touched \cup changes
        BY <1>4, <2>1 DEF Noted, history
      <3>2. sa'.pc \notin EarlyPCs \cup RootPCs
        BY <1>4, <2>1 DEF Watched, EarlyPCs, RootPCs
      <3> QED BY <1>2, <1>4, <2>1, <3>1, <3>2
    <2>2. CASE ~(Watched /\ sa.pass = 2)
      BY <1>4, <2>2 DEF AwayKnown, Watched
    <2> QED BY <2>1, <2>2
  <1>5. CASE UNCHANGED vars \/ DisturbSnapshots
    <2>1. UNCHANGED <<inputs, sources, tfplan, attest, policy, controls, earlier, away, touched>>
      BY <1>5 DEF DisturbSnapshots, external, history, vars
    <2>2. \A r \in Roots : Changes(r) = {}
      BY <2>1 DEF Changes
    <2>3. /\ UNCHANGED <<sa.pc, sa.pass, sa.rows, sa.mode, sa.policy, sa.controls, sa.selected,
                         sa.scopes>>
          /\ \A r \in Roots : /\ sa'.evs[r].src = sa.evs[r].src
                             /\ sa'.evs[r].plan = sa.evs[r].plan
                             /\ sa'.evs[r].att = sa.evs[r].att
      <3>1. CASE DisturbSnapshots
        <4>1. PICK r \in Roots : \/ sa' = [sa EXCEPT !.evs[r].linked = FALSE]
                                 \/ sa' = [sa EXCEPT !.evs[r].copy = Torn]
          BY <3>1 DEF DisturbSnapshots
        <4>2. /\ UNCHANGED <<sa.pc, sa.pass, sa.rows, sa.mode, sa.policy, sa.controls,
                             sa.selected, sa.scopes>>
              /\ sa'.evs = [sa.evs EXCEPT ![r].linked = FALSE]
                   \/ sa'.evs = [sa.evs EXCEPT ![r].copy = Torn]
          BY <1>1, <4>1 DEF AssertStates
        <4>3. ASSUME NEW q \in Roots
              PROVE  /\ sa'.evs[q].src = sa.evs[q].src /\ sa'.evs[q].plan = sa.evs[q].plan
                     /\ sa'.evs[q].att = sa.evs[q].att
          <5>1. CASE sa'.evs = [sa.evs EXCEPT ![r].linked = FALSE]
            BY <1>1, <5>1 DEF Evidence
          <5>2. CASE sa'.evs = [sa.evs EXCEPT ![r].copy = Torn]
            BY <1>1, <5>2 DEF Evidence
          <5> QED BY <4>2, <5>1, <5>2
        <4> QED BY <4>2, <4>3
      <3> QED BY <1>5, <3>1 DEF vars
    <2> QED BY <1>4, <2>1, <2>2, <2>3 DEF history
  <1>6. CASE OthersStep
    <2>1. /\ UNCHANGED <<sa, policy, controls>> /\ Noted(UNION {Changes(r) : r \in Roots})
      BY <1>6 DEF OthersStep, external
    <2>2. \A r \in Roots : Changes(r) \subseteq UNION {Changes(q) : q \in Roots}
      OBVIOUS
    <2> QED BY <1>4, <2>1, <2>2
  <1>7. CASE (\E c \in Policies : EditPolicy(c)) \/ (\E c \in Controls : EditControls(c))
    <2>1. UNCHANGED <<inputs, sources, tfplan, attest, sa>>
      BY <1>7 DEF EditPolicy, EditControls
    <2>2. \A r \in Roots : Changes(r) = {}
      BY <2>1 DEF Changes
    <2>3. \/ controls' = controls /\ Noted({<<"policy", Null>>})
          \/ policy' = policy /\ Noted({<<"controls", Null>>})
      BY <1>7 DEF EditPolicy, EditControls
    <2> QED BY <1>4, <2>1, <2>2, <2>3
  <1>8. CASE ClosingPass
    <2>1. /\ sa.pc = "pass" /\ earlier' = earlier /\ touched' = touched
          /\ UNCHANGED <<inputs, sources, tfplan, attest, policy, controls>>
          /\ away' = IF sa'.pass # sa.pass THEN Stale ELSE away
      BY <1>8 DEF ClosingPass, spState, external
    <2>2. \A r \in Roots : Changes(r) = {}
      BY <2>1 DEF Changes
    <2>3. /\ UNCHANGED <<sa.rows, sa.mode, sa.policy, sa.controls, sa.selected, sa.scopes,
                         sa.evs, sa.kept>>
          /\ sa'.pc \in {"pass", "report"}
          /\ \/ sa'.pass = sa.pass
             \/ /\ sa.pass = 1 /\ sa'.pass = 2 /\ ~EvidenceLeft /\ sa.k = 6
                /\ Holds("scopes", Null)
      BY <1>8, PassMoves
    <2>a. sa'.pc \notin EarlyPCs \cup RootPCs
      BY <2>3 DEF EarlyPCs, RootPCs
    <2>4. CASE sa'.pass = sa.pass
      <3>1. CASE sa.pass = 2
        BY <1>2, <2>1, <2>2, <2>3, <2>4, <2>a, <3>1 DEF Watched
      <3> QED BY <1>1, <2>4, <2>a, <3>1 DEF AwayKnown
    <2>5. CASE /\ sa.pass = 1 /\ sa'.pass = 2 /\ ~EvidenceLeft /\ sa.k = 6
               /\ Holds("scopes", Null)
      <3>1. Watched /\ sa.i > sa.kept /\ sa.kept = Len(sa.selected) /\ sa.selected \in Seq(Roots)
            /\ sa.i \in Nat /\ sa.kept \in Nat
        BY <1>1, <2>1, <2>5, AssertFields DEF Watched, EvidenceLeft, Progress
      <3>2. \A n \in 1..sa.kept, c \in FileChecks : FreshRoot(sa.selected[n], c)
        BY <1>1, <3>1 DEF ChangesSeen, ReadOf
      <3>3. \A c \in WideChecks : Holds(c, Null) \/ <<c, Null>> \in Lately
        BY <1>1, <2>5, <3>1, ScriptsCover DEF ChangesSeen, ReadLast
      <3>4. \A n \in 1..sa.kept : FreshScope(sa.selected[n])
        BY <2>5, <3>1 DEF Holds, FreshScope
      <3>5. Stale \subseteq earlier
        BY <2>5, <3>1, <3>2, <3>3, <3>4, StaleIsSeen DEF Lately
      <3>6. Stale \subseteq Stale' \cup touched'
        BY <2>1, <2>2, <2>3, StaleStays
      <3>7. away' = Stale
        BY <2>1, <2>5
      <3> QED BY <2>1, <2>a, <3>5, <3>6, <3>7 DEF AwayKnown
    <2> QED BY <2>3, <2>4, <2>5
  <1>9. CASE (\E mode \in Modes : StartAssert(mode)) \/ AssertCrash \/ Report
             \/ Preflight \/ Begin \/ PrepareEvidence \/ ShowSnapshot \/ RecheckControls
             \/ RecheckEvidence \/ Classify \/ AssertFails \/ Scrub \/ RemoveDirectory
    <2>1. CASE (\E mode \in Modes : StartAssert(mode)) \/ AssertCrash
      BY <1>3, <2>1, IdleState DEF StartAssert, AssertCrash, AssertIdle
    <2>2. CASE Report \/ AssertFails \/ Scrub \/ RemoveDirectory
      <3>1. sa'.pc \in EndPCs \cup {"done", "failed"}
        <4>1. CASE Report \/ Scrub
          BY <1>1, <4>1 DEF Report, Scrub, SGoto, AssertStates, EndPCs
        <4>2. CASE RemoveDirectory
          BY <4>2 DEF RemoveDirectory, Ended, AssertIdle
        <4>3. CASE AssertFails
          <5>1. CASE sa' = Ended("failed", FALSE)
            BY <5>1 DEF Ended, AssertIdle
          <5>2. CASE ~(sa' = Ended("failed", FALSE))
            <6>1. \/ \E left \in ScrubLeaves(sa.evs[sroot]) :
                        sa' = [sa EXCEPT !.pc = "scrub", !.i = 1, !.k = 1, !.failing = TRUE,
                                         !.evs[sroot] = left,
                                         !.stray = sa.evs[sroot].plan # Null]
                  \/ sa' = [sa EXCEPT !.pc = "scrub", !.i = 1, !.k = 1, !.failing = TRUE]
              BY <4>3, <5>2, Zenon DEF AssertFails
            <6> QED BY <1>1, <6>1 DEF AssertStates, EndPCs
          <5> QED BY <5>1, <5>2
        <4> QED BY <2>2, <4>1, <4>2, <4>3
      <3>2. sa'.pc \notin {"pass", "report"} /\ sa'.pc \notin EarlyPCs \cup RootPCs
        BY <3>1 DEF EndPCs, EarlyPCs, RootPCs
      <3> QED BY <1>3, <3>2
    <2>3. CASE Preflight \/ Begin \/ PrepareEvidence \/ ShowSnapshot \/ RecheckControls
               \/ RecheckEvidence \/ Classify
      <3>1. sa.pc \in EarlyPCs \cup RootPCs /\ sa'.pc \notin {"pass", "report"}
        BY <1>1, <2>3
           DEF Preflight, Begin, PrepareEvidence, ShowSnapshot, RecheckControls, RecheckEvidence,
               Classify, Through, SGoto, AssertStates, EarlyPCs, RootPCs
      <3>2. sa'.pass = sa.pass
        BY <1>1, <2>3
           DEF Preflight, Begin, PrepareEvidence, ShowSnapshot, RecheckControls, RecheckEvidence,
               Classify, Through, SGoto, AssertStates
      <3> QED BY <1>3, <3>1, <3>2 DEF AwayKnown
    <2> QED BY <1>9, <2>1, <2>2, <2>3
  <1>10. CASE AddRow
    <2>1. sa'.pass = 1
      BY <1>1, <1>10 DEF AddRow, AssertStates, AwayKnown, RootPCs
    <2> QED BY <2>1 DEF AwayKnown
  <1> QED BY <1>4, <1>5, <1>6, <1>7, <1>8, <1>9, <1>10 DEF Next, AssertStep

\* A report covers the saved roots in order, and what it rests on was true at
\* the moment its last closing pass began, but for what somebody had taken away
\* during the first pass and put back during the last; whatever differs when the
\* report is made was changed since.  For any number of planners, cleaners,
\* editors and roots.
THEOREM ReportOfOneMoment == Spec => []ReportIsOfOneMoment
  <1>1. ASSUME AssertInv, AwayKnown
        PROVE  ReportIsOfOneMoment
    <2>1. AssertType /\ Progress /\ ChangesSeen /\ CoversSelection
      BY <1>1 DEF AssertInv, Progress
    <2>2. ASSUME sa.pc = "report"
          PROVE  Stale \subseteq touched /\ away \subseteq earlier \cap touched
      <3>1. sa.pass = 2 /\ Watched
        BY <2>1, <2>2 DEF Progress, Watched
      <3>2. /\ \A n \in 1..sa.kept, c \in FileChecks : FreshRoot(sa.selected[n], c)
            /\ \A c \in WideChecks : Holds(c, Null) \/ <<c, Null>> \in Lately
            /\ \A n \in 1..sa.kept : FreshScope(sa.selected[n])
        BY <2>1, <2>2, <3>1 DEF ChangesSeen, ReadOf, ReadLast
      <3>3. Stale \subseteq touched
        BY <1>1, <3>1, <3>2, StaleIsSeen DEF Lately
      <3> QED BY <1>1, <3>1, <3>3 DEF AwayKnown
    <2> QED BY <2>1, <2>2 DEF ReportIsOfOneMoment
  <1>2. Init => AwayKnown
    BY DEF Init, AssertIdle, AwayKnown, Watched
  <1> QED BY <1>1, <1>2, AssertInvInit, AssertInvStep, AwayStep, PTL DEF Spec

-----------------------------------------------------------------------------
(* Next to one planner at a time: the scope of a targeted plan *)

LEMMA WorldStepKeeps ==
  ASSUME NEW p, Planners = {p}, AssertInv, SoleInv(p), [Next]_vars
  PROVE  SoleInv(p)' /\ WorldKeeps(p) /\ AssertInv'
  <1>0. p \in Planners /\ SPTypeOK' /\ AssertInv'
    BY AssertInvStep DEF AssertInv, AssertType
  <1>1. CASE SPNext
    BY <1>0, <1>1, SoleInvStep, WorldStep
  <1>2. CASE UNCHANGED <<inputs, tfplan, sources, attest, pl, cl, plans, epoch, churn>>
    <2>1. SoleInv(p)'
      BY <1>0, <1>2 DEF SoleInv, FilesGone, InputsTracked, PlanTracked, IdsGiven,
         SourcesBindPlan, AttestationTellsScope, FailedSaveLeavesNothing, Declared, root
    <2>2. WorldKeeps(p)
      BY <1>0, <1>2, QuietWorld
    <2> QED BY <1>0, <2>1, <2>2
  <1>3. SPNext \/ UNCHANGED <<inputs, tfplan, sources, attest, pl, cl, plans, epoch, churn>>
    BY DEF Next, OthersStep, StartAssert, AssertStep, Preflight, Begin, PrepareEvidence,
           ShowSnapshot, RecheckControls, RecheckEvidence, Classify, AddRow, ClosingPass, Report,
           AssertFails, Scrub, RemoveDirectory, AssertCrash, EditPolicy, EditControls,
           DisturbSnapshots, spState, vars
  <1> QED BY <1>1, <1>2, <1>3

\* A plan that is known stays known.
LEMMA StaysKnown ==
  ASSUME NEW p, WorldKeeps(p), NEW r \in Roots, NEW x \in SavedPlans, x # Null,
         KnownPlan(p, r, x)
  PROVE  KnownPlan(p, r, x)'
  BY DEF WorldKeeps, KnownPlan

\* Steps that leave the bound plans, the attestations and the rows alone.
LEMMA SameEvidenceKeepsScopes ==
  ASSUME NEW p, ScopesKnown(p), SoleInv(p)', WorldKeeps(p), AssertType, AssertType',
         UNCHANGED sa.rows,
         sa'.pc \in LivePCs =>
           /\ sa.pc \in LivePCs
           /\ \A r \in Roots : sa'.evs[r].plan = sa.evs[r].plan /\ sa'.evs[r].att = sa.evs[r].att,
         sa'.pc \in RootPCs =>
           /\ sa.pc \in RootPCs /\ sroot \in Roots /\ UNCHANGED sroot
           /\ sa.pc = "prepare" <=> sa'.pc = "prepare"
           /\ sa'.pc = "prepare" => sa'.k = sa.k
  PROVE  ScopesKnown(p)'
  <1>1. PlansKnown(p)'
    <2> SUFFICES ASSUME sa'.pc \in LivePCs, NEW r \in Roots, sa'.evs[r].plan # Null
                 PROVE  KnownPlan(p, r, sa.evs[r].plan)'
      BY DEF PlansKnown
    <2>1. PICK x : x = sa.evs[r].plan /\ x = sa'.evs[r].plan
      OBVIOUS
    <2>2. sa.evs[r] \in Evidence
      BY AssertFields
    <2>3. x \in SavedPlans /\ x # Null
      BY <2>1, <2>2, EvidenceFields
    <2>4. KnownPlan(p, r, x)
      BY <2>1 DEF ScopesKnown, PlansKnown
    <2>5. KnownPlan(p, r, x)'
      BY <2>3, <2>4, StaysKnown
    <2> QED BY <2>1, <2>5 DEF KnownPlan
  <1>2. RootPCs \subseteq LivePCs
    BY DEF LivePCs
  <1>3. sa'.pc \in RootPCs =>
          /\ sa'.evs[sroot'].plan = sa.evs[sroot].plan /\ sa'.evs[sroot'].att = sa.evs[sroot].att
    BY <1>2
  <1>4. PlanTaken'
    BY <1>3 DEF ScopesKnown, PlanTaken, RootPCs
  <1>5. AttestedScope'
    BY <1>3 DEF ScopesKnown, AttestedScope
  <1>6. RowsAccounted'
    BY DEF ScopesKnown, RowsAccounted
  <1> QED BY <1>1, <1>4, <1>5, <1>6 DEF ScopesKnown

\* Before the first root there is nothing to know.
LEMMA FreshKeepsScopes ==
  ASSUME NEW p, SoleInv(p)', sa'.rows = <<>>,
         \/ sa'.pc \in EarlyPCs
         \/ sa'.pc = "prepare" /\ sa'.k = 1 /\ sa'.evs = [r \in Roots |-> NoEvidence]
  PROVE  ScopesKnown(p)'
  <1>1. sa'.pc \in EarlyPCs => sa'.pc \notin LivePCs /\ sa'.pc \notin RootPCs
    BY DEF EarlyPCs, LivePCs, RootPCs
  <1>2. PlansKnown(p)'
    BY <1>1 DEF PlansKnown, NoEvidence
  <1>3. PlanTaken' /\ AttestedScope' /\ RowsAccounted'
    BY <1>1 DEF PlanTaken, AttestedScope, RowsAccounted, RootPCs
  <1> QED BY <1>2, <1>3 DEF ScopesKnown

LEMMA EarlyKeepsScopes ==
  ASSUME NEW p, SoleInv(p)', AssertInv, AssertInv',
         (\E mode \in Modes : StartAssert(mode)) \/ Preflight \/ Begin \/ AssertCrash
  PROVE  ScopesKnown(p)'
  <1>1. sa \in AssertStates /\ Progress /\ Progress'
    BY DEF AssertInv, AssertType
  <1>2. CASE sa'.pc \in EarlyPCs
    <2>1. sa'.rows = <<>>
      BY <1>1, <1>2 DEF Progress
    <2> QED BY <1>2, <2>1, FreshKeepsScopes
  <1>3. CASE Begin /\ sa'.pc \notin EarlyPCs
    <2>1. sa.pc = "start" /\ sa' = Through(StartScript, [sa EXCEPT !.pc = "prepare"])
      BY <1>3 DEF Begin
    <2>2. sa' = [sa EXCEPT !.k = @ + 1] \/ sa' = [[sa EXCEPT !.pc = "prepare"] EXCEPT !.k = 1]
      BY <2>1, Zenon DEF Through
    <2>3. CASE sa' = [sa EXCEPT !.k = @ + 1]
      <3>1. sa'.pc = "start"
        BY <1>1, <2>1, <2>3 DEF AssertStates
      <3> QED BY <1>3, <3>1 DEF EarlyPCs
    <2>4. CASE sa' = [[sa EXCEPT !.pc = "prepare"] EXCEPT !.k = 1]
      <3>1. /\ sa'.pc = "prepare" /\ sa'.k = 1 /\ sa'.rows = sa.rows /\ sa'.evs = sa.evs
        BY <1>1, <2>4 DEF AssertStates
      <3>2. sa.rows = <<>> /\ sa.evs = [r \in Roots |-> NoEvidence]
        BY <1>1, <2>1 DEF Progress, EarlyPCs
      <3> QED BY <3>1, <3>2, FreshKeepsScopes
    <2> QED BY <2>2, <2>3, <2>4
  <1>4. ASSUME NEW mode \in Modes, StartAssert(mode)
        PROVE  sa'.pc \in EarlyPCs
    <2>1. sa' = [AssertIdle EXCEPT !.pc = "preflight", !.mode = mode]
      BY <1>4 DEF StartAssert
    <2>2. sa'.pc = "preflight"
      BY <2>1, IdleState DEF AssertStates
    <2> QED BY <2>2 DEF EarlyPCs
  <1>5. AssertCrash => sa'.pc \in EarlyPCs
    BY IdleState DEF AssertCrash, EarlyPCs
  <1>6. ASSUME Preflight
        PROVE  sa'.pc \in EarlyPCs
    <2>1. \E x, pc : /\ pc \in EarlyPCs
                     /\ \/ sa' = [sa EXCEPT !.policy = x, !.pc = pc]
                        \/ sa' = [sa EXCEPT !.controls = x, !.pc = pc]
                        \/ sa' = [sa EXCEPT !.selected = x, !.pc = pc]
      BY <1>6, Zenon DEF Preflight, EarlyPCs
    <2>2. PICK x, pc : /\ pc \in EarlyPCs
                       /\ \/ sa' = [sa EXCEPT !.policy = x, !.pc = pc]
                          \/ sa' = [sa EXCEPT !.controls = x, !.pc = pc]
                          \/ sa' = [sa EXCEPT !.selected = x, !.pc = pc]
      BY <2>1
    <2>3. sa'.pc = pc
      BY <1>1, <2>2 DEF AssertStates
    <2> QED BY <2>2, <2>3
  <1> QED BY <1>2, <1>3, <1>4, <1>5, <1>6

\* The one place where a plan, and the attestation that goes with it, is bound.
LEMMA PrepareKeepsScopes ==
  ASSUME NEW p, ScopesKnown(p), AssertInv, SoleInv(p)', AssertInv', WorldKeeps(p),
         p \in Planners, PrepareEvidence
  PROVE  ScopesKnown(p)'
  <1>1. /\ AssertType /\ Progress /\ CopiesKnown /\ sa \in AssertStates /\ SPTypeOK
        /\ sa.pc = "prepare" /\ sa.k \in Nat /\ sa.k \in 1..12
        /\ sa.i \in 1..Len(sa.selected) /\ sa.evs \in [Roots -> Evidence]
    BY AssertFields, ReadsAre, LeftIsBoolean
       DEF AssertInv, AssertType, PrepareEvidence, Progress, EndPCs, RootPCs
  <1>2. sroot \in Roots /\ sa.evs[sroot] \in Evidence
    BY <1>1, AtRoot
  <1>3. PICK check, ev : /\ check = PrepareScript[sa.k] /\ ev \in PreparedBy(check, sroot, sa.evs[sroot])
                         /\ sa' = [Through(PrepareScript, [sa EXCEPT !.pc = "show", !.kept = @ + 1])
                                     EXCEPT !.evs[sroot] = ev]
    BY DEF PrepareEvidence
  <1>4. /\ ev \in Evidence
        /\ check = "snapshot" => tfplan[sroot] # Null /\ ev.plan = tfplan[sroot]
        /\ check # "snapshot" => ev.plan = sa.evs[sroot].plan
        /\ check = "attest"
             => /\ ev.att = attest[sroot]
                /\ attest[sroot] # Null
                     => attest[sroot] # Torn /\ attest[sroot].plan = sa.evs[sroot].plan.id
        /\ check # "attest" => ev.att = sa.evs[sroot].att
    BY <1>1, <1>2, <1>3, PreparedEvidence
  <1>5. /\ sa.k = 3 <=> check = "snapshot"
        /\ sa.k = 6 <=> check = "attest"
    BY <1>1, <1>3 DEF PrepareScript
  <1>6. /\ sa'.evs = [sa.evs EXCEPT ![sroot] = ev] /\ UNCHANGED <<sa.i, sa.selected, sa.rows>>
        /\ \/ sa.k \in 1..11 /\ sa'.pc = "prepare" /\ sa'.k = sa.k + 1
           \/ sa.k = 12 /\ sa'.pc = "show"
    <2> DEFINE s == Through(PrepareScript, [sa EXCEPT !.pc = "show", !.kept = @ + 1])
    <2>1. \/ sa.k \in 1..11 /\ s = [sa EXCEPT !.k = @ + 1]
          \/ sa.k = 12 /\ s = [[sa EXCEPT !.pc = "show", !.kept = @ + 1] EXCEPT !.k = 1]
      BY <1>1, ScriptLengths DEF Through
    <2>2. \/ sa.k \in 1..11 /\ sa' = [[sa EXCEPT !.k = @ + 1] EXCEPT !.evs[sroot] = ev]
          \/ /\ sa.k = 12
             /\ sa' = [[[sa EXCEPT !.pc = "show", !.kept = @ + 1] EXCEPT !.k = 1]
                         EXCEPT !.evs[sroot] = ev]
      BY <1>3, <2>1
    <2> QED BY <1>1, <2>2 DEF AssertStates
  <1>7. UNCHANGED sroot /\ sa'.evs[sroot'] = ev /\ UNCHANGED spState
    BY <1>1, <1>2, <1>6 DEF sroot, PrepareEvidence
  <1>8. ASSUME ev.plan # Null
        PROVE  KnownPlan(p, sroot, ev.plan)
    <2>1. CASE check = "snapshot"
      BY <1>2, <1>4, <1>8, <2>1, SavedIsKnown DEF ScopesKnown
    <2>2. CASE check # "snapshot"
      BY <1>1, <1>2, <1>4, <1>8, <2>2 DEF ScopesKnown, PlansKnown, LivePCs, RootPCs
    <2> QED BY <2>1, <2>2
  <1>9. PlansKnown(p)'
    <2> SUFFICES ASSUME NEW r \in Roots, sa'.evs[r].plan # Null
                 PROVE  KnownPlan(p, r, sa.evs[r].plan)'
      BY DEF PlansKnown
    <2>1. PICK x : x = sa'.evs[r].plan
      OBVIOUS
    <2>2. KnownPlan(p, r, x) /\ x \in SavedPlans /\ x # Null
      <3>1. CASE r = sroot
        <4>1. x = ev.plan
          BY <1>1, <1>6, <2>1, <3>1
        <4> QED BY <1>4, <1>8, <2>1, <3>1, <4>1, EvidenceFields
      <3>2. CASE r # sroot
        <4>1. x = sa.evs[r].plan /\ sa.evs[r] \in Evidence
          BY <1>1, <1>6, <2>1, <3>2
        <4>2. KnownPlan(p, r, x)
          BY <1>1, <2>1, <4>1 DEF ScopesKnown, PlansKnown, LivePCs, RootPCs
        <4> QED BY <2>1, <4>1, <4>2, EvidenceFields
      <3> QED BY <3>1, <3>2
    <2>3. KnownPlan(p, r, x)'
      BY <2>2, StaysKnown
    <2> QED BY <2>1, <2>3 DEF KnownPlan
  <1>10. sa'.pc = "prepare" /\ sa'.k > 3 => ev.plan # Null
    <2> SUFFICES ASSUME sa'.pc = "prepare", sa'.k > 3
                 PROVE  ev.plan # Null
      OBVIOUS
    <2>1. sa.k = 3 \/ sa.k > 3
      BY <1>6
    <2> QED BY <1>1, <1>4, <1>5, <2>1 DEF ScopesKnown, PlanTaken
  <1>11. PlanTaken'
    BY <1>7, <1>10 DEF PlanTaken
  <1>12. ASSUME sa.k >= 6, ev.att # Null
         PROVE  ev.att.targets = ev.plan.targets
    <2>1. sa.evs[sroot].plan # Null /\ ev.plan = sa.evs[sroot].plan
      BY <1>1, <1>4, <1>5, <1>12 DEF ScopesKnown, PlanTaken
    <2>2. CASE sa.k = 6
      <3>1. KnownPlan(p, sroot, ev.plan)
        BY <1>8, <2>1
      <3> QED BY <1>4, <1>5, <1>12, <2>1, <2>2, <3>1 DEF KnownPlan
    <2>3. CASE sa.k > 6
      BY <1>1, <1>4, <1>5, <1>12, <2>1, <2>3 DEF ScopesKnown, AttestedScope, RootPCs
    <2> QED BY <1>1, <1>12, <2>2, <2>3
  <1>13. AttestedScope'
    <2> SUFFICES ASSUME sa'.pc = "prepare" => sa'.k > 6, ev.att # Null
                 PROVE  ev.att.targets = ev.plan.targets
      BY <1>7 DEF AttestedScope
    <2>1. sa.k >= 6
      BY <1>6
    <2> QED BY <1>12, <2>1
  <1>14. RowsAccounted'
    BY <1>6 DEF ScopesKnown, RowsAccounted
  <1> QED BY <1>9, <1>11, <1>13, <1>14 DEF ScopesKnown

\* The row of a targeted plan: the attested targets are its own.
LEMMA AddRowKeepsScopes ==
  ASSUME NEW p, ScopesKnown(p), AssertInv, SoleInv(p)', AssertInv', WorldKeeps(p), AddRow
  PROVE  ScopesKnown(p)'
  <1> DEFINE row == [root |-> sroot, plan |-> sa.evs[sroot].plan, src |-> sa.evs[sroot].src,
                     scope |-> sa.scopes[sroot], status |-> sa.status]
  <1>1. /\ AssertType /\ Progress /\ ShownIsBound /\ sa \in AssertStates /\ sa.pc = "row"
        /\ sa.rows \in Seq(Rows) /\ sa.status # Null /\ sa.k = 1
    BY AssertFields, ReadsAre, LeftIsBoolean
       DEF AssertInv, AssertType, AddRow, Progress, AssertPCs, EndPCs, RootPCs
  <1>2. Judged(sroot)
    BY <1>1 DEF ShownIsBound
  <1>3. TargetsAccountedFor(row)
    <2> DEFINE ev == sa.evs[sroot]
    <2> SUFFICES ASSUME ~ev.plan.body.complete
                 PROVE  \/ /\ ImportsOnly(ev.plan.body)
                           /\ ev.plan.targets = ImportingAddresses(ev.plan.body)
                        \/ /\ sa.scopes[sroot] # Null /\ ev.plan.targets = sa.scopes[sroot]
                           /\ \A c \in ev.plan.body.changes : OnlyNoOp(c)
      BY DEF TargetsAccountedFor
    <2>1. /\ Attested(ev.att) # Null
          /\ \/ ImportsOnly(ev.plan.body)
                /\ Attested(ev.att).targets = ImportingAddresses(ev.plan.body)
             \/ /\ sa.scopes[sroot] # Null /\ Attested(ev.att).targets = sa.scopes[sroot]
                /\ \A c \in ev.plan.body.changes : OnlyNoOp(c)
      BY <1>2, ValidTargets DEF Judged
    <2>2. ev.att # Null /\ Attested(ev.att).targets = ev.att.targets
      BY <2>1 DEF Attested
    <2>3. ev.att.targets = ev.plan.targets
      BY <1>1, <2>2 DEF ScopesKnown, AttestedScope, RootPCs
    <2> QED BY <2>1, <2>2, <2>3
  <1> HIDE DEF row
  <1>4. /\ sa'.rows = Append(sa.rows, row) /\ sa'.evs = sa.evs /\ sa'.k = 1
        /\ sa'.pc \in {"prepare", "pass"}
    <2>1. \E i, pc : /\ pc \in {"prepare", "pass"}
                     /\ sa' = [sa EXCEPT !.rows = Append(@, row), !.status = Null, !.i = i, !.pc = pc]
      BY Zenon DEF AddRow, row
    <2> QED BY <1>1, <2>1 DEF AssertStates
  <1>5. RowsAccounted'
    <2> SUFFICES ASSUME NEW n \in 1..Len(Append(sa.rows, row))
                 PROVE  TargetsAccountedFor(Append(sa.rows, row)[n])
      BY <1>4 DEF RowsAccounted
    <2>1. CASE n \in 1..Len(sa.rows)
      BY <1>1, <2>1 DEF ScopesKnown, RowsAccounted
    <2>2. CASE n = Len(sa.rows) + 1
      BY <1>1, <1>3, <2>2
    <2> QED BY <1>1, <2>1, <2>2
  <1>6. PlansKnown(p)'
    <2> SUFFICES ASSUME NEW r \in Roots, sa'.evs[r].plan # Null
                 PROVE  KnownPlan(p, r, sa.evs[r].plan)'
      BY DEF PlansKnown
    <2>1. PICK x : x = sa'.evs[r].plan /\ x = sa.evs[r].plan
      BY <1>4
    <2>2. sa.evs[r] \in Evidence /\ x \in SavedPlans /\ x # Null
      BY <1>1, <2>1, AssertFields, EvidenceFields
    <2>3. KnownPlan(p, r, x)
      BY <1>1, <2>1, <2>2 DEF ScopesKnown, PlansKnown, LivePCs, RootPCs
    <2>4. KnownPlan(p, r, x)'
      BY <2>2, <2>3, StaysKnown
    <2> QED BY <2>1, <2>4 DEF KnownPlan
  <1>7. PlanTaken' /\ AttestedScope'
    BY <1>4 DEF PlanTaken, AttestedScope, RootPCs
  <1> QED BY <1>5, <1>6, <1>7 DEF ScopesKnown

\* At work on a root: what is bound stays bound.
LEMMA WorkKeepsScopes ==
  ASSUME NEW p, ScopesKnown(p), AssertInv, SoleInv(p)', AssertInv', WorldKeeps(p),
         ShowSnapshot \/ RecheckControls \/ RecheckEvidence \/ Classify
  PROVE  ScopesKnown(p)'
  <1>1. /\ AssertType /\ AssertType' /\ Progress /\ sa \in AssertStates
        /\ sa.evs \in [Roots -> Evidence]
        /\ sa.pc \in RootPCs /\ sa.pc # "prepare"
    BY AssertFields DEF AssertInv, AssertType, ShowSnapshot, RecheckControls, RecheckEvidence,
                        Classify, RootPCs
  <1>2. sroot \in Roots /\ sa.evs[sroot] \in Evidence
    BY <1>1, AtRoot DEF Progress
  <1>3. ASSUME NEW evs, sa'.evs = evs, \/ evs = sa.evs
                                       \/ \E b : evs = [sa.evs EXCEPT ![sroot].shown = b]
        PROVE  \A r \in Roots : sa'.evs[r].plan = sa.evs[r].plan /\ sa'.evs[r].att = sa.evs[r].att
    <2>1. CASE evs = sa.evs
      BY <1>3, <2>1
    <2>2. CASE \E b : evs = [sa.evs EXCEPT ![sroot].shown = b]
      <3> SUFFICES ASSUME NEW r \in Roots
                   PROVE  evs[r].plan = sa.evs[r].plan /\ evs[r].att = sa.evs[r].att
        BY <1>3
      <3>1. PICK b : evs = [sa.evs EXCEPT ![sroot].shown = b]
        BY <2>2
      <3>2. CASE r = sroot
        <4>1. evs[r] = [sa.evs[r] EXCEPT !.shown = b]
          BY <1>1, <3>1, <3>2
        <4> QED BY <1>2, <3>2, <4>1 DEF Evidence
      <3>3. CASE r # sroot
        BY <1>1, <3>1, <3>3
      <3> QED BY <3>2, <3>3
    <2> QED BY <1>3, <2>1, <2>2
  <1>4. /\ sa'.pc \in RootPCs \ {"prepare"} /\ UNCHANGED <<sa.rows, sa.i, sa.selected>>
        /\ \A r \in Roots : sa'.evs[r].plan = sa.evs[r].plan /\ sa'.evs[r].att = sa.evs[r].att
    <2>1. CASE ShowSnapshot
      <3>1. sa' = [sa EXCEPT !.evs[sroot].shown = sa.evs[sroot].copy.body, !.pc = "controls"]
        BY <2>1 DEF ShowSnapshot
      <3>2. /\ sa'.pc = "controls" /\ UNCHANGED <<sa.rows, sa.i, sa.selected>>
            /\ sa'.evs = [sa.evs EXCEPT ![sroot].shown = sa.evs[sroot].copy.body]
        BY <1>1, <3>1 DEF AssertStates
      <3> QED BY <1>3, <3>2 DEF RootPCs
    <2>2. CASE RecheckControls
      <3>1. sa'.pc = "recheck" /\ UNCHANGED <<sa.rows, sa.i, sa.selected, sa.evs>>
        BY <1>1, <2>2 DEF RecheckControls, SGoto, AssertStates
      <3> QED BY <3>1 DEF RootPCs
    <2>3. CASE RecheckEvidence
      <3>1. /\ sa' = Through(EvidenceScript,
                       [sa EXCEPT !.pc = IF sa.status = Null THEN "classify" ELSE "row"])
            /\ sa.pc = "recheck"
        BY <2>3 DEF RecheckEvidence
      <3>2. PICK pc : pc \in {"classify", "row"} /\ sa' = Through(EvidenceScript, [sa EXCEPT !.pc = pc])
        BY <3>1
      <3>3. sa' = [sa EXCEPT !.k = @ + 1] \/ sa' = [[sa EXCEPT !.pc = pc] EXCEPT !.k = 1]
        BY <3>2, Zenon DEF Through
      <3>4. sa'.pc \in {"recheck", "classify", "row"} /\ UNCHANGED <<sa.rows, sa.i, sa.selected, sa.evs>>
        BY <1>1, <3>1, <3>2, <3>3 DEF AssertStates
      <3> QED BY <3>4 DEF RootPCs
    <2>4. CASE Classify
      <3>1. \E x, y : sa' = [sa EXCEPT !.scopes[sroot] = x, !.status = y, !.pc = "recheck"]
        BY <2>4 DEF Classify
      <3>2. sa'.pc = "recheck" /\ UNCHANGED <<sa.rows, sa.i, sa.selected, sa.evs>>
        BY <1>1, <3>1 DEF AssertStates
      <3> QED BY <3>2 DEF RootPCs
    <2> QED BY <2>1, <2>2, <2>3, <2>4
  <1>5. UNCHANGED sroot
    BY <1>4 DEF sroot
  <1> QED BY <1>1, <1>2, <1>4, <1>5, SameEvidenceKeepsScopes DEF LivePCs

\* The passes, the report and the end: no root is at work.
LEMMA EndKeepsScopes ==
  ASSUME NEW p, ScopesKnown(p), AssertInv, SoleInv(p)', AssertInv', WorldKeeps(p),
         ClosingPass \/ Report \/ AssertFails \/ Scrub \/ RemoveDirectory
  PROVE  ScopesKnown(p)'
  <1>1. AssertType /\ AssertType' /\ sa \in AssertStates
    BY DEF AssertInv, AssertType
  <1>2. ASSUME UNCHANGED sa.rows, sa'.pc \notin RootPCs,
               sa'.pc \in LivePCs => sa.pc \in LivePCs /\ sa'.evs = sa.evs
        PROVE  ScopesKnown(p)'
    BY <1>1, <1>2, SameEvidenceKeepsScopes
  <1>3. CASE ClosingPass
    <2>1. sa.pc = "pass"
      BY <1>3 DEF ClosingPass
    <2>2. UNCHANGED <<sa.rows, sa.evs>> /\ sa'.pc \in {"pass", "report"}
      <3>1. PICK s, k : /\ \/ s = sa
                           \/ s = [sa EXCEPT !.i = @ + 1]
                           \/ s = [sa EXCEPT !.i = 1, !.pass = 2]
                           \/ s = [sa EXCEPT !.pc = "report"]
                        /\ sa' = [s EXCEPT !.k = k]
        BY <1>3, Zenon DEF ClosingPass, Through
      <3>2. CASE s = sa
        BY <1>1, <2>1, <3>1, <3>2 DEF AssertStates
      <3>3. CASE s = [sa EXCEPT !.i = @ + 1]
        BY <1>1, <2>1, <3>1, <3>3 DEF AssertStates
      <3>4. CASE s = [sa EXCEPT !.i = 1, !.pass = 2]
        BY <1>1, <2>1, <3>1, <3>4 DEF AssertStates
      <3>5. CASE s = [sa EXCEPT !.pc = "report"]
        BY <1>1, <2>1, <3>1, <3>5 DEF AssertStates
      <3> QED BY <3>1, <3>2, <3>3, <3>4, <3>5
    <2> QED BY <1>2, <2>1, <2>2 DEF LivePCs, RootPCs
  <1>4. CASE Report
    <2>1. UNCHANGED sa.rows /\ sa'.pc = "scrub"
      BY <1>1, <1>4 DEF Report, AssertStates
    <2> QED BY <1>2, <2>1 DEF LivePCs, RootPCs
  <1>5. ASSUME NEW unclean, NEW pc, pc \in {"done", "failed"}, sa' = Ended(pc, unclean)
        PROVE  ScopesKnown(p)'
    <2>1. UNCHANGED sa.rows /\ sa'.pc = pc
      BY <1>5, IdleState DEF Ended, AssertStates
    <2> QED BY <1>2, <1>5, <2>1 DEF LivePCs, RootPCs
  <1>6. CASE RemoveDirectory
    <2>1. \E unclean, pc : pc \in {"done", "failed"} /\ sa' = Ended(pc, unclean)
      BY <1>6 DEF RemoveDirectory
    <2> QED BY <1>5, <2>1
  <1>7. CASE Scrub
    <2>1. \E left, i, unclean :
            \/ sa' = [sa EXCEPT !.evs[sroot] = left, !.i = i, !.unclean = unclean]
            \/ sa' = [sa EXCEPT !.pc = "directory", !.k = 1]
      <3>1. CASE sa.i <= ToScrub
        <4>1. PICK left \in ScrubLeaves(sa.evs[sroot]) :
                sa' = [sa EXCEPT !.evs[sroot] = left, !.i = sa.i + 1,
                                 !.unclean = sa.unclean \/ left.copy # Null]
          BY <1>7, <3>1 DEF Scrub
        <4> QED BY <4>1, Zenon
      <3>2. CASE ~(sa.i <= ToScrub)
        BY <1>7, <3>2, Zenon DEF Scrub, SGoto
      <3> QED BY <3>1, <3>2
    <2>2. UNCHANGED sa.rows /\ sa'.pc \in {"scrub", "directory"}
      <3>1. sa.pc = "scrub"
        BY <1>7 DEF Scrub
      <3> QED BY <1>1, <2>1, <3>1 DEF AssertStates
    <2> QED BY <1>2, <2>2 DEF LivePCs, RootPCs
  <1>8. CASE AssertFails
    <2>1. \/ sa' = Ended("failed", FALSE)
          \/ \E left, stray :
               sa' = [sa EXCEPT !.pc = "scrub", !.i = 1, !.k = 1, !.failing = TRUE,
                                !.evs[sroot] = left, !.stray = stray]
          \/ sa' = [sa EXCEPT !.pc = "scrub", !.i = 1, !.k = 1, !.failing = TRUE]
      BY <1>8, Zenon DEF AssertFails
    <2>2. CASE sa' = Ended("failed", FALSE)
      BY <1>5, <2>2
    <2>3. CASE ~(sa' = Ended("failed", FALSE))
      <3>1. UNCHANGED sa.rows /\ sa'.pc = "scrub"
        BY <1>1, <2>1, <2>3 DEF AssertStates
      <3> QED BY <1>2, <3>1 DEF LivePCs, RootPCs
    <2> QED BY <2>2, <2>3
  <1> QED BY <1>3, <1>4, <1>6, <1>7, <1>8

LEMMA ScopesKnownStep ==
  ASSUME NEW p, Planners = {p}, AssertInv, ScopesKnown(p), [Next]_vars
  PROVE  ScopesKnown(p)' /\ AssertInv'
  <1>1. /\ SoleInv(p)' /\ WorldKeeps(p) /\ AssertInv' /\ p \in Planners
        /\ AssertType /\ AssertType' /\ sa \in AssertStates
    BY WorldStepKeeps DEF ScopesKnown, AssertInv, AssertType
  <1>2. CASE UNCHANGED sa
    <2>1. sa.pc \in RootPCs => sroot \in Roots
      BY <1>1, AtRoot DEF AssertInv, Progress
    <2>2. UNCHANGED sroot
      BY <1>2 DEF sroot
    <2> QED BY <1>1, <1>2, <2>1, <2>2, SameEvidenceKeepsScopes
  <1>3. CASE DisturbSnapshots
    <2>1. /\ UNCHANGED <<sa.pc, sa.k, sa.i, sa.selected, sa.rows>>
          /\ \A r \in Roots : sa'.evs[r].plan = sa.evs[r].plan /\ sa'.evs[r].att = sa.evs[r].att
      <3>1. PICK r \in Roots : \/ sa' = [sa EXCEPT !.evs[r].linked = FALSE]
                               \/ sa' = [sa EXCEPT !.evs[r].copy = Torn]
        BY <1>3 DEF DisturbSnapshots
      <3>2. sa.evs[r] \in Evidence /\ sa.evs \in [Roots -> Evidence]
        BY <1>1, AssertFields
      <3>3. /\ UNCHANGED <<sa.pc, sa.k, sa.i, sa.selected, sa.rows>>
            /\ \/ sa'.evs = [sa.evs EXCEPT ![r].linked = FALSE]
               \/ sa'.evs = [sa.evs EXCEPT ![r].copy = Torn]
        BY <1>1, <3>1 DEF AssertStates
      <3>4. \A x \in Roots : \/ sa'.evs[x] = sa.evs[x]
                             \/ sa'.evs[x] = [sa.evs[x] EXCEPT !.linked = FALSE]
                             \/ sa'.evs[x] = [sa.evs[x] EXCEPT !.copy = Torn]
        BY <3>2, <3>3
      <3>5. \A x \in Roots : sa.evs[x] \in Evidence
        BY <3>2
      <3> QED BY <3>3, <3>4, <3>5 DEF Evidence
    <2>2. sa.pc \in RootPCs => sroot \in Roots
      BY <1>1, AtRoot DEF AssertInv, Progress
    <2>3. UNCHANGED sroot
      BY <2>1 DEF sroot
    <2> QED BY <1>1, <2>1, <2>2, <2>3, SameEvidenceKeepsScopes
  <1>4. CASE (\E mode \in Modes : StartAssert(mode)) \/ AssertCrash
    BY <1>1, <1>4, EarlyKeepsScopes
  <1>5. CASE AssertStep
    BY <1>1, <1>5, EarlyKeepsScopes, PrepareKeepsScopes, WorkKeepsScopes, AddRowKeepsScopes,
       EndKeepsScopes DEF AssertStep
  <1>6. CASE \/ OthersStep \/ (\E c \in Policies : EditPolicy(c))
             \/ (\E c \in Controls : EditControls(c)) \/ UNCHANGED vars
    BY <1>2, <1>6 DEF OthersStep, EditPolicy, EditControls, vars
  <1> QED BY <1>1, <1>3, <1>4, <1>5, <1>6 DEF Next

LEMMA ScopesKnownInit ==
  ASSUME NEW p, Planners = {p}, Init
  PROVE  ScopesKnown(p)
  <1>1. SoleInv(p)
    BY SoleInvInit DEF Init
  <1>2. sa.pc = "idle" /\ sa.rows = <<>>
    BY IdleState DEF Init
  <1> QED BY <1>1, <1>2 DEF ScopesKnown, PlansKnown, PlanTaken, AttestedScope, RowsAccounted,
                            LivePCs, RootPCs

\* The status of a row is true of the plan the row names, under the policy and
\* the scope of the run, in finished and in partial reports, with any number
\* of planners, cleaners and editors.
THEOREM StatusesAreTrue == Spec => [](\A n \in 1..Len(sa.rows) : StatusIsTrue(sa.rows[n]))
  <1>1. AssertInv => \A n \in 1..Len(sa.rows) : StatusIsTrue(sa.rows[n])
    BY DEF AssertInv, ShownIsBound
  <1> QED BY <1>1, AssertInvHolds, PTL

\* With one `iw plan` at a time a row of a targeted plan accounts for the
\* targets too: it tells of an import of exactly the addresses the plan was
\* really made for, or of a plan without effect on exactly those staged.
THEOREM RowsAreTrue ==
  ASSUME NEW CONSTANT p, Planners = {p}
  PROVE  Spec => []RowsTellTheTruth
  <1>1. Init => AssertInv /\ ScopesKnown(p)
    BY AssertInvInit, ScopesKnownInit
  <1>2. AssertInv /\ ScopesKnown(p) /\ [Next]_vars => (AssertInv /\ ScopesKnown(p))'
    BY ScopesKnownStep
  <1>3. AssertInv /\ ScopesKnown(p) => RowsTellTheTruth
    BY DEF AssertInv, ShownIsBound, ScopesKnown, RowsAccounted, RowsTellTheTruth
  <1> QED BY <1>1, <1>2, <1>3, PTL DEF Spec
=============================================================================
