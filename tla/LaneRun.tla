------------------------------- MODULE LaneRun -------------------------------
(***************************************************************************)
(* The two batches that make configuration out of what was fetched: the    *)
(* transform lane (go/internal/transformrun/runner.go) and the adopt lane  *)
(* (go/internal/adopt/runner.go).  Each takes the selected types in        *)
(* reference order, compiles a type against the tree as it is then, and    *)
(* writes its files one after the other; a type that fails does not stop   *)
(* the batch.  The process may be killed between two writes or in one.     *)
(***************************************************************************)
EXTENDS TransformArtifacts

CONSTANTS
    LaneTypes,     \* the options of each type, see CompileTransformArtifacts
    LaneOrder,     \* the types in reference order
    PullResults,   \* PullResults[t]: what fetching and projecting t may give
    LaneTrees,     \* the trees a history may begin with
    Transitions,   \* the types that may have a pending move transition
    MaxLaneRuns    \* how many batches are run

LaneFiles == {"json", "hcl", "data", "dataHcl", "lookup", "oldLookup", "imports", "moves", "bindings"}
\* A result: its status ("absent", "unreadable", "refused", "unsupported" or "ready"), and
\* for a ready one its items, originals and drops.
ASSUME LaneAssumption ==
    /\ LaneOrder \in Seq(DOMAIN LaneTypes) /\ IsInjective(LaneOrder)
    /\ Range(LaneOrder) = DOMAIN LaneTypes /\ DOMAIN PullResults = DOMAIN LaneTypes
    /\ \A files \in LaneTrees :
          DOMAIN files = DOMAIN LaneTypes /\ \A t \in DOMAIN files : DOMAIN files[t] = LaneFiles
    /\ \A t \in DOMAIN PullResults : \A r \in PullResults[t] :
          r.status \in {"absent", "unreadable", "refused", "unsupported", "ready"}

\* The results that are compiled, and the sidecars a history can come to hold.
Fetched(t) == {r \in PullResults[t] : r.status \in {"ready", "unsupported"}}
CompiledLookups(t) == {l \in {CompileLookup(LaneTypes[t], r) : r \in Fetched(t)} : "idByKey" \in DOMAIN l}
SidecarsIn(files) ==
    {file[2] : file \in {g \in {files[t][f] : t \in DOMAIN files, f \in {"lookup", "oldLookup"}} : g # Null /\ ~ IsTorn(g)}}
KnownLookups ==
    (UNION {CompiledLookups(t) : t \in DOMAIN LaneTypes}) \cup (UNION {SidecarsIn(files) : files \in LaneTrees})
KnownMaps(references) ==
    [DOMAIN references -> {Null} \cup {LookupKeyMap(ParseLookupSidecar(l), references[f].space) :
                                          l \in KnownLookups, f \in DOMAIN references}]
\* The referent's sidecar, if it can be read, has the key of the token.
TokenResolves(files, v) ==
    LET l == ResolveLookup(files, v[2])
    IN  HasFailed(l) \/ (l.lookup # Null /\ v[3] \in DOMAIN l.lookup.idByKey)
TokensResolveIn(files) ==
    \A t \in DOMAIN files : files[t].json # Null =>
        \A v \in TokensOf(files[t].json[2]) : v[4] = "id" => TokenResolves(files, v)

\* What is fetched holds no tokens; its keys can be sorted and no identity is an empty text.
\* A token that is made takes its key from the lookup of another type.  A history begins in
\* a tree whose references resolve, with sidecars whose keys all have an identity.
ASSUME ReferenceAssumption ==
    /\ TokensOf(<<>>) = {} /\ Torn(<<>>) # Null
    /\ \A l \in KnownLookups : Null \notin {Whole(l), ParseLookupSidecar(l)}
    /\ \A t \in DOMAIN LaneTypes :
          LET o == LaneTypes[t]
          IN  /\ o.dataLane => o.nameField # Null
              /\ \A l \in CompiledLookups(t) : l.idByKey # Null /\ "" \notin Range(l.idByKey)
              /\ \A r \in Fetched(t) :
                    /\ TokensOf(r.items) = {} /\ DOMAIN r.items \subseteq Range(NameOrder)
                    /\ \A maps \in KnownMaps(o.context.references) :
                          \A v \in TokensOf(WithTokens(r.items, t, o.context, maps)) : v[4] = "id" =>
                             \E f \in DOMAIN maps : /\ o.context.references[f].referent = v[2] /\ v[2] # t
                                                    /\ o.context.references[f].space = "id"
                                                    /\ maps[f] # Null /\ v[3] \in Range(maps[f])
    /\ \A files \in LaneTrees :
          /\ TokensResolveIn(files)
          /\ \A l \in SidecarsIn(files) :
                Range(ParseLookupSidecar(l).keyById) \subseteq DOMAIN ParseLookupSidecar(l).idByKey
          /\ \A t \in DOMAIN files, f \in {"lookup", "oldLookup"} :
                files[t][f] = Null \/ IsTorn(files[t][f]) \/ files[t][f] = Whole(files[t][f][2])

VARIABLES
    tree,      \* the files of each type
    pending,   \* the types with a pending move transition
    lane,      \* the batch in progress
    laneRuns,  \* how many batches there were
    published  \* history: what a batch last wrote of each type to the end

lnvars == <<tree, pending, lane, laneRuns, published>>

NoFiles == [f \in LaneFiles |-> Null]
IdleLane == [pc |-> "idle", kind |-> "none", at |-> 0, selected |-> {}, result |-> Null, check |-> FALSE,
             changes |-> <<>>, config |-> Null, processed |-> {}, skipped |-> {}, failed |-> {}]
LaneType == LaneOrder[lane.at]
LaneOpts == LaneTypes[LaneType]
LaneAt(pc) == lane.pc = pc
\* Derived types and data referents are delegated to the transform lane, behind the same gate.
Delegated == LaneOpts.dataLane \/ LaneOpts.derived
NextType == [lane EXCEPT !.pc = "next", !.changes = <<>>, !.result = Null, !.config = Null]
\* Only the adopt lane asks whether the provider can hold the items.
Projects(r) == r.status = "ready" \/ (r.status = "unsupported" /\ lane.kind = "transform")
TypeFails == lane' = [NextType EXCEPT !.failed = @ \cup {LaneType}]

StartLane(kind, selected, check) ==
    /\ LaneAt("idle") /\ laneRuns < MaxLaneRuns
    /\ lane' = [IdleLane EXCEPT !.pc = "next", !.kind = kind, !.selected = selected, !.check = check]
    /\ laneRuns' = laneRuns + 1
    /\ UNCHANGED <<tree, pending, published>>

\* The input of the next selected type.  One that cannot be read ends a transform batch and
\* fails the type of an adopt batch.
ReadLaneInput ==
    /\ LaneAt("next")
    /\ LET todo == {i \in DOMAIN LaneOrder : i > lane.at /\ LaneOrder[i] \in lane.selected}
       IN  IF todo = {} THEN lane' = [lane EXCEPT !.pc = "done"]
           ELSE LET at == CHOOSE i \in todo : \A j \in todo : i <= j
                IN  \E r \in PullResults[LaneOrder[at]] :
                        lane' = CASE r.status = "absent" -> [lane EXCEPT !.at = at, !.skipped = @ \cup {LaneOrder[at]}]
                                  [] r.status = "unreadable" /\ lane.kind = "adopt" ->
                                         [lane EXCEPT !.at = at, !.failed = @ \cup {LaneOrder[at]}]
                                  [] r.status = "unreadable" -> [lane EXCEPT !.at = at, !.pc = "aborted"]
                                  [] OTHER -> [lane EXCEPT !.at = at, !.result = r,
                                                           !.pc = IF lane.kind = "adopt" THEN "gate" ELSE "compile"]
    /\ UNCHANGED <<tree, pending, laneRuns, published>>

\* Adopt: nothing is asked of the provider for a type that cannot be adopted or moved.
AdoptGate ==
    /\ LaneAt("gate")
    /\ IF (~ Delegated /\ lane.result.status \in {"refused", "unsupported"}) \/ LaneType \in pending THEN TypeFails
       ELSE lane' = [lane EXCEPT !.pc = IF Delegated THEN "compile" ELSE "load"]
    /\ UNCHANGED <<tree, pending, laneRuns, published>>
LoadAdopted ==
    /\ LaneAt("load")
    /\ lane' = [lane EXCEPT !.pc = "compile"] \/ TypeFails
    /\ UNCHANGED <<tree, pending, laneRuns, published>>

\* An adopt batch asks for a pending transition once more.
MayCompile == Projects(lane.result) /\ ~ (lane.kind = "adopt" /\ LaneType \in pending)
PublishNext(compiled) ==
    lane' = [lane EXCEPT !.pc = "publish", !.config = compiled.config,
                !.changes = IF LaneOpts.derived THEN WriteDerivedTransformArtifact(LaneOpts, compiled.config)
                            ELSE PublishCompiledTransformArtifacts(tree, LaneType, LaneOpts, compiled)]
\* The whole compilation reads the tree and writes nothing.
CompileLane ==
    /\ LaneAt("compile")
    /\ \/ ~ MayCompile /\ TypeFails
       \/ /\ MayCompile
          /\ \E compiled \in {IF LaneOpts.derived THEN [config |-> lane.result.items]
                               ELSE CompileTransformArtifacts(tree, LaneType, LaneOpts, lane.result)} :
                IF HasFailed(compiled) THEN TypeFails ELSE PublishNext(compiled)
    /\ UNCHANGED <<tree, pending, laneRuns, published>>

\* What a write that is cut short leaves, since os.WriteFile begins by emptying the file: of
\* a configuration some items can still be made out, of imports the first blocks.
Remains(change) ==
    IF change.content = Null THEN {}
    ELSE {Torn(rest) : rest \in IF change.file \in {"json", "hcl", "data", "dataHcl"} THEN {<<>>, lane.config}
                                ELSE IF change.file = "imports" THEN FirstBlocks(change.content[2]) ELSE {<<>>}}
CutShort ==
    /\ lane.changes # <<>>
    /\ \E left \in Remains(Head(lane.changes)) :
          tree' = [tree EXCEPT ![LaneType][Head(lane.changes).file] = left]

\* One change of one file; an error leaves the rest undone, and of a write perhaps a part.
PublishChange ==
    /\ LaneAt("publish") /\ lane.changes # <<>>
    /\ \/ /\ tree' = [tree EXCEPT ![LaneType][Head(lane.changes).file] = Head(lane.changes).content]
          /\ lane' = [lane EXCEPT !.changes = Tail(@)]
       \/ TypeFails /\ (UNCHANGED tree \/ CutShort)
    /\ UNCHANGED <<pending, laneRuns, published>>
\* Unexpected drops fail a type whose files are written, in a transform batch that checks them.
PublishedLane ==
    /\ LaneAt("publish") /\ lane.changes = <<>>
    /\ published' = [published EXCEPT ![LaneType] = lane.config]
    /\ IF lane.kind = "transform" /\ lane.check /\ ~ Delegated /\ lane.result.drops # {} THEN TypeFails
       ELSE lane' = [NextType EXCEPT !.processed = @ \cup {LaneType}]
    /\ UNCHANGED <<tree, pending, laneRuns>>

EndLane ==
    /\ lane.pc \in {"done", "aborted"}
    /\ lane' = IdleLane
    /\ UNCHANGED <<tree, pending, laneRuns, published>>

\* The process dies between two changes, or in a write.
KillLane ==
    /\ LaneAt("publish")
    /\ lane' = IdleLane
    /\ UNCHANGED tree \/ CutShort
    /\ UNCHANGED <<pending, laneRuns, published>>

\* Environment: a transition is begun or acknowledged, and the moves of a type are taken over.
BeginTransition(t) == t \notin pending /\ pending' = pending \cup {t} /\ UNCHANGED <<tree, lane, laneRuns, published>>
AcknowledgeTransition(t) == t \in pending /\ pending' = pending \ {t} /\ UNCHANGED <<tree, lane, laneRuns, published>>
ResolveMoves(t) ==
    /\ LaneAt("idle") /\ tree[t].moves # Null
    /\ tree' = [tree EXCEPT ![t].moves = Null]
    /\ UNCHANGED <<pending, lane, laneRuns, published>>

LaneInit ==
    /\ tree \in LaneTrees /\ pending = {} /\ lane = IdleLane /\ laneRuns = 0
    /\ published = [t \in DOMAIN LaneTypes |-> Null]
LaneNext ==
    \/ \E kind \in {"transform", "adopt"}, s \in (SUBSET DOMAIN LaneTypes) \ {{}}, c \in BOOLEAN : StartLane(kind, s, c)
    \/ ReadLaneInput \/ AdoptGate \/ LoadAdopted \/ CompileLane \/ PublishChange \/ PublishedLane \/ EndLane \/ KillLane
    \/ \E t \in Transitions : BeginTransition(t) \/ AcknowledgeTransition(t)
    \/ \E t \in DOMAIN LaneTypes : ResolveMoves(t)

-----------------------------------------------------------------------------

\* A reference a lane wrote can be resolved: whatever was killed or failed in between, the
\* sidecar of its referent, if it can be read, still has the key.  Alternate spaces are not
\* guarded this way.  (assertNoLookupKeyStranding and the retirement guard.)
TokensResolve == TokensResolveIn(tree)

\* The imports of a type are never written over, not even in part, before the moves from what
\* they read as to what is written are on disk; and imports that cannot be read stay.  So a
\* killed run is followed by one that finds the same moves, or refuses.  What a cut left of
\* imports is all they read as: moves of blocks it took away are not found any more.  (The
\* order of PublishCompiledTransformArtifacts, ParseGeneratedImports.)
EvidenceComesFirst ==
    [][\A t \in DOMAIN tree :
          LET old == tree[t].imports new == tree'[t].imports
          IN  old # Null /\ new # Null /\ new # old
              => /\ old[2] # Null
                 /\ LET moves == DeriveImportMoves(old[2], Head(lane.changes).content[2]).moves
                    IN  moves = {} \/ tree'[t].moves = Whole(moves)]_lnvars

\* A finished batch accounts for every selected type once; a processed type's configuration
\* is the one that was published, under one name: the file of the other format is gone.
BatchAccounts ==
    LaneAt("done") =>
        /\ lane.processed \cup lane.skipped \cup lane.failed = lane.selected
        /\ lane.processed \cap lane.failed = {} /\ lane.skipped \cap (lane.processed \cup lane.failed) = {}
        /\ \A t \in lane.processed :
              LET o == LaneTypes[t]
              IN  tree[t][ConfigFile(o)] = Whole(published[t]) /\ tree[t][StaleConfigFile(o)] = Null

\* What the lanes promise whoever reads the tree, in every state: a committed reference can
\* be resolved, and a batch that ends accounts for each selected type and its files
\* (RunTransformBatch, RunAdoptBatch).
LanesKeepTheirWord == TokensResolve /\ BatchAccounts

\* No batch begins to write a type whose move transition is pending: "must be applied and
\* acknowledged before transform or adopt can run" (assertNoPendingMoves).
PendingMovesHold == [][LaneAt("compile") /\ lane'.pc = "publish" => LaneType \notin pending]_lnvars
=============================================================================
