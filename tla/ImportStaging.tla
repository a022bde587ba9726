---------------------------- MODULE ImportStaging ----------------------------
(***************************************************************************)
(* `iw stage-imports` and `iw unstage-imports`                             *)
(* (go/internal/adopt/import_staging.go, import_filter.go).                *)
(*                                                                         *)
(* Staging walks the artifacts of the selected roots and copies each       *)
(* generated file beside the root it belongs to, through a temporary name  *)
(* and a rename.  With StateAware it first asks Terraform for the state    *)
(* and stages only the imports the state lacks.  Generators rewrite the    *)
(* sources, applies grow the state, and a kill may come before any step.   *)
(***************************************************************************)
EXTENDS Integers, Sequences, FiniteSets, SequencesExt, Absent

CONSTANTS
    StagedTypes,     \* the members of the selected roots in the order of the loops, a sequence
    StagedRootOf,    \* StagedRootOf[t]: the root that type t is a member of
    StagedReferents,   \* types without import identity
    WithoutDirectory,\* roots that gen-env has not made
    RemoteRoots,     \* roots whose main.tf declares a backend
    TornFile,            \* the content of a file that a direct write cut short
    Keys,            \* keys of imports
    MaxStagings,     \* bound on the commands run
    MaxDisturbances  \* bound on the changes by generators and applies

Kinds == {"imports", "moves"}
Types == Range(StagedTypes)
Files == [type : Types, kind : Kinds]

ASSUME StagingAssumption ==
    /\ StagedTypes \in Seq(Types) /\ IsInjective(StagedTypes)
    /\ DOMAIN StagedRootOf = Types
    /\ StagedReferents \subseteq Types
    /\ WithoutDirectory \cup RemoteRoots \subseteq Range(StagedRootOf)
    /\ Null # TornFile
    /\ \A keys \in SUBSET Keys : keys # Null /\ keys # TornFile
    /\ MaxStagings \in Nat /\ MaxDisturbances \in Nat

VARIABLES
    generated,  \* generated[f]: Null, TornFile or the keys a generated file lists
    stagedFile, \* stagedFile[f]: the same for the copy in the root's directory
    leftTemp,   \* the files whose temporary name is still there
    managed,    \* managed[t]: the keys of the type in the Terraform state
    st,         \* the running command
    stHistory   \* history: runs and disturbances so far, whether any source was torn

stvars == <<generated, stagedFile, leftTemp, managed, st, stHistory>>

Contents == {Null, TornFile} \cup ((SUBSET Keys) \ {{}})

\* The artifacts in the order of the loops: roots, members, imports before moves.
ArtifactAt(n) == [type |-> StagedTypes[(n + 1) \div 2], kind |-> IF n % 2 = 1 THEN "imports" ELSE "moves"]
Artifacts == 2 * Len(StagedTypes)

NoStaging == [pc |-> "idle", aware |-> FALSE, backend |-> FALSE, i |-> 1, sources |-> 0,
              staged |-> 0, removed |-> 0, text |-> Null,
              listed |-> [t \in Types |-> Null]]

file == ArtifactAt(st.i)
root == StagedRootOf[file.type]
StagingAt(pc) == st.pc = pc /\ st.i <= Artifacts

NextArtifact(next) == st' = [next EXCEPT !.i = st.i + 1, !.pc = "artifact", !.text = Null]
StagingFails == st' = [st EXCEPT !.pc = "failed"]
QuietFiles == UNCHANGED <<generated, stagedFile, leftTemp, managed, stHistory>>

-----------------------------------------------------------------------------
(* stage-imports *)

StartStaging(aware, backend) ==
    /\ st.pc \in {"idle", "done", "unstaged", "failed", "killed"} /\ stHistory.runs < MaxStagings
    /\ stHistory' = [stHistory EXCEPT !.runs = @ + 1]
    /\ st' = [NoStaging EXCEPT !.aware = aware, !.backend = backend,
                !.pc = IF Types # {} /\ Types \subseteq StagedReferents THEN "done" ELSE "artifact"]
    /\ UNCHANGED <<generated, stagedFile, leftTemp, managed>>

\* A missing source is passed over, whatever was staged from it before; so is a
\* source whose root has no directory, but it counts as a source.
ConsiderArtifact ==
    /\ StagingAt("artifact")
    /\ IF generated[file] = Null THEN NextArtifact(st)
       ELSE IF root \in WithoutDirectory
            THEN NextArtifact([st EXCEPT !.sources = @ + 1])
            ELSE st' = [st EXCEPT !.sources = @ + 1,
                          !.pc = IF st.aware /\ file.kind = "imports" THEN "init" ELSE "open"]
    /\ QuietFiles

\* A remote backend needs BACKEND_CONFIG; terraform init may fail as well.
InitializeStaging ==
    /\ StagingAt("init")
    /\ \/ (root \in RemoteRoots => st.backend) /\ st' = [st EXCEPT !.pc = "list"]
       \/ StagingFails
    /\ QuietFiles

ListState ==
    /\ StagingAt("list")
    /\ \/ st' = [st EXCEPT !.listed[file.type] = managed[file.type], !.pc = "filter"]
       \/ StagingFails
    /\ QuietFiles

\* FilterGeneratedImports: only a canonical file is filtered, and the survivors
\* are rendered again.  An empty delta is not a file.
FilterGeneratedImports(text, addresses) == text \ addresses

FilterImports ==
    /\ StagingAt("filter")
    /\ LET text == generated[file]
       IN  IF text \in {Null, TornFile} THEN StagingFails
           ELSE LET delta == FilterGeneratedImports(text, st.listed[file.type])
                IN  st' = [st EXCEPT !.text = IF delta = {} THEN Null ELSE delta,
                             !.pc = IF delta = {} THEN "remove" ELSE "create"]
    /\ QuietFiles

\* Mutant: an empty delta leaves the copy of an earlier run where it is.
KeepManaged ==
    /\ StagingAt("remove")
    /\ NextArtifact(st)
    /\ UNCHANGED <<generated, stagedFile, leftTemp, managed, stHistory>>

RemoveManaged ==
    /\ StagingAt("remove")
    /\ \/ /\ stagedFile' = [stagedFile EXCEPT ![file] = Null]
          /\ NextArtifact(st)
       \/ StagingFails /\ UNCHANGED stagedFile
    /\ UNCHANGED <<generated, leftTemp, managed, stHistory>>

\* A plain copy opens its source before it creates the temporary name; io.Copy
\* reads it afterwards.
OpenSource ==
    /\ StagingAt("open")
    /\ IF generated[file] = Null THEN StagingFails ELSE st' = [st EXCEPT !.pc = "create"]
    /\ QuietFiles

CreateTemporary ==
    /\ StagingAt("create")
    /\ \/ st' = [st EXCEPT !.pc = "copy"] /\ leftTemp' = leftTemp \cup {file}
       \/ StagingFails /\ UNCHANGED leftTemp
    /\ UNCHANGED <<generated, stagedFile, managed, stHistory>>

\* What io.Copy reads is the source at that moment; one that was unlinked since it
\* was opened still has its content, here any that the file may have.
CopyToTemporary ==
    /\ StagingAt("copy")
    /\ \/ /\ st.text = Null
          /\ \E text \in IF generated[file] = Null THEN Contents \ {Null, TornFile} ELSE {generated[file]} :
                st' = [st EXCEPT !.text = text, !.pc = "rename"]
       \/ st.text # Null /\ st' = [st EXCEPT !.pc = "rename"]
       \/ st' = [st EXCEPT !.pc = "abort"]
    /\ QuietFiles

\* chmod, stat and close of the temporary file, the check that its name still leads
\* to it, and the rename: the commit point, whose success nothing takes back.
PublishStagingArtifact ==
    /\ StagingAt("rename")
    /\ \/ /\ stagedFile' = [stagedFile EXCEPT ![file] = st.text]
          /\ leftTemp' = leftTemp \ {file}
          /\ NextArtifact([st EXCEPT !.staged = @ + 1])
       \/ st' = [st EXCEPT !.pc = "abort"] /\ UNCHANGED <<stagedFile, leftTemp>>
    /\ UNCHANGED <<generated, managed, stHistory>>

\* The temporary name is removed, if that is possible.
AbortCopy ==
    /\ StagingAt("abort")
    /\ leftTemp' \in {leftTemp, leftTemp \ {file}}
    /\ StagingFails
    /\ UNCHANGED <<generated, stagedFile, managed, stHistory>>

\* NO_IMPORT_ARTIFACTS when no artifact had a source.
EndStaging ==
    /\ st.pc = "artifact" /\ st.i > Artifacts
    /\ st' = [st EXCEPT !.pc = IF st.sources = 0 THEN "failed" ELSE "done"]
    /\ QuietFiles

-----------------------------------------------------------------------------
(* unstage-imports *)

StartUnstaging ==
    /\ st.pc \in {"idle", "done", "unstaged", "failed", "killed"} /\ stHistory.runs < MaxStagings
    /\ stHistory' = [stHistory EXCEPT !.runs = @ + 1]
    /\ st' = [NoStaging EXCEPT !.pc = "unstage"]
    /\ UNCHANGED <<generated, stagedFile, leftTemp, managed>>

\* Only the two known names of each member, only in directories that exist.
UnstageArtifact ==
    /\ StagingAt("unstage")
    /\ \/ /\ root \notin WithoutDirectory
          /\ stagedFile' = [stagedFile EXCEPT ![file] = Null]
          /\ st' = [st EXCEPT !.i = @ + 1, !.removed = @ + (IF stagedFile[file] = Null THEN 0 ELSE 1)]
       \/ root \in WithoutDirectory /\ st' = [st EXCEPT !.i = @ + 1] /\ UNCHANGED stagedFile
       \/ root \notin WithoutDirectory /\ StagingFails /\ UNCHANGED stagedFile
    /\ UNCHANGED <<generated, leftTemp, managed, stHistory>>

EndUnstaging ==
    /\ st.pc = "unstage" /\ st.i > Artifacts
    /\ st' = [st EXCEPT !.pc = "unstaged"]
    /\ QuietFiles

-----------------------------------------------------------------------------
(* The others *)

KillStaging ==
    /\ st.pc \notin {"idle", "done", "unstaged", "failed", "killed"}
    /\ st' = [st EXCEPT !.pc = "killed"]
    /\ QuietFiles

\* A generator writes or removes a source; its direct write may be cut short.
Regenerate(f) ==
    /\ stHistory.disturbances < MaxDisturbances
    /\ \E text \in Contents \ {generated[f]} :
          /\ generated' = [generated EXCEPT ![f] = text]
          /\ stHistory' = [stHistory EXCEPT !.disturbances = @ + 1, !.torn = @ \/ text = TornFile]
    /\ UNCHANGED <<stagedFile, leftTemp, managed, st>>

\* terraform apply brings the staged imports of a type into its state.
ApplyImports(t) ==
    LET staged == stagedFile[[type |-> t, kind |-> "imports"]]
    IN  /\ stHistory.disturbances < MaxDisturbances
        /\ staged \notin {Null, TornFile} /\ ~ staged \subseteq managed[t]
        /\ managed' = [managed EXCEPT ![t] = @ \cup staged]
        /\ stHistory' = [stHistory EXCEPT !.disturbances = @ + 1]
        /\ UNCHANGED <<generated, stagedFile, leftTemp, st>>

-----------------------------------------------------------------------------
StagingInit ==
    /\ generated = [f \in Files |-> Null]
    /\ stagedFile = [f \in Files |-> Null]
    /\ leftTemp = {}
    /\ managed = [t \in Types |-> {}]
    /\ st = NoStaging
    /\ stHistory = [runs |-> 0, disturbances |-> 0, torn |-> FALSE]

StageStep ==
    \/ \E aware, backend \in BOOLEAN : StartStaging(aware, backend)
    \/ ConsiderArtifact \/ InitializeStaging \/ ListState \/ FilterImports \/ RemoveManaged
    \/ OpenSource \/ CreateTemporary \/ CopyToTemporary \/ PublishStagingArtifact \/ AbortCopy
    \/ EndStaging \/ StartUnstaging \/ UnstageArtifact \/ EndUnstaging \/ KillStaging

StagingNext ==
    \/ StageStep
    \/ \E f \in Files : Regenerate(f)
    \/ \E t \in Types : ApplyImports(t)

-----------------------------------------------------------------------------
(* Properties *)

\* A copy is whole or absent: staging itself never cuts one, whichever step fails
\* and whenever it is killed (import_staging.go:440, the rename is the commit).
CopiesAreWhole == \A f \in Files : stagedFile[f] = TornFile => stHistory.torn

\* Temporary names are left by a kill or a failed removal, never by a success of a
\* first run.
NothingIsLeftBySuccess ==
    stHistory.runs = 1 /\ st.pc \in {"done", "unstaged"} => leftTemp = {}

\* When a state-aware run ends, what is staged for a type whose state it listed is
\* without what the state held: an import that was applied is not planned again,
\* also when its copy was staged by an earlier run (import_staging.go:610).
NothingManagedIsStaged ==
    st.pc = "done" =>
        \A t \in Types :
            LET staged == stagedFile[[type |-> t, kind |-> "imports"]]
            IN  st.listed[t] # Null /\ staged # Null => staged \cap st.listed[t] = {}

\* The counts tell the truth: a run that reports staged files left a file for each.
CountsAreTrue ==
    st.pc = "done" =>
        /\ st.staged <= st.sources
        /\ st.staged <= Cardinality({f \in Files : stagedFile[f] # Null})

\* Staging as its callers rely on it: every staged copy is whole, a first run that succeeds
\* leaves no temporary name, no staged import names what the state already manages, and the
\* reported counts are those of files that exist (StageImports, UnstageImports).
StagingIsSound ==
    CopiesAreWhole /\ NothingIsLeftBySuccess /\ NothingManagedIsStaged /\ CountsAreTrue
=============================================================================
