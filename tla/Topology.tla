------------------------------ MODULE Topology ------------------------------
(***************************************************************************)
(* Which types there are, which of them a command works on and in which    *)
(* order, where their files are, and which root a changed path concerns    *)
(* (go/internal/roots, deployment, refedges, transform/selection.go).      *)
(*                                                                         *)
(* A pack root is a record: resources (what the registry says of each      *)
(* type) and manifests (the active ones, in order).  A path is the         *)
(* sequence of its segments, normalised, relative to the workspace.        *)
(***************************************************************************)
EXTENDS Values, Absent

CONSTANTS
    SelectorPath,   \* SelectorPath[s]: provider and bare name of a selector that has a slash
    FileNames       \* FileNames[n]: the resource and suffix of a file name that has a known suffix

ConfigSuffixes == {".generated.expressions.json", ".expressions.json", ".auto.tfvars.json",
                   ".auto.tfvars", ".lookup.json"}
ImportSuffixes == {"_imports.tf", "_moves.tf"}

Types(pack) == DOMAIN pack.resources
Generated(pack) == {t \in Types(pack) : pack.resources[t].generate}
DataReferents(pack) == {t \in Types(pack) : pack.resources[t].dataReferent}
Derives(pack, t) == pack.resources[t].derive # Null
GeneratedNonDerived(pack, t) == t \in Generated(pack) /\ ~ Derives(pack, t)

\* The later of two manifests wins, per field for references and per type for lookups.
MergedReferences(pack) ==
    FoldLeft(LAMBDA merged, manifest :
        [t \in DOMAIN merged \cup DOMAIN manifest.references |->
            LET old == IF t \in DOMAIN merged THEN merged[t] ELSE <<>>
                new == IF t \in DOMAIN manifest.references THEN manifest.references[t] ELSE <<>>
            IN  [f \in DOMAIN old \cup DOMAIN new |-> IF f \in DOMAIN new THEN new[f] ELSE old[f]]],
        <<>>, pack.manifests)
MergedLookupSources(pack) ==
    FoldLeft(LAMBDA merged, manifest :
        [t \in DOMAIN merged \cup DOMAIN manifest.lookups |->
            IF t \in DOMAIN manifest.lookups THEN manifest.lookups[t] ELSE merged[t]],
        <<>>, pack.manifests)
\* The id fields beside "id" by which other types know this one.
ReferentAlternateSpaces(pack, type) ==
    UNION {{MergedReferences(pack)[t][f].idField : f \in
              {g \in DOMAIN MergedReferences(pack)[t] :
                  /\ MergedReferences(pack)[t][g].referent = type
                  /\ MergedReferences(pack)[t][g].idField # Null}} : t \in DOMAIN MergedReferences(pack)}

-----------------------------------------------------------------------------
(* Selectors *)

\* A type, a product, or provider/name; a type that is no target is refused even when a
\* product has its name.
ExpandSelector(pack, s, direct) ==
    IF s \in direct THEN {s}
    ELSE IF s \in Types(pack) THEN {}
    ELSE LET product == {t \in Generated(pack) : pack.resources[t].product = s}
             path == IF s \in DOMAIN SelectorPath
                     THEN {t \in Generated(pack) :
                             <<pack.resources[t].provider, pack.resources[t].bare>> = SelectorPath[s]}
                     ELSE {}
         IN  IF product # {} THEN product ELSE path
ExpandWith(pack, selectors, direct) ==
    IF selectors = {} THEN [types |-> Generated(pack)]
    ELSE IF \E s \in selectors : ExpandSelector(pack, s, direct) = {} THEN Failed("unknown selector")
    ELSE [types |-> UNION {ExpandSelector(pack, s, direct) : s \in selectors}]
ExpandRootTargets(pack, selectors) == ExpandWith(pack, selectors, Generated(pack) \cup DataReferents(pack))
ExpandGeneratedResources(pack, selectors) == ExpandWith(pack, selectors, Generated(pack))

-----------------------------------------------------------------------------
(* The order in which types are transformed *)

Referents(pack, t, selected) ==
    LET references == MergedReferences(pack)
    IN  IF t \notin DOMAIN references THEN {}
        ELSE {references[t][f].referent : f \in DOMAIN references[t]} \cap selected
ReadyTypes(pack, selected, placed) ==
    {t \in selected \ placed : Referents(pack, t, selected) \subseteq placed}
\* The smallest type all of whose selected referents are placed; none of them, a cycle.
PlaceNext(pack, selected) ==
    [order \in Seq(selected) |->
        LET ready == ReadyTypes(pack, selected, Range(order))
        IN  IF ready = {} THEN order ELSE Append(order, Foremost(ready))]
PlacedTypes(pack, selected) == Iterated(PlaceNext(pack, selected), <<>>)[Cardinality(selected)]
ReferenceOrder(pack, selected) ==
    LET referrers == {t \in selected : t \in DOMAIN MergedReferences(pack)}
    IN  IF referrers \cap DataReferents(pack) # {} THEN Failed("data referent refers")
        ELSE IF Range(PlacedTypes(pack, selected)) # selected THEN Failed("cycle")
        ELSE [order |-> PlacedTypes(pack, selected)]

\* Named data referents are added to what the other selectors expand to.
SelectTransformResources(pack, selectors) ==
    LET data == selectors \cap DataReferents(pack)
        expanded == IF selectors # {} /\ selectors = data THEN [types |-> {}]
                    ELSE ExpandGeneratedResources(pack, selectors \ data)
    IN  IF HasFailed(expanded) THEN expanded
        ELSE ReferenceOrder(pack, expanded.types \cup IF selectors = {} THEN DataReferents(pack) ELSE data)
TransformSourceType(pack, t) ==
    IF ~ pack.resources[t].dataReferent /\ Derives(pack, t) THEN pack.resources[t].derive.from ELSE t

-----------------------------------------------------------------------------
(* The deployment: where files are *)

ReferenceBindingMode(dep, provider) ==
    IF provider \in DOMAIN dep.crossState /\ ~ dep.crossState[provider] THEN "disabled" ELSE "cross_state"
ConfigDir(dep, tenant) == dep.overlay \o <<"config", tenant>>
ImportsDir(dep, tenant) == dep.overlay \o <<"imports", tenant>>
EnvsDir(dep, tenant) == dep.overlay \o <<"envs", tenant>>
ModuleDir(dep) == IF dep.moduleDir # Null THEN dep.moduleDir
                  ELSE IF dep.overlay = <<>> THEN <<"modules">> ELSE dep.overlay \o <<"modules", "default">>
FileOf(type, suffix) == CHOOSE n \in DOMAIN FileNames : FileNames[n] = [resource |-> type, suffix |-> suffix]
ConfigExt(dep) == IF dep.hcl THEN ".auto.tfvars" ELSE ".auto.tfvars.json"
StaleExt(dep) == IF dep.hcl THEN ".auto.tfvars.json" ELSE ".auto.tfvars"

\* The files of one type; a data referent has its config in a directory of its own.
ComputeTransformArtifactPaths(dep, type, tenant, dataLane) ==
    LET config == ConfigDir(dep, tenant)
        lane == IF dataLane THEN config \o <<"data">> ELSE config
        imports == ImportsDir(dep, tenant)
    IN  [config |-> Append(lane, FileOf(type, ConfigExt(dep))),
         staleConfig |-> Append(lane, FileOf(type, StaleExt(dep))),
         legacyConfig |-> Append(config, FileOf(type, ConfigExt(dep))),
         legacyStaleConfig |-> Append(config, FileOf(type, StaleExt(dep))),
         generatedBindings |-> Append(config, FileOf(type, ".generated.expressions.json")),
         imports |-> Append(imports, FileOf(type, "_imports.tf")),
         moves |-> Append(imports, FileOf(type, "_moves.tf")),
         lookup |-> config \o <<"lookups", FileOf(type, ".lookup.json")>>,
         legacyLookup |-> Append(config, FileOf(type, ".lookup.json"))]

-----------------------------------------------------------------------------
(* Roots: every type that can have state is a root of its own *)

ResolveRoots(pack, dep) ==
    IF ~ DOMAIN dep.crossState \subseteq {pack.resources[t].provider : t \in Types(pack)}
    THEN Failed("undeclared provider")
    ELSE [members |-> [label \in Generated(pack) \cup DataReferents(pack) |-> {label}]]
SelectedRoots(roots, selected, all) ==
    IF HasFailed(roots) THEN roots
    ELSE IF HasFailed(selected) THEN selected
    ELSE [members |-> [l \in {m \in DOMAIN roots.members : all \/ roots.members[m] \cap selected.types # {}} |->
                          roots.members[l]]]
RootTopologyFromIndex(pack, dep, selectors) ==
    SelectedRoots(ResolveRoots(pack, dep), ExpandRootTargets(pack, selectors), selectors = {})
RootOf(topology, t) == CHOOSE l \in DOMAIN topology.members : t \in topology.members[l]

\* The cross-state edges, and the roots each root needs first.
QualifiedEdges(pack, dep) ==
    LET references == MergedReferences(pack)
    IN  UNION {{[field |-> f, referrer |-> t, referent |-> references[t][f].referent] : f \in DOMAIN references[t]} :
                 t \in {u \in DOMAIN references \cap Types(pack) :
                          ReferenceBindingMode(dep, pack.resources[u].provider) = "cross_state"}}
Cyclic(needs) ==
    LET reach[n \in Nat] == IF n = 0 THEN needs
                            ELSE [l \in DOMAIN needs |-> reach[n - 1][l] \cup
                                     UNION {needs[m] : m \in reach[n - 1][l] \cap DOMAIN needs}]
    IN  \E l \in DOMAIN needs : l \in reach[Cardinality(DOMAIN needs)][l]
AcyclicEdges(edges, needs) ==
    IF Cyclic(needs) THEN Failed("cycle")
    ELSE [edges |-> edges, dependencies |-> needs, outputs |-> [l \in {e.referent : e \in edges} |-> {l}]]
StatefulEdges(pack, edges) ==
    IF \E e \in edges : ~ GeneratedNonDerived(pack, e.referrer) THEN Failed("derived referrer")
    ELSE IF \E e \in edges : ~ (GeneratedNonDerived(pack, e.referent) \/ e.referent \in DataReferents(pack))
    THEN Failed("referent without state")
    ELSE AcyclicEdges({e \in edges : e.referrer # e.referent},
             [l \in Generated(pack) \cup DataReferents(pack) |->
                 {e.referent : e \in {d \in edges : d.referrer = l /\ d.referent # l}}])
ResolveEdges(pack, dep) ==
    IF \E t \in DOMAIN MergedReferences(pack) \cap Types(pack) : t \in DataReferents(pack)
    THEN Failed("data referent refers")
    ELSE StatefulEdges(pack, QualifiedEdges(pack, dep))

\* discover, planRootsFromTopologies: the selected roots that have a directory, and how much
\* of a saved plan each holds.
ArtifactState(files) ==
    CASE {"tfplan", "tfplan.sources"} \subseteq files -> "complete"
      [] {"tfplan", "tfplan.sources"} \cap files # {} -> "incomplete"
      [] OTHER -> "absent"
PlanRootDataReferents(pack, dep, label) ==
    {e.referent : e \in {d \in ResolveEdges(pack, dep).edges : d.referrer = label}} \cap DataReferents(pack)
Discovered(selected, tree) == {d \in tree : d.label \in DOMAIN selected.members}
PlanRoots(pack, dep, selectors, tree) ==
    LET selected == RootTopologyFromIndex(pack, dep, selectors)
    IN  IF HasFailed(selected) THEN selected
        ELSE IF HasFailed(ResolveEdges(pack, dep)) THEN ResolveEdges(pack, dep)
        ELSE [roots |-> {[tenant |-> d.tenant, label |-> d.label, members |-> selected.members[d.label],
                          dataReferents |-> PlanRootDataReferents(pack, dep, d.label),
                          artifacts |-> ArtifactState(d.files)] :
                             d \in Discovered(selected, tree)}]

-----------------------------------------------------------------------------
(* The roots a changed path concerns *)

RelativeUnder(path, base) ==
    IF Len(path) > Len(base) /\ SubSeq(path, 1, Len(base)) = base
    THEN {SubSeq(path, Len(base) + 1, Len(path))} ELSE {}
ResourceFromArtifact(name, suffixes, resources) ==
    IF name \in DOMAIN FileNames /\ FileNames[name].suffix \in suffixes
    THEN {FileNames[name].resource} \cap resources ELSE {}

ConfigMatch(dep, path, resources) ==
    UNION {IF Len(r) = 2 THEN ResourceFromArtifact(r[2], ConfigSuffixes, resources)
           ELSE IF Len(r) = 3 /\ r[2] \in {"data", "lookups"}
           THEN ResourceFromArtifact(r[3], ConfigSuffixes, resources) ELSE {} :
             r \in RelativeUnder(path, Append(dep.overlay, "config"))}
ImportsMatch(dep, path, resources) ==
    UNION {IF Len(r) = 2 THEN ResourceFromArtifact(r[2], ImportSuffixes, resources) ELSE {} :
             r \in RelativeUnder(path, Append(dep.overlay, "imports"))}
EnvsMatch(dep, path, topology) ==
    UNION {IF Len(r) >= 2 /\ r[2] \in DOMAIN topology.members THEN topology.members[r[2]] ELSE {} :
             r \in RelativeUnder(path, Append(dep.overlay, "envs"))}
ModuleMatch(dep, path, resources) ==
    UNION {{r[1]} \cap resources : r \in RelativeUnder(path, ModuleDir(dep))}
\* Mutant: a lookup is not looked for in its own directory.
ScopeWithoutLookups(pack, dep, deploymentPath, path) ==
    LET topology == RootTopologyFromIndex(pack, dep, {})
        resources == UNION {topology.members[l] : l \in DOMAIN topology.members}
    IN  (IF path = deploymentPath THEN resources ELSE {})
        \cup UNION {IF Len(r) = 2 THEN ResourceFromArtifact(r[2], ConfigSuffixes, resources) ELSE {} :
                      r \in RelativeUnder(path, Append(dep.overlay, "config"))}
        \cup ImportsMatch(dep, path, resources) \cup EnvsMatch(dep, path, topology)
        \cup ModuleMatch(dep, path, resources)
ScopeOnePath(pack, dep, deploymentPath, path) ==
    LET topology == RootTopologyFromIndex(pack, dep, {})
        resources == UNION {topology.members[l] : l \in DOMAIN topology.members}
    IN  (IF path = deploymentPath THEN resources ELSE {})
        \cup ConfigMatch(dep, path, resources) \cup ImportsMatch(dep, path, resources)
        \cup EnvsMatch(dep, path, topology) \cup ModuleMatch(dep, path, resources)

\* A path that concerns no resource is listed as unmatched, never dropped.
ChangedPathScope(pack, dep, deploymentPath, paths) ==
    LET topology == RootTopologyFromIndex(pack, dep, {})
        matched(p) == ScopeOnePath(pack, dep, deploymentPath, p)
        rootsOf(p) == {RootOf(topology, t) : t \in matched(p)}
    IN  IF HasFailed(topology) THEN topology
        ELSE [unmatched |-> {p \in paths : matched(p) = {}},
              roots |-> [l \in UNION {rootsOf(p) : p \in paths} |->
                           [members |-> topology.members[l],
                            matched |-> topology.members[l] \cap UNION {matched(p) : p \in paths},
                            paths |-> {p \in paths : l \in rootsOf(p)}]]]

-----------------------------------------------------------------------------
(* What the topology promises *)

\* Nothing a lane or gen-env writes or reads for a type can change without the type's root
\* being named by the scope of the change: each of its files in either format, the places
\* where older versions left them, its module and the directory of its root.  And the lanes
\* take every selected type once, after all that it refers to, so that a referrer is made
\* against the lookups of the same run (scopeOnePath, computeTransformArtifactPaths,
\* referenceOrder).
ScopeCoversFiles(pack, dep, deploymentPath, tenant, selected) ==
    LET topology == RootTopologyFromIndex(pack, dep, {})
        types == UNION {topology.members[l] : l \in DOMAIN topology.members}
        artifacts(t) == ComputeTransformArtifactPaths(dep, t, tenant, pack.resources[t].dataReferent)
        files(t) == {artifacts(t)[a] : a \in DOMAIN artifacts(t)}
                    \cup {Append(ModuleDir(dep), t) \o <<"main.tf">>, EnvsDir(dep, tenant) \o <<RootOf(topology, t), "main.tf">>}
        ordered == ReferenceOrder(pack, selected)
    IN  /\ ~ HasFailed(topology) => \A t \in types : \A p \in files(t) :
              LET scope == ChangedPathScope(pack, dep, deploymentPath, {p})
              IN  RootOf(topology, t) \in DOMAIN scope.roots /\ scope.unmatched = {}
        /\ ~ HasFailed(ordered) =>
              /\ Range(ordered.order) = selected /\ Len(ordered.order) = Cardinality(selected)
              /\ \A i, j \in DOMAIN ordered.order :
                    ordered.order[j] \in Referents(pack, ordered.order[i], selected) => j < i
=============================================================================
