---------------------------- MODULE MCAssessment ----------------------------
(***************************************************************************)
(* TLC instances of Assessment: few documents, chosen to differ in what    *)
(* the classification says of them.                                        *)
(***************************************************************************)
EXTENDS Assessment, TLC

MCOrder1 == <<"r1">>
MCOrder2 == <<"r1", "r2">>

MCContents == {"v1", "v2"}
MCInitOne  == {"v1"}
MCSaveFull == [save : {TRUE}, importsOnly : {FALSE}]
MCSave     == [save : {TRUE}, importsOnly : BOOLEAN]
MCStaged   == [c \in MCContents |-> IF c = "v1" THEN {"a1"} ELSE {"a2"}]

MCAttrs     == {"s", "m"}
MCSetAttrs  == {"m"}
MCScalars   == {"n1", "n2"}
MCRound     == [x \in MCScalars |-> x]

Base == [s |-> "n1", m |-> <<"n1", "n2">>]

Record(address, actions, importing, after) ==
    [address |-> address, actions |-> actions, importing |-> importing,
     before |-> Base, after |-> after, unknown |-> {}, identity |-> FALSE,
     sensitivity |-> FALSE]

Import(a)   == Record(a, <<"create">>, TRUE, Base)
Set(a)      == Record(a, <<"update">>, FALSE, [Base EXCEPT !.s = "n2"])
Reorder(a)  == Record(a, <<"update">>, FALSE, [Base EXCEPT !.m = <<"n2", "n1">>])
Nothing(a)  == Record(a, <<"no-op">>, FALSE, Base)

Document(complete, changes, drift) ==
    [complete |-> complete, errored |-> FALSE, outputsOK |-> TRUE,
     changes |-> changes, drift |-> drift]

\* An update that only some policy tolerates, beside drift.
Update == Document(TRUE, {Set("a1")}, {Set("a2")})

\* Targeted plans: the import, nothing left to do, an update of the target.
MCFullBodies  == {Update}
MCMixedBodies == {Update, Document(FALSE, {Import("a1")}, {}),
                  Document(FALSE, {Nothing("a1")}, {}),
                  Document(FALSE, {Reorder("a1")}, {})}

\* The contents of the deployment file differ in nothing but being different.
MCSymmetry == Permutations(Controls)

MCPolicies == {{}, {<<"s">>}}
MCPolicy   == {{<<"s">>}}
MCAdopt    == [adoptable : {TRUE}, scoped : {FALSE}]
MCBoth     == MCAdopt \cup [adoptable : {FALSE}, scoped : {TRUE}]
=============================================================================
