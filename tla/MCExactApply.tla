---------------------------- MODULE MCExactApply ----------------------------
(***************************************************************************)
(* TLC instance of ExactApply.  The resource type has one set attribute    *)
(* and one scalar; the documents are few and differ in what the gates say. *)
(***************************************************************************)
EXTENDS ExactApply

MCOrder1 == <<"r1">>
MCOrder2 == <<"r1", "r2">>

MCContents == {"v1", "v2"}
MCInitOne  == {"v1"}
MCSaveFull == [save : {TRUE}, importsOnly : {FALSE}]
MCSave     == [save : {TRUE}, importsOnly : BOOLEAN]
MCStaged   == [c \in MCContents |-> IF c = "v1" THEN {"a1"} ELSE {"a2"}]

MCAttrs     == {"s", "m"}
MCSetAttrs  == {"m"}
MCScalars   == {"n1", "n2"}
MCRound     == [x \in MCScalars |-> x]

Base == [s |-> "n1", m |-> <<"n1", "n2">>]

Record(address, actions, importing, after) ==
    [address |-> address, actions |-> actions, importing |-> importing,
     before |-> Base, after |-> after, unknown |-> {}, identity |-> FALSE,
     sensitivity |-> FALSE]

Import(a)   == Record(a, <<"create">>, TRUE, Base)
Set(a)      == Record(a, <<"update">>, FALSE, [Base EXCEPT !.s = "n2"])
Reorder(a)  == Record(a, <<"update">>, FALSE, [Base EXCEPT !.m = <<"n2", "n1">>])
Destroy(a)  == Record(a, <<"delete">>, FALSE, Base)

Document(complete, changes, drift) ==
    [complete |-> complete, errored |-> FALSE, outputsOK |-> TRUE,
     changes |-> changes, drift |-> drift]

\* An update that only some policy tolerates.
MCEditBodies == {Document(TRUE, {Set("a1")}, {})}

\* A full plan that needs --allow-destroy, a targeted import of nothing but its
\* target, and one that Terraform extended with a write.
MCTwoBodies == {Document(TRUE, {Import("a1")}, {Destroy("a2")}),
                Document(FALSE, {Import("a1")}, {}),
                Document(FALSE, {Reorder("a1")}, {})}

MCPolicies == {{}, {<<"s">>}}
MCNoPolicy == {Null}
MCConsents == [allowDestroy : BOOLEAN, allowPlanChanges : BOOLEAN, allowNonMain : {TRUE}]
MCStrict   == [allowDestroy : {FALSE}, allowPlanChanges : {FALSE}, allowNonMain : {FALSE}]
=============================================================================
