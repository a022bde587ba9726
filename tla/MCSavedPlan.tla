---------------------------- MODULE MCSavedPlan ----------------------------
(***************************************************************************)
(* TLC instance of SavedPlan.  Two contents per input file are enough for  *)
(* a change away and back; a content of the configuration decides what is  *)
(* staged for import and whether a remote backend is declared.             *)
(***************************************************************************)
EXTENDS SavedPlan

MCOrder1   == <<"r1">>
MCContents == {"v1", "v2"}
MCInit     == {"v1", "v2", Null}
MCAll      == [save : BOOLEAN, importsOnly : BOOLEAN]
MCStaged   == [c \in MCContents |-> IF c = "v1" THEN {"a1"} ELSE {}]

\* What a plan does is not this module's concern: one complete document and
\* one confined to the staged address.
Document(complete, changes) ==
    [complete |-> complete, errored |-> FALSE, outputsOK |-> TRUE,
     changes |-> changes, drift |-> {}]

MCBodies ==
    {Document(TRUE, {}),
     Document(FALSE, {[address |-> "a1", actions |-> <<"no-op">>, importing |-> TRUE]})}
=============================================================================
