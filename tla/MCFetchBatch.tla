---------------------------- MODULE MCFetchBatch ----------------------------
(***************************************************************************)
(* TLC instance of FetchBatch: four resources of two products that share   *)
(* an identity and of one without an adapter; the first has two, so        *)
(* that the rotation of the workers matters.                               *)
(***************************************************************************)
EXTENDS FetchBatch

MCWanted    == <<"r1", "r2", "r3", "r4">>
MCProductOf == [r \in Resources |-> CASE r \in {"r1", "r2"} -> "zia"
                                      [] r = "r3" -> "zpa"
                                      [] r = "r4" -> "ztc"]
MCProducts  == <<"zcc", "zia", "zpa", "ztc">>
MCIdentity  == [p \in ProductSet |-> IF p = "ztc" THEN "ztc" ELSE "oneapi"]

\* At most two resources get another answer than their items.
MCAnswers ==
    {a \in [Resources -> Kinds] : Cardinality({r \in Resources : a[r] # "items"}) <= 2}

\* No file, or a file of an earlier run, whole or cut short.
MCLeftovers ==
    {[r \in Resources |-> Null]} \cup
    {[r \in Resources |-> [run |-> 0, torn |-> t]] : t \in BOOLEAN}
=============================================================================
