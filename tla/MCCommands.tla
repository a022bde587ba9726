------------------------------ MODULE MCCommands ------------------------------
(***************************************************************************)
(* TLC instance of the commands that change something step by step, each   *)
(* with the faults its environment brings: staging, the import oracle,     *)
(* refresh, the two lanes and the HTTP transport.  They share no state, so *)
(* a behaviour runs one of them, the one "running" names.                  *)
(***************************************************************************)
EXTENDS ImportStaging, OracleImport, LaneRun, ReferenceTokens, Refresh, HttpTransport

VARIABLE running

MCEmpty == <<>>

-----------------------------------------------------------------------------
(* Staging: two roots, the second without a directory and with a type that *)
(* has no import identity; the first has its state remote.                 *)
MCStagedTypes  == <<"a", "b">>
MCStagedRootOf == [t \in {"a", "b"} |-> IF t = "a" THEN "r1" ELSE "r2"]

-----------------------------------------------------------------------------
(* The oracle: two types, each object with an identity of its own or one   *)
(* shared, two keys with one instance name, one or two providers.          *)
CONSTANTS k1, k2, k3, x, y, z, T, U
MCInstanceName == k1 :> "n1" @@ k2 :> "n2" @@ k3 :> "n2"
Ask(type, ids, provider, fills, rawItems) ==
    [type |-> type, ids |-> ids, provider |-> provider, fills |-> fills, rawItems |-> rawItems]
MCOracleRequests ==
    {<<Ask(T, k1 :> x @@ k2 :> y, "p", TRUE, TRUE), Ask(U, k1 :> x, "p", FALSE, FALSE)>>,
     <<Ask(T, k1 :> x, "p", FALSE, FALSE), Ask(U, <<>>, "q", FALSE, FALSE)>>,
     <<Ask(T, <<>>, "p", FALSE, FALSE)>>,
     <<Ask(T, k1 :> x, "p", FALSE, FALSE), Ask(U, k1 :> x, "q", FALSE, FALSE)>>,
     <<Ask(T, k1 :> x, "p", FALSE, FALSE), Ask(T, k2 :> x, "p", FALSE, FALSE)>>,
     <<Ask(T, k1 :> x, "p", TRUE, FALSE)>>,
     <<Ask(T, k1 :> x @@ k2 :> x, "p", FALSE, FALSE)>>,
     <<Ask(T, k2 :> x @@ k3 :> y, "p", FALSE, FALSE)>>}

-----------------------------------------------------------------------------
(* Refresh: plans that move recorded values only, and one for each way not *)
(* to; roots with and without a config file and a backend.                 *)
StateOnly == [supported |-> TRUE, complete |-> TRUE, errored |-> FALSE, readable |-> TRUE, executable |-> FALSE,
              changes |-> {[actions |-> <<"no-op">>, importing |-> FALSE]}, drift |-> {"a"}]
MCRefreshPlans ==
    {StateOnly, [StateOnly EXCEPT !.drift = {}], [StateOnly EXCEPT !.supported = FALSE],
     [StateOnly EXCEPT !.complete = FALSE], [StateOnly EXCEPT !.errored = TRUE],
     [StateOnly EXCEPT !.readable = FALSE], [StateOnly EXCEPT !.executable = TRUE],
     [StateOnly EXCEPT !.changes = {[actions |-> <<"no-op">>, importing |-> TRUE]}],
     [StateOnly EXCEPT !.changes = {[actions |-> <<"delete">>, importing |-> FALSE]}]}
Configured(c, b) == [configured |-> c, backend |-> b]
MCRefreshRoots ==
    {<<Configured(TRUE, FALSE), Configured(FALSE, FALSE), Configured(TRUE, TRUE)>>, <<Configured(FALSE, FALSE)>>}

-----------------------------------------------------------------------------
(* The lanes: b refers to a, whose one object is renamed, lost, or joined  *)
(* by another from pull to pull; an older version left a lookup and HCL.   *)
MCNameOrder == <<"a", "a_id", "b", "i1", "i2", "id", "k1", "k2", "m", "name", "val">>
MCLaneOrder == <<"a", "b">>
RefersToA == [f \in {"a_id"} |-> [segments |-> <<"a_id">>, referent |-> "a", space |-> "id"]]
MCLaneTypes ==
    [t \in {"a", "b"} |->
        [dataLane |-> FALSE, derived |-> FALSE, hcl |-> FALSE, nameField |-> IF t = "a" THEN "name" ELSE Null,
         spaces |-> {}, template |-> <<"id">>, removeLookup |-> t = "a",
         context |-> [mode |-> "cross_state", generated |-> {"a", "b"}, derived |-> {}, dataReferents |-> {},
                      references |-> IF t = "b" THEN RefersToA ELSE <<>>, roots |-> [s \in {"a", "b"} |-> s],
                      setBlocks |-> <<>>, tokensOnly |-> FALSE]]]
Ready(items, originals, drops) == [status |-> "ready", items |-> items, originals |-> originals, drops |-> drops]
NotReady(status) == [status |-> status]
OfA(ids) == Ready([k \in DOMAIN ids |-> "name" :> Text("x")],
                  [k \in DOMAIN ids |-> ("id" :> Text(ids[k])) @@ ("name" :> Text("x"))], {})
OfB(i) == Ready("m" :> ("a_id" :> Text(i)), "m" :> (("id" :> Text("m")) @@ ("a_id" :> Text(i))),
                IF i = "i1" THEN {"x"} ELSE {})
MCPullResults ==
    [t \in {"a", "b"} |->
        IF t = "a" THEN {OfA("k1" :> "i1"), OfA("k2" :> "i1"), OfA(("k1" :> "i1") @@ ("k2" :> "i2")),
                         NotReady("absent"), NotReady("unreadable")}
        ELSE {OfB("i1"), OfB("i2"), NotReady("refused")}]
NoTree == [t \in {"a", "b"} |-> NoFiles]
MCLaneTrees ==
    {NoTree, [t \in {"a", "b"} |->
        IF t = "a" THEN [NoFiles EXCEPT !.oldLookup = Whole([NoLookup EXCEPT !.idByKey = "k1" :> "i1", !.keyById = "i1" :> "k1"])]
        ELSE [NoFiles EXCEPT !.hcl = Whole(<<>>)]]}

-----------------------------------------------------------------------------
(* HTTP: three origins on two hosts and one of a host outside their        *)
(* domain, a sign-in with a body and a page.                               *)
MCHostOf == ("a" :> "h1") @@ ("b" :> "h1") @@ ("c" :> "h2") @@ ("o" :> "h3")
MCUnder == "d" :> {"h1", "h2"}
MCHttpRequests ==
    {[origin |-> "a", auth |-> FALSE, cookie |-> FALSE, body |-> TRUE],
     [origin |-> "a", auth |-> TRUE, cookie |-> FALSE, body |-> FALSE]}

-----------------------------------------------------------------------------
CommandsInit ==
    /\ running \in {"staging", "oracle", "refresh", "lanes", "http"}
    /\ StagingInit /\ OracleInit /\ RefreshInit /\ LaneInit /\ HttpInit
    /\ running # "lanes" => tree = NoTree
CommandsNext ==
    /\ UNCHANGED running
    /\ \/ running = "staging" /\ StagingNext /\ UNCHANGED <<orvars, rfvars, lnvars, htvars>>
       \/ running = "oracle" /\ OracleNext /\ UNCHANGED <<stvars, rfvars, lnvars, htvars>>
       \/ running = "refresh" /\ RefreshNext /\ UNCHANGED <<stvars, orvars, lnvars, htvars>>
       \/ running = "lanes" /\ LaneNext /\ UNCHANGED <<stvars, orvars, rfvars, htvars>>
       \/ running = "http" /\ HttpNext /\ UNCHANGED <<stvars, orvars, rfvars, lnvars>>
CommandsSpec ==
    CommandsInit /\ [][CommandsNext]_<<running, stvars, orvars, rfvars, lnvars, htvars>> /\ HttpFairness
=============================================================================
