----------------------------- MODULE FetchBatch -----------------------------
(***************************************************************************)
(* `iw fetch`: one batch of resource requests                              *)
(* (go/internal/collectors/rest.go, fetchResourcesBatch).                  *)
(*                                                                         *)
(* A batch authenticates once per identity, removes the destination file   *)
(* of every selected resource, lets workers request and write them, and    *)
(* reports when all are done.  What the server answers and what the disk   *)
(* refuses is drawn when a run starts, so that the report of a run can be  *)
(* compared with what the answers alone determine.                         *)
(***************************************************************************)
EXTENDS Integers, Sequences, FiniteSets, Absent

CONSTANTS
    Wanted,         \* the selected resources, in registry order
    ProductOf,      \* ProductOf[r]: the product of a resource
    Products,       \* all products, in the order of FetchProducts
    IdentityOf,     \* IdentityOf[p]: the authentication identity of a product
    Adapters,       \* products with a collector adapter
    Concurrencies,  \* values of the concurrency option
    Answers,        \* what becomes of a request: a set of [resources -> Kinds]
    Leftovers,      \* what earlier runs may have left at the destinations
    MaxRuns         \* bound on the runs

Resources  == {Wanted[i] : i \in 1..Len(Wanted)}
ProductSet == {Products[i] : i \in 1..Len(Products)}
Identities == {IdentityOf[p] : p \in ProductSet}

\* The body is written, cannot be written, or the status is optional or not.
Kinds == {"items", "unwritable", "optional", "error"}

ASSUME FetchAssumption ==
    /\ Wanted \in Seq(Resources) /\ Products \in Seq(ProductSet)
    /\ \A i, j \in 1..Len(Wanted) : Wanted[i] = Wanted[j] => i = j
    /\ \A i, j \in 1..Len(Products) : Products[i] = Products[j] => i = j
    /\ \A r \in Resources : ProductOf[r] \in ProductSet
    /\ Adapters \subseteq ProductSet
    /\ Concurrencies \subseteq Nat \ {0}
    /\ Answers \subseteq [Resources -> Kinds]
    /\ Leftovers \subseteq [Resources -> {Null} \cup [run : {0}, torn : BOOLEAN]]
    /\ MaxRuns \in Nat
    /\ Null \notin [run : Nat, torn : BOOLEAN] \cup {"processed", "skipped", "failed", "fatal"}

VARIABLES
    disk,     \* disk[r]: Null or [run, torn], the destination file of r
    run,      \* number of the run
    answer,   \* what the server and the disk will say in this run
    noAuth,   \* the identities that cannot authenticate in this run
    fb,       \* the batch: pc, options, authentication and result
    outcome,  \* outcome[i]: Null or the kind recorded for Wanted[i]
    lanes,    \* lanes[n]: the items, by index, in the queue of a product
    cursor,   \* the lane to look at next
    worker,   \* worker[w]: Null before the first, [pc, item]
    waits     \* history: takes since lane n was served last

vars == <<disk, run, answer, noAuth, fb, outcome, lanes, cursor, worker, waits>>

oracle == <<run, answer, noAuth>>
queues == <<lanes, cursor, worker, waits>>

Indices == 1..Len(Wanted)
Workers == 1..Len(Wanted)

Empty == [pc |-> "idle", concurrency |-> 1, k |-> 1, asked |-> <<>>, authed |-> {},
          failedAuth |-> {}, products |-> {}, failedProducts |-> {},
          requested |-> FALSE, processed |-> {}, skipped |-> {}, failed |-> {}, err |-> 0]

Unrecorded == [i \in Indices |-> Null]
NoWorker   == [w \in Workers |-> [pc |-> "none", item |-> 0]]

-----------------------------------------------------------------------------
(* Authentication *)

StartFetch(concurrency, answers, refusing) ==
    /\ fb.pc \in {"idle", "done", "failed", "crashed"} /\ run < MaxRuns
    /\ run' = run + 1
    /\ answer' = answers
    /\ noAuth' = refusing
    /\ fb' = [Empty EXCEPT !.pc = IF Len(Products) = 0 THEN "mkdir" ELSE "auth",
                           !.concurrency = concurrency]
    /\ outcome' = Unrecorded
    /\ lanes' = <<>> /\ cursor' = 1 /\ worker' = NoWorker /\ waits' = <<>>
    /\ UNCHANGED disk

Needed(p) == \E r \in Resources : ProductOf[r] = p

NextProduct(next) ==
    fb' = [next EXCEPT !.k = IF fb.k = Len(Products) THEN 1 ELSE fb.k + 1,
                       !.pc = IF fb.k = Len(Products) THEN "mkdir" ELSE "auth"]

\* One product: an identity is asked for once, by its first product; what
\* became of it holds for the others.
Authenticate ==
    LET p  == Products[fb.k]
        id == IdentityOf[p]
        failing == [fb EXCEPT !.failedAuth = @ \cup {id}, !.failedProducts = @ \cup {p}]
        asking  == [fb EXCEPT !.asked = Append(@, id)]
        fresh   == Needed(p) /\ id \notin fb.failedAuth \cup fb.authed
    IN  /\ fb.pc = "auth"
        /\ CASE ~Needed(p) -> NextProduct(fb)
             [] Needed(p) /\ id \in fb.failedAuth ->
                  NextProduct([fb EXCEPT !.failedProducts = @ \cup {p}])
             [] Needed(p) /\ id \in fb.authed ->
                  NextProduct([fb EXCEPT !.products = @ \cup {p}])
             [] fresh /\ p \notin Adapters -> NextProduct(failing)
             [] fresh /\ p \in Adapters ->
                  NextProduct(IF id \in noAuth
                              THEN [failing EXCEPT !.asked = asking.asked]
                              ELSE [asking EXCEPT !.authed = @ \cup {id},
                                                  !.products = @ \cup {p}])
        /\ UNCHANGED <<disk, oracle, outcome, queues>>

-----------------------------------------------------------------------------
(* The barrier and the queues *)

BatchFails(i) == fb' = [fb EXCEPT !.pc = "failed", !.err = i]

MakeDirectory ==
    /\ fb.pc = "mkdir"
    /\ \/ fb' = [fb EXCEPT !.pc = IF Len(Wanted) = 0 THEN "assign" ELSE "invalidate"]
       \/ BatchFails(0)
    /\ UNCHANGED <<disk, oracle, outcome, queues>>

\* removeFetchFileIfPresent of one destination after the other.
Invalidate ==
    /\ fb.pc = "invalidate"
    /\ \/ /\ disk' = [disk EXCEPT ![Wanted[fb.k]] = Null]
          /\ fb' = [fb EXCEPT !.k = @ + 1,
                              !.pc = IF fb.k = Len(Wanted) THEN "assign" ELSE "invalidate"]
       \/ BatchFails(0) /\ UNCHANGED disk
    /\ UNCHANGED <<oracle, outcome, queues>>

\* A resource is requested when its product has an adapter and is authenticated.
Reachable(i) == ProductOf[Wanted[i]] \in fb.products \cap Adapters

Work == {i \in Indices : Reachable(i)}

\* The queues of runFetchWorkers: one of everything, or one for each product that has
\* items.  Items are queued in registry order, so a queue is taken from its least index.
LanesOf(concurrency) ==
    LET ofProduct(n) == {i \in Work : ProductOf[Wanted[i]] = Products[n]}
    IN  IF concurrency = 1 THEN [n \in {1} |-> Work]
        ELSE [n \in {m \in 1..Len(Products) : ofProduct(m) # {}} |-> ofProduct(n)]

\* Resources of products that failed get their outcome, the others a place.
Assign ==
    /\ fb.pc = "assign"
    /\ outcome' = [i \in Indices |-> IF Reachable(i) THEN Null ELSE "failed"]
    /\ lanes' = LanesOf(fb.concurrency)
    /\ waits' = [n \in DOMAIN lanes' |-> 0]
    /\ worker' = [w \in Workers |->
                    [pc |-> IF w <= fb.concurrency /\ w <= Cardinality(Work) THEN "free" ELSE "ended",
                     item |-> 0]]
    /\ fb' = [fb EXCEPT !.pc = "work"]
    /\ UNCHANGED <<disk, oracle, cursor>>

-----------------------------------------------------------------------------
(* The workers *)

\* The lanes the rotation comes to before n; after the last one it begins again.
Before(m, n) == IF cursor <= n THEN cursor <= m /\ m < n ELSE cursor <= m \/ m < n

\* The first lane from the cursor on that is not empty.
Turn(n) == \A m \in DOMAIN lanes : Before(m, n) => lanes[m] = {}

TakeItem(w, n, i) ==
    /\ i \in lanes[n] /\ \A j \in lanes[n] : i <= j
    /\ lanes' = [lanes EXCEPT ![n] = @ \ {i}]
    /\ worker' = [worker EXCEPT ![w] = [pc |-> "fetching", item |-> i]]
    /\ waits' = [m \in DOMAIN lanes |-> IF m = n \/ lanes[m] = {} THEN 0 ELSE waits[m] + 1]
    /\ fb' = [fb EXCEPT !.requested = TRUE]
    /\ UNCHANGED <<disk, oracle, outcome>>

\* Mutant: the search starts at the first lane every time.
TurnFromFirst(w, n) ==
    /\ fb.pc = "work" /\ worker[w].pc = "free"
    /\ \A m \in DOMAIN lanes : m < n => lanes[m] = {}
    /\ \E i \in lanes[n] : TakeItem(w, n, i)
    /\ UNCHANGED cursor

\* take, under the mutex; the request goes out.
Take(w, n) ==
    /\ fb.pc = "work" /\ worker[w].pc = "free"
    /\ Turn(n)
    /\ \E i \in lanes[n] : TakeItem(w, n, i)
    /\ cursor' = n + 1

TakeNothing(w) ==
    /\ fb.pc = "work" /\ worker[w].pc = "free"
    /\ \A n \in DOMAIN lanes : lanes[n] = {}
    /\ worker' = [worker EXCEPT ![w].pc = "ended"]
    /\ UNCHANGED <<disk, oracle, fb, outcome, lanes, cursor, waits>>

\* A single worker stops at a fatal outcome, several go on.
AfterOutcome(kind) ==
    IF kind = "fatal" /\ fb.concurrency = 1 THEN "ended" ELSE "free"

Record(w, kind) ==
    /\ outcome' = [outcome EXCEPT ![worker[w].item] = kind]
    /\ worker' = [worker EXCEPT ![w] = [pc |-> AfterOutcome(kind), item |-> 0]]

\* FetchResource returns.
Respond(w) ==
    LET kind == answer[Wanted[worker[w].item]]
    IN  /\ fb.pc = "work" /\ worker[w].pc = "fetching"
        /\ CASE kind = "optional" -> Record(w, "skipped")
             [] kind = "error" -> Record(w, "failed")
             [] kind \in {"items", "unwritable"} ->
                  worker' = [worker EXCEPT ![w].pc = "writing"] /\ UNCHANGED outcome
        /\ UNCHANGED <<disk, oracle, fb, lanes, cursor, waits>>

\* os.WriteFile truncates before it writes.
OpenFile(w) ==
    /\ fb.pc = "work" /\ worker[w].pc = "writing"
    /\ \/ /\ disk' = [disk EXCEPT ![Wanted[worker[w].item]] = [run |-> run, torn |-> TRUE]]
          /\ worker' = [worker EXCEPT ![w].pc = "opened"]
          /\ UNCHANGED outcome
       \/ /\ answer[Wanted[worker[w].item]] = "unwritable"
          /\ Record(w, "fatal")
          /\ UNCHANGED disk
    /\ UNCHANGED <<oracle, fb, lanes, cursor, waits>>

\* Mutant: a file not written to its end counts as processed.
WriteUnflushed(w) ==
    /\ fb.pc = "work" /\ worker[w].pc = "opened"
    /\ \/ /\ answer[Wanted[worker[w].item]] = "items"
          /\ \/ disk' = [disk EXCEPT ![Wanted[worker[w].item]] = [run |-> run, torn |-> FALSE]]
             \/ UNCHANGED disk
          /\ Record(w, "processed")
       \/ /\ answer[Wanted[worker[w].item]] = "unwritable"
          /\ Record(w, "fatal")
          /\ UNCHANGED disk
    /\ UNCHANGED <<oracle, fb, lanes, cursor, waits>>

WriteFile(w) ==
    /\ fb.pc = "work" /\ worker[w].pc = "opened"
    /\ \/ /\ answer[Wanted[worker[w].item]] = "items"
          /\ disk' = [disk EXCEPT ![Wanted[worker[w].item]] = [run |-> run, torn |-> FALSE]]
          /\ Record(w, "processed")
       \/ /\ answer[Wanted[worker[w].item]] = "unwritable"
          /\ Record(w, "fatal")
          /\ UNCHANGED disk
    /\ UNCHANGED <<oracle, fb, lanes, cursor, waits>>

\* wg.Wait
Join ==
    /\ fb.pc = "work" /\ \A w \in Workers : worker[w].pc = "ended"
    /\ fb' = [fb EXCEPT !.pc = "emit"]
    /\ UNCHANGED <<disk, oracle, outcome, queues>>

-----------------------------------------------------------------------------
(* The report *)

Recorded(kind) == {Wanted[i] : i \in {j \in Indices : outcome[j] = kind}}

\* Mutant: the error reported is the last fatal one.
EmitLast ==
    /\ fb.pc = "emit"
    /\ \/ \E i \in Indices :
            /\ outcome[i] \in {"fatal", Null}
            /\ \A j \in (i + 1)..Len(Wanted) : outcome[j] \notin {"fatal", Null}
            /\ BatchFails(i)
       \/ /\ \A i \in Indices : outcome[i] \notin {"fatal", Null}
          /\ fb' = [fb EXCEPT !.pc = "done", !.processed = Recorded("processed"),
                              !.skipped = Recorded("skipped"), !.failed = Recorded("failed")]
    /\ UNCHANGED <<disk, oracle, outcome, queues>>

\* The outcomes in registry order: the first fatal or missing one is the result.
Emit ==
    /\ fb.pc = "emit"
    /\ \/ \E i \in Indices :
            /\ outcome[i] \in {"fatal", Null}
            /\ \A j \in 1..(i - 1) : outcome[j] \notin {"fatal", Null}
            /\ BatchFails(i)
       \/ /\ \A i \in Indices : outcome[i] \notin {"fatal", Null}
          /\ fb' = [fb EXCEPT !.pc = "done", !.processed = Recorded("processed"),
                              !.skipped = Recorded("skipped"), !.failed = Recorded("failed")]
    /\ UNCHANGED <<disk, oracle, outcome, queues>>

FetchCrash ==
    /\ fb.pc \notin {"idle", "done", "failed", "crashed"}
    /\ fb' = [fb EXCEPT !.pc = "crashed"]
    /\ UNCHANGED <<disk, oracle, outcome, queues>>

-----------------------------------------------------------------------------
Init ==
    /\ disk \in Leftovers
    /\ run = 0
    /\ answer = [r \in Resources |-> "items"] /\ noAuth = {}
    /\ fb = Empty
    /\ outcome = Unrecorded
    /\ lanes = <<>> /\ cursor = 1 /\ worker = NoWorker /\ waits = <<>>

WorkerStep(w) ==
    \/ \E n \in DOMAIN lanes : Take(w, n)
    \/ TakeNothing(w) \/ Respond(w) \/ OpenFile(w) \/ WriteFile(w)

BatchStep ==
    \/ Authenticate \/ MakeDirectory \/ Invalidate \/ Assign \/ Join \/ Emit

Next ==
    \/ \E c \in Concurrencies, a \in Answers, ids \in SUBSET Identities :
         StartFetch(c, a, ids)
    \/ BatchStep
    \/ \E w \in Workers : WorkerStep(w)
    \/ FetchCrash

Spec == Init /\ [][Next]_vars

-----------------------------------------------------------------------------
(* Properties *)

\* From the first request on, no selected destination holds what an earlier run
\* left: a later transform or adopt cannot mistake it for this fetch, even if
\* this fetch fails or is killed (the barrier of fetchResourcesBatch).
NothingStale ==
    fb.requested =>
      \A r \in Resources : disk[r] # Null => disk[r].run = run

\* What a run reports is what the disk holds: a processed resource's file is
\* complete and of this run, a skipped or failed one has none, and a file cut
\* short is left only by a run that ends in an error.
ReportMatchesDisk ==
    /\ fb.pc = "done" =>
         \A r \in Resources :
           disk[r] = (IF r \in fb.processed THEN [run |-> run, torn |-> FALSE] ELSE Null)
    /\ fb.pc = "failed" =>
         \A r \in Resources :
           disk[r] # Null /\ disk[r].torn => disk[r].run < run \/ answer[r] = "unwritable"

\* The files tell the run: none is stale once a request is out, and the report
\* agrees with them, through failed writes and kills.
FilesTellTheRun == NothingStale /\ ReportMatchesDisk

\* The first product of an identity decides for all of them.
Authenticated(p) ==
    /\ p \in Adapters /\ IdentityOf[p] \notin noAuth
    /\ \E n \in 1..Len(Products) :
         /\ Needed(Products[n]) /\ Products[n] \in Adapters
         /\ IdentityOf[Products[n]] = IdentityOf[p]
         /\ \A m \in 1..(n - 1) :
              Needed(Products[m]) => IdentityOf[Products[m]] # IdentityOf[p]

Answered(kinds) == {r \in Resources : Authenticated(ProductOf[r]) /\ answer[r] \in kinds}

\* The report is a function of the answers, and no identity is asked for twice:
\* whatever the concurrency and the
\* order in which the workers ran, the same resources are processed, skipped
\* and failed, and an error names the first resource, in registry order, whose
\* file could not be written (the collect-then-emit barrier).
ReportIsOrderFree ==
    /\ fb.pc = "done" =>
         /\ fb.processed = Answered({"items"})
         /\ fb.skipped = Answered({"optional"})
         /\ fb.failed = Resources \ Answered({"items", "optional"})
    /\ fb.pc = "failed" /\ fb.err # 0 =>
         /\ Wanted[fb.err] \in Answered({"unwritable"})
         /\ \A j \in 1..(fb.err - 1) : Wanted[j] \notin Answered({"unwritable"})
    /\ \A m, n \in 1..Len(fb.asked) : m # n => fb.asked[m] # fb.asked[n]

\* A product with resources left is passed over at most once for each other
\* product: a large one cannot keep the workers to itself.
NoProductStarves ==
    \A n \in DOMAIN lanes : waits[n] < Cardinality(DOMAIN lanes)

\* The comment above runFetchWorkers (rest.go:1146-1154): every outcome is
\* captured, and the concurrency never influences which one an item receives.
EveryItemHasItsOutcome ==
    fb.pc = "emit" => \A i \in Indices : outcome[i] # Null
=============================================================================
