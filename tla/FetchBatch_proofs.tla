--------------------------- MODULE FetchBatch_proofs ---------------------------
(***************************************************************************)
(* What `iw fetch` promises, proved for any selection, products, answers,  *)
(* concurrency and interleaving of the workers.                            *)
(***************************************************************************)
EXTENDS FetchBatch, FiniteSetTheorems, TLAPS

Batches ==
    [pc : {"idle", "auth", "mkdir", "invalidate", "assign", "work", "emit", "done", "failed", "crashed"},
     concurrency : Nat \ {0}, k : Nat, asked : Seq(Identities), authed : SUBSET Identities,
     failedAuth : SUBSET Identities, products : SUBSET ProductSet, failedProducts : SUBSET ProductSet,
     requested : BOOLEAN, processed : SUBSET Resources, skipped : SUBSET Resources,
     failed : SUBSET Resources, err : Nat]
FetchType ==
    /\ disk \in [Resources -> {Null} \cup [run : Nat, torn : BOOLEAN]]
    /\ run \in Nat /\ answer \in [Resources -> Kinds]
    /\ fb \in Batches
    /\ outcome \in [Indices -> {Null, "processed", "skipped", "failed", "fatal"}]
    /\ worker \in [Workers -> [pc : {"none", "free", "fetching", "writing", "opened", "ended"}, item : Nat]]
    /\ DOMAIN lanes \subseteq 1..Len(Products) \cup {1}
    /\ lanes \in [DOMAIN lanes -> SUBSET Indices]
    /\ waits \in [DOMAIN lanes -> Nat] /\ cursor \in Nat

\* The first product of an identity decides for all: what is known of the identities when
\* the products before k are done.
First(n) == Needed(Products[n])
            /\ \A m \in 1..(n - 1) : Needed(Products[m]) => IdentityOf[Products[m]] # IdentityOf[Products[n]]
Accepted(n, refusing) == Products[n] \in Adapters /\ IdentityOf[Products[n]] \notin refusing
Decided(k, refusing, authed, failedAuth, products) ==
    /\ \A id \in Identities :
          /\ id \in authed <=>
                \E n \in 1..(k - 1) : First(n) /\ Accepted(n, refusing) /\ IdentityOf[Products[n]] = id
          /\ id \in failedAuth <=>
                \E n \in 1..(k - 1) : First(n) /\ ~Accepted(n, refusing) /\ IdentityOf[Products[n]] = id
    /\ \A p \in ProductSet :
          p \in products <=> \E n \in 1..(k - 1) : Products[n] = p /\ Needed(p) /\ IdentityOf[p] \in authed
    /\ \A n \in 1..(k - 1) : Needed(Products[n]) => IdentityOf[Products[n]] \in authed \cup failedAuth
    /\ authed \cap failedAuth = {}
AfterAuth == {"mkdir", "invalidate", "assign", "work", "emit"}
Identified ==
    /\ fb.pc = "auth" => fb.k \in 1..Len(Products) /\ Decided(fb.k, noAuth, fb.authed, fb.failedAuth, fb.products)
    /\ fb.pc \in AfterAuth => Decided(Len(Products) + 1, noAuth, fb.authed, fb.failedAuth, fb.products)
AskedOnce ==
    /\ \A m, n \in 1..Len(fb.asked) : m # n => fb.asked[m] # fb.asked[n]
    /\ fb.pc = "auth" => \A n \in 1..Len(fb.asked) : fb.asked[n] \in fb.authed \cup fb.failedAuth

\* No request is out before every destination of the selection was removed.
Cleared ==
    /\ \A r \in Resources : disk[r] # Null => disk[r].run <= run
    /\ fb.pc \in {"auth", "mkdir", "invalidate"} => \A r \in Resources : disk[r] # Null => disk[r].run < run
    /\ fb.pc = "mkdir" => fb.k = 1
    /\ fb.pc = "invalidate" => fb.k \in Indices /\ \A j \in 1..(fb.k - 1) : disk[Wanted[j]] = Null
    /\ fb.pc = "assign" => \A r \in Resources : disk[r] = Null
    /\ fb.pc \in {"work", "emit"} => \A r \in Resources : disk[r] # Null => disk[r].run = run
    /\ fb.requested => fb.pc \notin {"idle", "auth", "mkdir", "invalidate", "assign"}
    /\ fb.pc \in {"auth", "mkdir", "invalidate", "assign"} => cursor = 1

\* An item waits in one queue, is with one worker or has its outcome.
Holds(w, i) == worker[w].pc \in {"fetching", "writing", "opened"} /\ worker[w].item = i
Queued(i) == \E n \in DOMAIN lanes : i \in lanes[n]
InOnePlace ==
    fb.pc \in {"work", "emit"} =>
        /\ \A i \in Indices :
              /\ outcome[i] = Null => Queued(i) \/ \E w \in Workers : Holds(w, i)
              /\ Queued(i) => outcome[i] = Null /\ \A w \in Workers : ~Holds(w, i)
        /\ \A m, n \in DOMAIN lanes : m # n => lanes[m] \cap lanes[n] = {}
        /\ \A w \in Workers : worker[w].pc \in {"fetching", "writing", "opened"} =>
              worker[w].item \in Indices /\ outcome[worker[w].item] = Null
        /\ \A v, w \in Workers, i \in Indices : Holds(v, i) /\ Holds(w, i) => v = w

\* What an item's outcome, or the worker that holds it, says of its answer and its file.
Whole == [run |-> run, torn |-> FALSE]
Torn  == [run |-> run, torn |-> TRUE]
FileOf(i) == disk[Wanted[i]]
AnswerOf(i) == answer[Wanted[i]]
OutcomesTell ==
    fb.pc \in {"work", "emit"} =>
        /\ \A i \in Indices :
              /\ outcome[i] \in {Null, "processed", "skipped", "fatal"} => Reachable(i)
              /\ outcome[i] = "processed" => AnswerOf(i) = "items" /\ FileOf(i) = Whole
              /\ outcome[i] = "skipped" => AnswerOf(i) = "optional" /\ FileOf(i) = Null
              /\ outcome[i] = "failed" => (~Reachable(i) \/ AnswerOf(i) = "error") /\ FileOf(i) = Null
              /\ outcome[i] = "fatal" => AnswerOf(i) = "unwritable" /\ FileOf(i) \in {Null, Torn}
              /\ Queued(i) => FileOf(i) = Null
        /\ \A w \in Workers :
              /\ worker[w].pc \in {"fetching", "writing"} => FileOf(worker[w].item) = Null
              /\ worker[w].pc = "opened" => FileOf(worker[w].item) = Torn
              /\ worker[w].pc \in {"writing", "opened"} => AnswerOf(worker[w].item) \in {"items", "unwritable"}

\* Items are left without an outcome only by a single worker that stopped at a fatal one.
LanesEmpty == \A n \in DOMAIN lanes : lanes[n] = {}
StoppedAtFatal ==
    /\ fb.concurrency = 1
    /\ \E f \in Indices : outcome[f] = "fatal" /\ \A n \in DOMAIN lanes : \A j \in lanes[n] : f < j
InOrder ==
    fb.pc \in {"work", "emit"} =>
        /\ fb.concurrency = 1 =>
              /\ DOMAIN lanes = {1}
              /\ \A w \in Workers : w # 1 => worker[w].pc = "ended"
              /\ \A w \in Workers : worker[w].pc \in {"fetching", "writing", "opened"} =>
                    \A n \in DOMAIN lanes : \A j \in lanes[n] : worker[w].item < j
        /\ LanesEmpty \/ StoppedAtFatal \/ (1 \in Workers /\ worker[1].pc # "ended")
        /\ fb.pc = "emit" => \A w \in Workers : worker[w].pc = "ended"

\* The lanes that the rotation has passed since it served n.
PassedSince(n, served, at) == {m \in served : IF n < at THEN n < m /\ m < at ELSE n < m \/ m < at}
Rotates == \A n \in DOMAIN lanes : waits[n] <= Cardinality(PassedSince(n, DOMAIN lanes, cursor))

\* What the report of a run that ended says of its answers and its files.
ReportTells ==
    /\ fb.pc = "done" =>
         /\ fb.processed = Answered({"items"})
         /\ fb.skipped = Answered({"optional"})
         /\ fb.failed = Resources \ Answered({"items", "optional"})
    /\ fb.pc = "failed" /\ fb.err # 0 =>
         /\ Wanted[fb.err] \in Answered({"unwritable"})
         /\ \A j \in 1..(fb.err - 1) : Wanted[j] \notin Answered({"unwritable"})

FetchInv == /\ FetchType /\ Identified /\ AskedOnce /\ Cleared /\ InOnePlace /\ OutcomesTell
            /\ InOrder /\ Rotates /\ ReportTells /\ FilesTellTheRun
-----------------------------------------------------------------------------
\* The resources and the products by their places in the registry.
LEMMA WantedIndices ==
  /\ Len(Wanted) \in Nat /\ Len(Products) \in Nat /\ Indices = 1..Len(Wanted)
  /\ \A i \in Indices : Wanted[i] \in Resources /\ ProductOf[Wanted[i]] \in ProductSet
  /\ \A r \in Resources : \E i \in Indices : Wanted[i] = r
  /\ \A i, j \in Indices : Wanted[i] = Wanted[j] => i = j
  /\ \A n \in 1..Len(Products) : Products[n] \in ProductSet /\ IdentityOf[Products[n]] \in Identities
  /\ \A p \in ProductSet : \E n \in 1..Len(Products) : Products[n] = p
  <1>1. Len(Wanted) \in Nat /\ Len(Products) \in Nat
    OBVIOUS
  <1>2. \A i \in Indices : Wanted[i] \in Resources /\ ProductOf[Wanted[i]] \in ProductSet
    BY FetchAssumption DEF Indices
  <1>3. \A r \in Resources : \E i \in Indices : Wanted[i] = r
    BY DEF Indices, Resources
  <1>4. \A i, j \in Indices : Wanted[i] = Wanted[j] => i = j
    BY FetchAssumption DEF Indices
  <1>5. \A n \in 1..Len(Products) : Products[n] \in ProductSet /\ IdentityOf[Products[n]] \in Identities
    BY DEF ProductSet, Identities
  <1>6. \A p \in ProductSet : \E n \in 1..Len(Products) : Products[n] = p
    BY DEF ProductSet
  <1> QED BY <1>2, <1>3, <1>4, <1>5, <1>6 DEF Indices

\* Before the first run nothing is asked, queued or reported.
LEMMA InitFetchInv ==
  ASSUME Init PROVE FetchInv
  <1>1. Empty \in Batches
    BY DEF Empty, Batches
  <1>2. FetchType
    <2>1. disk \in [Resources -> {Null} \cup [run : Nat, torn : BOOLEAN]]
      BY FetchAssumption DEF Init
    <2>2. \A n \in DOMAIN lanes : FALSE
      BY DEF Init
    <2>3. lanes \in [DOMAIN lanes -> SUBSET Indices] /\ waits \in [DOMAIN lanes -> Nat]
      BY DEF Init
    <2> QED BY <1>1, <2>1 DEF FetchType, Init, Kinds, Unrecorded, NoWorker
  <1>3. \A r \in Resources : disk[r] # Null => disk[r].run = 0
    BY FetchAssumption DEF Init
  <1> QED BY <1>2, <1>3 DEF Init, Empty, FetchInv, Identified, AfterAuth, AskedOnce, Cleared, InOnePlace,
          OutcomesTell, InOrder, Rotates, ReportTells, FilesTellTheRun, NothingStale, ReportMatchesDisk

\* A new run knows nothing of the one before it but its files.
LEMMA StartFetchKeeps ==
  ASSUME FetchInv, NEW c \in Concurrencies, NEW a \in Answers, NEW ids \in SUBSET Identities,
         StartFetch(c, a, ids)
  PROVE  FetchInv'
  <1> DEFINE pc == IF Len(Products) = 0 THEN "mkdir" ELSE "auth"
  <1>1. Empty \in Batches /\ c \in Nat \ {0}
    BY FetchAssumption DEF Empty, Batches
  <1>2. fb' = [Empty EXCEPT !.pc = pc, !.concurrency = c]
    BY DEF StartFetch
  <1>3. fb' \in Batches
    BY <1>1, <1>2 DEF Batches
  <1>4. /\ fb'.pc = pc /\ fb'.k = 1 /\ fb'.asked = <<>> /\ fb'.authed = {} /\ fb'.failedAuth = {}
        /\ fb'.products = {} /\ fb'.requested = FALSE
    BY <1>2 DEF Empty
  <1>5. run' = run + 1 /\ disk' = disk /\ cursor' = 1 /\ lanes' = <<>> /\ waits' = <<>> /\ noAuth' = ids
        /\ answer' = a
    BY DEF StartFetch
  <1>6. FetchType'
    <2>1. \A n \in DOMAIN lanes' : FALSE
      BY <1>5
    <2>2. lanes' \in [DOMAIN lanes' -> SUBSET Indices] /\ waits' \in [DOMAIN lanes' -> Nat]
      BY <1>5
    <2> QED BY <1>3, FetchAssumption DEF FetchInv, FetchType, StartFetch, Unrecorded,
       NoWorker
  <1>7. Identified'
    <2>1. Decided(1, noAuth', {}, {}, {})
      BY DEF Decided
    <2> QED BY <1>4, <2>1 DEF Identified, AfterAuth
  <1>8. AskedOnce'
    BY <1>4 DEF AskedOnce
  <1>9. Cleared'
    BY <1>4, <1>5 DEF Cleared, FetchInv, FetchType
  <1>10. (InOnePlace /\ OutcomesTell /\ InOrder /\ ReportTells)'
    BY <1>4 DEF InOnePlace, OutcomesTell, InOrder, ReportTells
  <1>11. Rotates'
    BY <1>5 DEF Rotates
  <1>12. FilesTellTheRun'
    BY <1>4 DEF FilesTellTheRun, NothingStale, ReportMatchesDisk
  <1> QED BY <1>6, <1>7, <1>8, <1>9, <1>10, <1>11, <1>12 DEF FetchInv

-----------------------------------------------------------------------------
(* Authentication *)

\* What the next product adds to what is known of the identities.
LEMMA DecidedNext ==
  ASSUME NEW k \in 1..Len(Products), NEW refusing, NEW authed, NEW failedAuth, NEW products,
         Decided(k, refusing, authed, failedAuth, products),
         NEW authed2 \in SUBSET Identities, NEW failedAuth2 \in SUBSET Identities, NEW products2,
         LET p  == Products[k]
             id == IdentityOf[p]
             fresh == Needed(p) /\ id \notin failedAuth \cup authed
         IN  /\ authed2 = IF fresh /\ Accepted(k, refusing) THEN authed \cup {id} ELSE authed
             /\ failedAuth2 = IF fresh /\ ~Accepted(k, refusing) THEN failedAuth \cup {id} ELSE failedAuth
             /\ products2 = IF Needed(p) /\ id \in authed2 THEN products \cup {p} ELSE products
  PROVE  Decided(k + 1, refusing, authed2, failedAuth2, products2)
  <1> DEFINE p == Products[k]
             id == IdentityOf[p]
             fresh == Needed(p) /\ id \notin failedAuth \cup authed
  <1>0. k \in Nat /\ k \in 1..k /\ 1..(k + 1 - 1) = 1..(k - 1) \cup {k} /\ p \in ProductSet /\ id \in Identities
        /\ 1..(k - 1) \subseteq 1..Len(Products) /\ k \notin 1..(k - 1)
    BY WantedIndices
  <1>1. First(k) <=> fresh
    BY DEF First, Decided
  <1>2. \A i \in Identities :
          i \in authed2 <=>
             \E n \in 1..(k + 1 - 1) : First(n) /\ Accepted(n, refusing) /\ IdentityOf[Products[n]] = i
    BY <1>1 DEF Decided
  <1>3. \A i \in Identities :
          i \in failedAuth2 <=>
             \E n \in 1..(k + 1 - 1) : First(n) /\ ~Accepted(n, refusing) /\ IdentityOf[Products[n]] = i
    BY <1>1 DEF Decided
  <1>4. \A n \in 1..(k + 1 - 1) : Needed(Products[n]) => IdentityOf[Products[n]] \in authed2 \cup failedAuth2
    BY DEF Decided
  <1>5. authed2 \cap failedAuth2 = {}
    BY DEF Decided
  <1>6. \A q \in ProductSet :
          q \in products2 <=>
             \E n \in 1..(k + 1 - 1) : Products[n] = q /\ Needed(q) /\ IdentityOf[q] \in authed2
    <2>1. \A n \in 1..(k - 1) : Needed(Products[n]) =>
             (IdentityOf[Products[n]] \in authed2 <=> IdentityOf[Products[n]] \in authed)
      BY DEF Decided
    <2> QED BY DEF Decided
  <1> QED BY <1>2, <1>3 DEF Decided

LEMMA NextProductSets ==
  ASSUME FetchType, fb.k \in 1..Len(Products), NEW b \in Batches, NextProduct(b)
  PROVE  /\ fb' \in Batches
         /\ fb'.pc = (IF fb.k = Len(Products) THEN "mkdir" ELSE "auth")
         /\ fb'.k = (IF fb.k = Len(Products) THEN 1 ELSE fb.k + 1)
         /\ fb'.asked = b.asked /\ fb'.authed = b.authed /\ fb'.failedAuth = b.failedAuth
         /\ fb'.products = b.products /\ fb'.requested = b.requested
  <1> DEFINE k == IF fb.k = Len(Products) THEN 1 ELSE fb.k + 1
             pc == IF fb.k = Len(Products) THEN "mkdir" ELSE "auth"
  <1>1. fb' = [b EXCEPT !.k = k, !.pc = pc]
    BY DEF NextProduct
  <1>2. k \in Nat
    OBVIOUS
  <1> HIDE DEF k
  <1>3. fb' \in Batches
    BY <1>1, <1>2 DEF Batches
  <1> QED BY <1>1, <1>3 DEF Batches, k

\* One product, by what becomes of it.
LEMMA AuthenticateStep ==
  ASSUME FetchInv, Authenticate
  PROVE  LET p  == Products[fb.k]
             id == IdentityOf[p]
             fresh == Needed(p) /\ id \notin fb.failedAuth \cup fb.authed
         IN  /\ fb.pc = "auth" /\ fb.k \in 1..Len(Products) /\ fb' \in Batches
             /\ fb'.pc = (IF fb.k = Len(Products) THEN "mkdir" ELSE "auth")
             /\ fb'.k = (IF fb.k = Len(Products) THEN 1 ELSE fb.k + 1)
             /\ fb'.requested = fb.requested
             /\ fb'.authed = IF fresh /\ Accepted(fb.k, noAuth) THEN fb.authed \cup {id} ELSE fb.authed
             /\ fb'.failedAuth = IF fresh /\ ~Accepted(fb.k, noAuth) THEN fb.failedAuth \cup {id} ELSE fb.failedAuth
             /\ fb'.products = IF Needed(p) /\ id \in fb'.authed THEN fb.products \cup {p} ELSE fb.products
             /\ fb'.asked = fb.asked \/ (fresh /\ fb'.asked = Append(fb.asked, id))
  <1> DEFINE p == Products[fb.k]
             id == IdentityOf[p]
             fresh == Needed(p) /\ id \notin fb.failedAuth \cup fb.authed
             failing == [fb EXCEPT !.failedAuth = @ \cup {id}, !.failedProducts = @ \cup {p}]
             asking  == [fb EXCEPT !.asked = Append(@, id)]
  <1>1. fb.pc = "auth" /\ fb.k \in 1..Len(Products) /\ fb \in Batches /\ FetchType
    BY DEF Authenticate, FetchInv, Identified, FetchType
  <1>2. p \in ProductSet /\ id \in Identities
    BY <1>1, WantedIndices
  <1>3. ~(Needed(p) /\ id \in fb.failedAuth /\ id \in fb.authed)
    BY <1>1 DEF FetchInv, Identified, Decided
  <1>4. CASE ~Needed(p) /\ NextProduct(fb)
    BY <1>1, <1>4, NextProductSets
  <1>5. CASE Needed(p) /\ id \in fb.failedAuth /\ NextProduct([fb EXCEPT !.failedProducts = @ \cup {p}])
    <2> DEFINE b == [fb EXCEPT !.failedProducts = @ \cup {p}]
    <2>1. b \in Batches /\ b.asked = fb.asked /\ b.authed = fb.authed /\ b.failedAuth = fb.failedAuth
          /\ b.products = fb.products /\ b.requested = fb.requested
      BY <1>1, <1>2 DEF Batches
    <2> HIDE DEF b
    <2>2. NextProduct(b)
      BY <1>5 DEF b
    <2> QED BY <1>1, <1>3, <1>5, <2>1, <2>2, NextProductSets
  <1>6. CASE Needed(p) /\ id \in fb.authed /\ NextProduct([fb EXCEPT !.products = @ \cup {p}])
    <2> DEFINE b == [fb EXCEPT !.products = @ \cup {p}]
    <2>1. b \in Batches /\ b.asked = fb.asked /\ b.authed = fb.authed /\ b.failedAuth = fb.failedAuth
          /\ b.products = fb.products \cup {p} /\ b.requested = fb.requested
      BY <1>1, <1>2 DEF Batches
    <2> HIDE DEF b
    <2>2. NextProduct(b)
      BY <1>6 DEF b
    <2> QED BY <1>1, <1>6, <2>1, <2>2, NextProductSets
  <1>7. failing \in Batches /\ failing.asked = fb.asked /\ failing.authed = fb.authed
        /\ failing.failedAuth = fb.failedAuth \cup {id} /\ failing.products = fb.products
        /\ failing.requested = fb.requested
    BY <1>1, <1>2 DEF Batches
  <1>8. asking \in Batches /\ asking.asked = Append(fb.asked, id) /\ asking.authed = fb.authed
        /\ asking.failedAuth = fb.failedAuth /\ asking.products = fb.products /\ asking.requested = fb.requested
    <2>1. Append(fb.asked, id) \in Seq(Identities)
      BY <1>1, <1>2 DEF Batches
    <2> QED BY <1>1, <2>1 DEF Batches
  <1> HIDE DEF failing, asking
  <1>9. CASE fresh /\ p \notin Adapters /\ NextProduct(failing)
    BY <1>1, <1>7, <1>9, NextProductSets DEF Accepted
  <1>10. CASE fresh /\ p \in Adapters /\ id \in noAuth /\ NextProduct([failing EXCEPT !.asked = asking.asked])
    <2> DEFINE b == [failing EXCEPT !.asked = asking.asked]
    <2>1. b \in Batches /\ b.asked = Append(fb.asked, id) /\ b.authed = fb.authed
          /\ b.failedAuth = fb.failedAuth \cup {id} /\ b.products = fb.products /\ b.requested = fb.requested
      BY <1>7, <1>8 DEF Batches
    <2> HIDE DEF b
    <2>2. NextProduct(b)
      BY <1>10 DEF b
    <2> QED BY <1>1, <1>10, <2>1, <2>2, NextProductSets DEF Accepted
  <1>11. CASE fresh /\ p \in Adapters /\ id \notin noAuth
              /\ NextProduct([asking EXCEPT !.authed = @ \cup {id}, !.products = @ \cup {p}])
    <2> DEFINE b == [asking EXCEPT !.authed = @ \cup {id}, !.products = @ \cup {p}]
    <2>1. b \in Batches /\ b.asked = Append(fb.asked, id) /\ b.authed = fb.authed \cup {id}
          /\ b.failedAuth = fb.failedAuth /\ b.products = fb.products \cup {p} /\ b.requested = fb.requested
      BY <1>2, <1>8 DEF Batches
    <2> HIDE DEF b
    <2>2. NextProduct(b)
      BY <1>11 DEF b
    <2> QED BY <1>1, <1>11, <2>1, <2>2, NextProductSets DEF Accepted
  <1> QED BY <1>3, <1>4, <1>5, <1>6, <1>9, <1>10, <1>11 DEF Authenticate, failing, asking

LEMMA AuthenticateKeeps ==
  ASSUME FetchInv, Authenticate
  PROVE  FetchInv'
  <1> DEFINE p  == Products[fb.k]
             id == IdentityOf[p]
             fresh == Needed(p) /\ id \notin fb.failedAuth \cup fb.authed
  <1>1. /\ fb.pc = "auth" /\ fb.k \in 1..Len(Products) /\ fb' \in Batches
        /\ fb'.pc = (IF fb.k = Len(Products) THEN "mkdir" ELSE "auth")
        /\ fb'.k = (IF fb.k = Len(Products) THEN 1 ELSE fb.k + 1)
        /\ fb'.requested = fb.requested
        /\ fb'.asked = fb.asked \/ (fresh /\ fb'.asked = Append(fb.asked, id))
    BY AuthenticateStep
  <1>2. /\ fb'.authed = IF fresh /\ Accepted(fb.k, noAuth) THEN fb.authed \cup {id} ELSE fb.authed
        /\ fb'.failedAuth = IF fresh /\ ~Accepted(fb.k, noAuth) THEN fb.failedAuth \cup {id} ELSE fb.failedAuth
        /\ fb'.products = IF Needed(p) /\ id \in fb'.authed THEN fb.products \cup {p} ELSE fb.products
    BY AuthenticateStep
  <1>3. disk' = disk /\ run' = run /\ answer' = answer /\ noAuth' = noAuth /\ outcome' = outcome
        /\ lanes' = lanes /\ cursor' = cursor /\ worker' = worker /\ waits' = waits
    BY DEF Authenticate, oracle, queues
  <1>4. FetchType'
    BY <1>1, <1>3 DEF FetchInv, FetchType
  <1>5. Identified'
    <2>1. Decided(fb.k, noAuth, fb.authed, fb.failedAuth, fb.products)
      BY <1>1 DEF FetchInv, Identified
    <2>2. fb'.authed \in SUBSET Identities /\ fb'.failedAuth \in SUBSET Identities
      BY <1>1 DEF Batches
    <2>3. Decided(fb.k + 1, noAuth, fb'.authed, fb'.failedAuth, fb'.products)
      BY <1>1, <1>2, <2>1, <2>2, DecidedNext
    <2>4. fb.k # Len(Products) => fb.k + 1 \in 1..Len(Products)
      BY <1>1
    <2> QED BY <1>1, <1>3, <2>3 DEF Identified, AfterAuth
  <1>6. AskedOnce'
    <2>1. /\ fb.asked \in Seq(Identities) /\ \A m, n \in 1..Len(fb.asked) : m # n => fb.asked[m] # fb.asked[n]
          /\ \A n \in 1..Len(fb.asked) : fb.asked[n] \in fb.authed \cup fb.failedAuth
      BY <1>1 DEF FetchInv, FetchType, Batches, AskedOnce
    <2>2. fb.authed \cup fb.failedAuth \subseteq fb'.authed \cup fb'.failedAuth
          /\ (fresh => id \in fb'.authed \cup fb'.failedAuth)
      BY <1>2
    <2>3. CASE fb'.asked = fb.asked
      BY <2>1, <2>2, <2>3 DEF AskedOnce
    <2>4. CASE fresh /\ fb'.asked = Append(fb.asked, id)
      <3>1. Len(fb'.asked) = Len(fb.asked) + 1 /\ fb'.asked[Len(fb.asked) + 1] = id
            /\ \A n \in 1..Len(fb.asked) : fb'.asked[n] = fb.asked[n]
        BY <2>4
      <3>2. Len(fb.asked) \in Nat /\ \A n \in 1..Len(fb.asked) : fb.asked[n] # id
        BY <2>1, <2>4
      <3>3. \A n \in 1..Len(fb'.asked) : n \in 1..Len(fb.asked) \/ n = Len(fb.asked) + 1
        BY <3>1
      <3> QED BY <2>1, <2>2, <2>4, <3>1, <3>2, <3>3 DEF AskedOnce
    <2> QED BY <1>1, <2>3, <2>4
  <1>7. Cleared'
    BY <1>1, <1>3 DEF FetchInv, Cleared
  <1>8. (InOnePlace /\ OutcomesTell /\ InOrder /\ ReportTells)'
    BY <1>1 DEF InOnePlace, OutcomesTell, InOrder, ReportTells
  <1>9. Rotates'
    BY <1>3 DEF FetchInv, Rotates
  <1>10. FilesTellTheRun'
    BY <1>1, <1>3 DEF FetchInv, FilesTellTheRun, NothingStale, ReportMatchesDisk
  <1> QED BY <1>4, <1>5, <1>6, <1>7, <1>8, <1>9, <1>10 DEF FetchInv


-----------------------------------------------------------------------------
(* The barrier and the queues *)

\* A run that needs no file has nothing to remove.
LEMMA MakeDirectoryKeeps ==
  ASSUME FetchInv, MakeDirectory
  PROVE  FetchInv'
  <1>1. /\ fb.pc = "mkdir" /\ fb \in Batches
        /\ disk' = disk /\ run' = run /\ answer' = answer /\ noAuth' = noAuth /\ outcome' = outcome
        /\ lanes' = lanes /\ cursor' = cursor /\ worker' = worker /\ waits' = waits
    BY DEF FetchInv, FetchType, MakeDirectory, oracle, queues
  <1>2. /\ fb' \in Batches
        /\ fb'.pc \in {IF Len(Wanted) = 0 THEN "assign" ELSE "invalidate", "failed"}
        /\ fb'.k = fb.k /\ fb'.asked = fb.asked /\ fb'.authed = fb.authed /\ fb'.failedAuth = fb.failedAuth
        /\ fb'.products = fb.products /\ fb'.requested = fb.requested
        /\ (fb'.pc = "failed" => fb'.err = 0)
    <2> DEFINE next == IF Len(Wanted) = 0 THEN "assign" ELSE "invalidate"
    <2>1. CASE fb' = [fb EXCEPT !.pc = "failed", !.err = 0]
      BY <1>1, <2>1 DEF Batches
    <2>2. CASE fb' = [fb EXCEPT !.pc = next]
      <3>1. next \in {"assign", "invalidate"}
        OBVIOUS
      <3> HIDE DEF next
      <3> QED BY <1>1, <2>2 DEF Batches, next
    <2> QED BY <2>1, <2>2 DEF MakeDirectory, BatchFails
  <1>3. FetchType'
    BY <1>1, <1>2 DEF FetchInv, FetchType
  <1>4. Identified'
    BY <1>1, <1>2 DEF FetchInv, Identified, AfterAuth
  <1>5. AskedOnce'
    BY <1>2 DEF FetchInv, AskedOnce
  <1>6. Cleared'
    <2>1. fb'.pc = "assign" => Resources = {}
      BY <1>2, WantedIndices
    <2> QED BY <1>1, <1>2, WantedIndices DEF FetchInv, Cleared
  <1>7. (InOnePlace /\ OutcomesTell /\ InOrder)'
    BY <1>2 DEF InOnePlace, OutcomesTell, InOrder
  <1>8. ReportTells'
    BY <1>2 DEF ReportTells
  <1>9. Rotates'
    BY <1>1 DEF FetchInv, Rotates
  <1>10. FilesTellTheRun'
    BY <1>1, <1>2 DEF FetchInv, Cleared, FilesTellTheRun, NothingStale, ReportMatchesDisk
  <1> QED BY <1>3, <1>4, <1>5, <1>6, <1>7, <1>8, <1>9, <1>10 DEF FetchInv

\* The destinations before fb.k are gone, those of this run do not exist yet.
LEMMA InvalidateKeeps ==
  ASSUME FetchInv, Invalidate
  PROVE  FetchInv'
  <1>1. /\ fb.pc = "invalidate" /\ fb \in Batches /\ fb.k \in Indices
        /\ run' = run /\ answer' = answer /\ noAuth' = noAuth /\ outcome' = outcome
        /\ lanes' = lanes /\ cursor' = cursor /\ worker' = worker /\ waits' = waits
    BY DEF FetchInv, FetchType, Cleared, Invalidate, oracle, queues
  <1>2. /\ fb' \in Batches
        /\ fb'.asked = fb.asked /\ fb'.authed = fb.authed /\ fb'.failedAuth = fb.failedAuth
        /\ fb'.products = fb.products /\ fb'.requested = fb.requested
        /\ \/ fb'.pc = "failed" /\ fb'.err = 0 /\ disk' = disk
           \/ /\ fb'.pc = (IF fb.k = Len(Wanted) THEN "assign" ELSE "invalidate") /\ fb'.k = fb.k + 1
              /\ disk' = [disk EXCEPT ![Wanted[fb.k]] = Null]
    <2> DEFINE next == IF fb.k = Len(Wanted) THEN "assign" ELSE "invalidate"
    <2>1. CASE fb' = [fb EXCEPT !.pc = "failed", !.err = 0] /\ UNCHANGED disk
      BY <1>1, <2>1 DEF Batches
    <2>2. CASE fb' = [fb EXCEPT !.k = @ + 1, !.pc = next] /\ disk' = [disk EXCEPT ![Wanted[fb.k]] = Null]
      <3>1. next \in {"assign", "invalidate"}
        OBVIOUS
      <3> HIDE DEF next
      <3>2. fb.k \in Nat /\ fb.k + 1 \in Nat
        BY <1>1 DEF Batches
      <3>3. fb' \in Batches
        BY <1>1, <2>2, <3>1, <3>2 DEF Batches
      <3> QED BY <2>2, <3>3 DEF next
    <2> QED BY <2>1, <2>2 DEF Invalidate, BatchFails
  <1>3. Wanted[fb.k] \in Resources /\ disk \in [Resources -> {Null} \cup [run : Nat, torn : BOOLEAN]]
    BY <1>1, WantedIndices DEF FetchInv, FetchType
  <1>4. disk' \in [Resources -> {Null} \cup [run : Nat, torn : BOOLEAN]]
        /\ \A r \in Resources : disk'[r] = Null \/ disk'[r] = disk[r]
    BY <1>2, <1>3
  <1>5. FetchType'
    BY <1>1, <1>2 DEF FetchInv, FetchType
  <1>6. Identified'
    BY <1>1, <1>2 DEF FetchInv, Identified, AfterAuth
  <1>7. AskedOnce'
    BY <1>2 DEF FetchInv, AskedOnce
  <1>8. Cleared'
    <2>1. \A r \in Resources : disk'[r] # Null => disk'[r].run < run
      BY <1>1, <1>4 DEF FetchInv, Cleared
    <2>2. \A r \in Resources : disk'[r] # Null => disk'[r].run <= run
      BY <1>4 DEF FetchInv, Cleared
    <2>3. CASE fb'.pc = "failed"
      BY <1>1, <2>2, <2>3 DEF Cleared
    <2>4. CASE /\ fb'.pc = (IF fb.k = Len(Wanted) THEN "assign" ELSE "invalidate") /\ fb'.k = fb.k + 1
               /\ disk' = [disk EXCEPT ![Wanted[fb.k]] = Null]
      <3>1. \A j \in 1..(fb'.k - 1) : disk'[Wanted[j]] = Null
        <4>1. \A j \in 1..(fb'.k - 1) : j \in Indices /\ (j \in 1..(fb.k - 1) \/ j = fb.k)
          BY <1>1, <2>4, WantedIndices
        <4>2. \A j \in 1..(fb.k - 1) : disk[Wanted[j]] = Null
          BY <1>1 DEF FetchInv, Cleared
        <4> QED BY <1>3, <2>4, <4>1, <4>2
      <3>2. fb'.pc = "assign" => \A r \in Resources : disk'[r] = Null
        BY <2>4, <3>1, WantedIndices
      <3>3. fb'.pc = "invalidate" => fb'.k \in Indices
        BY <1>1, <2>4, WantedIndices
      <3>4. cursor = 1 /\ ~fb.requested
        BY <1>1 DEF FetchInv, Cleared
      <3> QED BY <1>1, <1>2, <2>1, <2>2, <3>1, <3>2, <3>3, <3>4 DEF Cleared
    <2> QED BY <1>2, <2>3, <2>4
  <1>9. (InOnePlace /\ OutcomesTell /\ InOrder)'
    BY <1>2 DEF InOnePlace, OutcomesTell, InOrder
  <1>10. ReportTells'
    BY <1>2 DEF ReportTells
  <1>11. Rotates'
    BY <1>1 DEF FetchInv, Rotates
  <1>12. FilesTellTheRun'
    <2>1. ~fb'.requested
      BY <1>1, <1>2 DEF FetchInv, Cleared
    <2>2. fb'.pc = "failed" => \A r \in Resources : disk'[r] # Null => disk'[r].run < run
      BY <1>1, <1>2 DEF FetchInv, Cleared
    <2> QED BY <1>1, <1>2, <2>1, <2>2 DEF FilesTellTheRun, NothingStale, ReportMatchesDisk
  <1> QED BY <1>5, <1>6, <1>7, <1>8, <1>9, <1>10, <1>11, <1>12 DEF FetchInv

\* The queues hold the work and nothing else, each item once.
LEMMA LanesHoldWork ==
  ASSUME NEW concurrency, FetchType
  PROVE  /\ DOMAIN LanesOf(concurrency) \subseteq 1..Len(Products) \cup {1}
         /\ LanesOf(concurrency) \in [DOMAIN LanesOf(concurrency) -> SUBSET Indices]
         /\ \A i \in Indices :
               Reachable(i) <=> \E n \in DOMAIN LanesOf(concurrency) : i \in LanesOf(concurrency)[n]
         /\ \A m, n \in DOMAIN LanesOf(concurrency) :
               m # n => LanesOf(concurrency)[m] \cap LanesOf(concurrency)[n] = {}
         /\ concurrency = 1 => DOMAIN LanesOf(concurrency) = {1}
  <1> DEFINE ofProduct(n) == {i \in Work : ProductOf[Wanted[i]] = Products[n]}
  <1>0. Work \subseteq Indices /\ \A i \in Indices : i \in Work <=> Reachable(i)
    BY DEF Work
  <1>1. CASE concurrency = 1
    <2>1. LanesOf(concurrency) = [n \in {1} |-> Work]
      BY <1>1 DEF LanesOf
    <2> QED BY <1>0, <2>1
  <1>2. CASE concurrency # 1
    <2>1. LanesOf(concurrency) = [n \in {m \in 1..Len(Products) : ofProduct(m) # {}} |-> ofProduct(n)]
      BY <1>2 DEF LanesOf
    <2>2. \A n : ofProduct(n) \subseteq Indices
      BY <1>0
    <2>3. \A i \in Work : \E n \in 1..Len(Products) : i \in ofProduct(n)
      BY <1>0, WantedIndices
    <2>4. \A m, n \in 1..Len(Products) : m # n => ofProduct(m) \cap ofProduct(n) = {}
      BY FetchAssumption
    <2>5. \A n, i : i \in ofProduct(n) => i \in Work
      OBVIOUS
    <2> HIDE DEF ofProduct
    <2> QED BY <1>0, <1>2, <2>1, <2>2, <2>3, <2>4, <2>5
  <1> QED BY <1>1, <1>2

\* Every reachable item gets a place, every other one its outcome.
LEMMA AssignKeeps ==
  ASSUME FetchInv, Assign
  PROVE  FetchInv'
  <1>1. /\ fb.pc = "assign" /\ fb \in Batches /\ FetchType
        /\ disk' = disk /\ run' = run /\ answer' = answer /\ noAuth' = noAuth /\ cursor' = cursor
        /\ lanes' = LanesOf(fb.concurrency)
        /\ outcome' = [i \in Indices |-> IF Reachable(i) THEN Null ELSE "failed"]
        /\ waits' = [n \in DOMAIN lanes' |-> 0]
        /\ worker' = [w \in Workers |->
                        [pc |-> IF w <= fb.concurrency /\ w <= Cardinality(Work) THEN "free" ELSE "ended",
                         item |-> 0]]
    BY DEF FetchInv, FetchType, Assign, oracle
  <1>2. /\ fb' \in Batches /\ fb'.pc = "work" /\ fb'.concurrency = fb.concurrency /\ fb'.asked = fb.asked
        /\ fb'.authed = fb.authed /\ fb'.failedAuth = fb.failedAuth /\ fb'.products = fb.products
        /\ fb'.requested = fb.requested
    BY <1>1 DEF Assign, Batches
  <1>3. /\ DOMAIN lanes' \subseteq 1..Len(Products) \cup {1} /\ lanes' \in [DOMAIN lanes' -> SUBSET Indices]
        /\ \A i \in Indices : Reachable(i) <=> Queued(i)'
        /\ \A m, n \in DOMAIN lanes' : m # n => lanes'[m] \cap lanes'[n] = {}
        /\ fb.concurrency = 1 => DOMAIN lanes' = {1}
    BY <1>1, LanesHoldWork DEF Queued
  <1>4. \A w \in Workers : worker'[w].pc \in {"free", "ended"}
    BY <1>1
  <1>5. \A i \in Indices : Reachable(i)' <=> Reachable(i)
    BY <1>2 DEF Reachable
  <1>6. FetchType'
    <2>1. worker' \in [Workers -> [pc : {"none", "free", "fetching", "writing", "opened", "ended"}, item : Nat]]
      BY <1>1
    <2>2. outcome' \in [Indices -> {Null, "processed", "skipped", "failed", "fatal"}]
      BY <1>1
    <2> QED BY <1>1, <1>2, <1>3 DEF FetchType
  <1>7. Identified'
    BY <1>1, <1>2 DEF FetchInv, Identified, AfterAuth
  <1>8. AskedOnce'
    BY <1>2 DEF FetchInv, AskedOnce
  <1>9. Cleared'
    BY <1>1, <1>2 DEF FetchInv, Cleared
  <1>10. InOnePlace'
    <2>1. \A i \in Indices : outcome'[i] = Null <=> Reachable(i)
      BY <1>1, FetchAssumption
    <2>2. \A w \in Workers, i \in Indices : ~Holds(w, i)'
      BY <1>4 DEF Holds
    <2> QED BY <1>3, <1>4, <2>1, <2>2 DEF InOnePlace
  <1>11. OutcomesTell'
    <2>1. \A i \in Indices : FileOf(i)' = Null
      BY <1>1, WantedIndices DEF FetchInv, Cleared, FileOf
    <2>2. \A i \in Indices : (outcome'[i] = Null /\ Reachable(i)') \/ (outcome'[i] = "failed" /\ ~Reachable(i)')
      BY <1>1, <1>5
    <2> QED BY <1>4, <2>1, <2>2, FetchAssumption DEF OutcomesTell
  <1>12. InOrder'
    <2>1. fb.concurrency = 1 => \A w \in Workers : w # 1 => worker'[w].pc = "ended"
      BY <1>1 DEF Workers
    <2>2. LanesEmpty' \/ (1 \in Workers /\ worker'[1].pc # "ended")
      <3>1. CASE Work = {}
        <4>1. \A i \in Indices : ~Reachable(i)
          BY <3>1 DEF Work
        <4> QED BY <1>3, <4>1 DEF LanesEmpty, Queued
      <3>2. CASE Work # {}
        <4>1. IsFiniteSet(Indices)
          BY WantedIndices, FS_Interval
        <4>2. IsFiniteSet(Work)
          BY <4>1, FS_Subset DEF Work
        <4>3. Cardinality(Work) \in Nat /\ Cardinality(Work) # 0
          BY <3>2, <4>2, FS_CardinalityType, FS_EmptySet
        <4>4. 1 \in Workers
          BY <3>2, WantedIndices DEF Work, Workers
        <4>5. fb.concurrency \in Nat \ {0}
          BY <1>1 DEF Batches
        <4> QED BY <1>1, <4>3, <4>4, <4>5
      <3> QED BY <3>1, <3>2
    <2> QED BY <1>2, <1>3, <1>4, <2>1, <2>2 DEF InOrder
  <1>13. Rotates'
    <2>1. ASSUME NEW n \in DOMAIN lanes' PROVE waits'[n] <= Cardinality(PassedSince(n, DOMAIN lanes', cursor'))
      <3>1. IsFiniteSet(1..Len(Products) \cup {1})
        <4>1. IsFiniteSet(1..Len(Products))
          BY FS_Interval
        <4>2. IsFiniteSet({1})
          BY FS_Singleton
        <4> QED BY <4>1, <4>2, FS_Union
      <3>2. IsFiniteSet(PassedSince(n, DOMAIN lanes', cursor'))
        BY <1>3, <3>1, FS_Subset DEF PassedSince
      <3>3. Cardinality(PassedSince(n, DOMAIN lanes', cursor')) \in Nat
        BY <3>2, FS_CardinalityType
      <3>4. waits'[n] = 0
        BY <1>1
      <3> QED BY <3>3, <3>4
    <2> QED BY <2>1 DEF Rotates
  <1>14. ReportTells'
    BY <1>2 DEF ReportTells
  <1>15. FilesTellTheRun'
    BY <1>1, <1>2 DEF FetchInv, FilesTellTheRun, NothingStale, ReportMatchesDisk
  <1> QED BY <1>6, <1>7, <1>8, <1>9, <1>10, <1>11, <1>12, <1>13, <1>14, <1>15 DEF FetchInv


-----------------------------------------------------------------------------
(* The workers *)

AtWork == {"fetching", "writing", "opened"}

\* What is with a worker is an item of its own that waits in no queue.
LEMMA HeldItem ==
  ASSUME FetchInv, fb.pc = "work", NEW w \in Workers, worker[w].pc \in AtWork
  PROVE  /\ worker[w].item \in Indices /\ outcome[worker[w].item] = Null /\ Reachable(worker[w].item)
         /\ ~Queued(worker[w].item)
         /\ \A v \in Workers : worker[v].pc \in AtWork /\ v # w => worker[v].item # worker[w].item
  BY DEF FetchInv, InOnePlace, OutcomesTell, Holds, AtWork

\* An outcome is recorded: the item leaves its worker, which stops only at a fatal one
\* when it is alone.
LEMMA RecordStep ==
  ASSUME FetchInv, fb.pc = "work", NEW w \in Workers, worker[w].pc \in AtWork,
         NEW kind \in {"processed", "skipped", "failed", "fatal"}, Record(w, kind),
         fb' = fb, lanes' = lanes
  PROVE  /\ outcome' \in [Indices -> {Null, "processed", "skipped", "failed", "fatal"}]
         /\ worker' \in [Workers -> [pc : {"none", "free", "fetching", "writing", "opened", "ended"}, item : Nat]]
         /\ \A j \in Indices : outcome'[j] = IF j = worker[w].item THEN kind ELSE outcome[j]
         /\ \A v \in Workers : IF v = w THEN worker'[v].pc \notin AtWork ELSE worker'[v] = worker[v]
         /\ InOnePlace' /\ InOrder'
  <1> DEFINE item == worker[w].item
             after == AfterOutcome(kind)
  <1>1. /\ item \in Indices /\ outcome[item] = Null /\ ~Queued(item)
        /\ \A v \in Workers : worker[v].pc \in AtWork /\ v # w => worker[v].item # item
    BY HeldItem
  <1>2. after \in {"free", "ended"} /\ (after = "ended" => kind = "fatal" /\ fb.concurrency = 1)
    BY DEF AfterOutcome
  <1>3. /\ outcome \in [Indices -> {Null, "processed", "skipped", "failed", "fatal"}]
        /\ worker \in [Workers -> [pc : {"none", "free", "fetching", "writing", "opened", "ended"}, item : Nat]]
    BY DEF FetchInv, FetchType
  <1>4. outcome' = [outcome EXCEPT ![item] = kind] /\ worker' = [worker EXCEPT ![w] = [pc |-> after, item |-> 0]]
    BY DEF Record
  <1> HIDE DEF item, after
  <1>5. outcome' \in [Indices -> {Null, "processed", "skipped", "failed", "fatal"}]
        /\ \A j \in Indices : outcome'[j] = IF j = item THEN kind ELSE outcome[j]
    BY <1>3, <1>4
  <1>6. worker' \in [Workers -> [pc : {"none", "free", "fetching", "writing", "opened", "ended"}, item : Nat]]
        /\ \A v \in Workers : worker'[v] = IF v = w THEN [pc |-> after, item |-> 0] ELSE worker[v]
    BY <1>2, <1>3, <1>4
  <1>7. worker'[w].pc = after /\ worker'[w].pc \notin AtWork
    BY <1>2, <1>6 DEF AtWork
  <1>8. \A j \in Indices : kind # Null /\ (outcome'[j] = Null <=> outcome[j] = Null /\ j # item)
    BY <1>5, FetchAssumption
  <1>9. \A v \in Workers, j \in Indices : Holds(v, j)' <=> v # w /\ Holds(v, j)
    BY <1>6, <1>7 DEF Holds, AtWork
  <1>10. \A j : Queued(j)' <=> Queued(j)
    BY DEF Queued
  <1>11. InOnePlace'
    <2>1. /\ \A i \in Indices :
                /\ outcome[i] = Null => Queued(i) \/ \E v \in Workers : Holds(v, i)
                /\ Queued(i) => outcome[i] = Null /\ \A v \in Workers : ~Holds(v, i)
          /\ \A m, n \in DOMAIN lanes : m # n => lanes[m] \cap lanes[n] = {}
          /\ \A v \in Workers : worker[v].pc \in AtWork => worker[v].item \in Indices /\ outcome[worker[v].item] = Null
          /\ \A u, v \in Workers, i \in Indices : Holds(u, i) /\ Holds(v, i) => u = v
      BY DEF FetchInv, InOnePlace, AtWork
    <2>2. \A i \in Indices : Holds(w, i) => i = item
      BY DEF Holds, item
    <2>3. \A i \in Indices :
             /\ outcome'[i] = Null => Queued(i)' \/ \E v \in Workers : Holds(v, i)'
             /\ Queued(i)' => outcome'[i] = Null /\ \A v \in Workers : ~Holds(v, i)'
      BY <1>1, <1>8, <1>9, <1>10, <2>1, <2>2
    <2>4. \A v \in Workers : worker'[v].pc \in AtWork => worker'[v].item \in Indices /\ outcome'[worker'[v].item] = Null
      BY <1>1, <1>6, <1>7, <1>8, <2>1
    <2> QED BY <1>9, <2>1, <2>3, <2>4 DEF InOnePlace, AtWork
  <1>12. InOrder'
    <2>1. /\ fb.concurrency = 1 =>
                /\ DOMAIN lanes = {1} /\ \A v \in Workers : v # 1 => worker[v].pc = "ended"
                /\ \A v \in Workers : worker[v].pc \in AtWork =>
                      \A n \in DOMAIN lanes : \A j \in lanes[n] : worker[v].item < j
          /\ LanesEmpty \/ StoppedAtFatal \/ (1 \in Workers /\ worker[1].pc # "ended")
      BY DEF FetchInv, InOrder, AtWork
    <2>2. LanesEmpty' <=> LanesEmpty
      BY DEF LanesEmpty
    <2>3. StoppedAtFatal => StoppedAtFatal'
      BY <1>1, <1>5, FetchAssumption DEF StoppedAtFatal
    <2>4. after = "ended" => StoppedAtFatal'
      BY <1>1, <1>2, <1>5, <2>1 DEF StoppedAtFatal, item
    <2>5. LanesEmpty' \/ StoppedAtFatal' \/ (1 \in Workers /\ worker'[1].pc # "ended")
      BY <1>6, <2>1, <2>2, <2>3, <2>4
    <2>6. fb.concurrency = 1 => w = 1
      BY <2>1 DEF AtWork
    <2> QED BY <1>6, <1>7, <2>1, <2>5 DEF InOrder, AtWork
  <1> QED BY <1>5, <1>6, <1>7, <1>11, <1>12 DEF item

\* A worker goes on with its item.
LEMMA AdvanceStep ==
  ASSUME FetchInv, fb.pc = "work", NEW w \in Workers, worker[w].pc \in AtWork,
         NEW pc \in AtWork, worker' = [worker EXCEPT ![w].pc = pc],
         fb' = fb, lanes' = lanes, outcome' = outcome
  PROVE  /\ worker' \in [Workers -> [pc : {"none", "free", "fetching", "writing", "opened", "ended"}, item : Nat]]
         /\ \A v \in Workers : worker'[v].item = worker[v].item
                               /\ worker'[v].pc = IF v = w THEN pc ELSE worker[v].pc
         /\ InOnePlace' /\ InOrder'
  <1>1. worker \in [Workers -> [pc : {"none", "free", "fetching", "writing", "opened", "ended"}, item : Nat]]
    BY DEF FetchInv, FetchType
  <1>2. worker' \in [Workers -> [pc : {"none", "free", "fetching", "writing", "opened", "ended"}, item : Nat]]
    BY <1>1 DEF AtWork
  <1>3. \A v \in Workers : worker'[v].item = worker[v].item /\ worker'[v].pc = IF v = w THEN pc ELSE worker[v].pc
    BY <1>1
  <1>4. \A v \in Workers : /\ worker'[v].pc \in AtWork <=> worker[v].pc \in AtWork
                           /\ worker'[v].pc = "ended" <=> worker[v].pc = "ended"
    BY DEF AtWork
  <1>5. \A v \in Workers, j \in Indices : Holds(v, j)' <=> Holds(v, j)
    BY DEF Holds, AtWork
  <1>6. \A j : Queued(j)' <=> Queued(j)
    BY DEF Queued
  <1>7. InOnePlace'
    BY <1>5, <1>6 DEF FetchInv, InOnePlace, AtWork
  <1>8. InOrder'
    <2>1. (LanesEmpty' <=> LanesEmpty) /\ (StoppedAtFatal' <=> StoppedAtFatal)
      BY DEF LanesEmpty, StoppedAtFatal
    <2> QED BY <2>1 DEF FetchInv, InOrder, AtWork
  <1> QED BY <1>2, <1>7, <1>8

\* A file of this run is written, whole or cut short.
LEMMA WriteStep ==
  ASSUME FetchInv, fb.pc = "work", fb'.pc = "work", fb'.requested = fb.requested, cursor' = cursor,
         run' = run, NEW i \in Indices, NEW torn \in BOOLEAN,
         disk' = [disk EXCEPT ![Wanted[i]] = [run |-> run, torn |-> torn]]
  PROVE  /\ disk' \in [Resources -> {Null} \cup [run : Nat, torn : BOOLEAN]]
         /\ \A j \in Indices : FileOf(j)' = IF j = i THEN [run |-> run, torn |-> torn] ELSE FileOf(j)
         /\ Cleared' /\ FilesTellTheRun'
  <1>1. Wanted[i] \in Resources /\ run \in Nat /\ disk \in [Resources -> {Null} \cup [run : Nat, torn : BOOLEAN]]
    BY WantedIndices DEF FetchInv, FetchType
  <1>2. [run |-> run, torn |-> torn] \in [run : Nat, torn : BOOLEAN]
    BY <1>1
  <1>3. disk' \in [Resources -> {Null} \cup [run : Nat, torn : BOOLEAN]]
    BY <1>1
  <1>4. \A r \in Resources : disk'[r] = IF r = Wanted[i] THEN [run |-> run, torn |-> torn] ELSE disk[r]
    BY <1>1
  <1>5. \A j \in Indices : FileOf(j)' = IF j = i THEN [run |-> run, torn |-> torn] ELSE FileOf(j)
    BY <1>4, WantedIndices DEF FileOf
  <1>6. \A r \in Resources : disk'[r] # Null => disk'[r].run = run
    BY DEF FetchInv, Cleared
  <1>7. Cleared'
    BY <1>1, <1>6 DEF Cleared
  <1>8. FilesTellTheRun'
    BY <1>6 DEF FilesTellTheRun, NothingStale, ReportMatchesDisk
  <1> QED BY <1>3, <1>5, <1>7, <1>8

\* What no step of a worker touches.
LEMMA WorkerFrame ==
  ASSUME FetchInv, fb.pc = "work", fb' = fb, noAuth' = noAuth, run' = run, lanes' = lanes,
         cursor' = cursor, waits' = waits
  PROVE  /\ Identified' /\ AskedOnce' /\ Rotates' /\ ReportTells'
         /\ disk' = disk => Cleared' /\ FilesTellTheRun'
  <1>1. Identified'
    BY DEF FetchInv, Identified
  <1>2. AskedOnce'
    BY DEF FetchInv, AskedOnce
  <1>3. Rotates'
    BY DEF FetchInv, Rotates
  <1>4. ReportTells'
    BY DEF ReportTells
  <1>5. disk' = disk => Cleared'
    BY DEF FetchInv, Cleared
  <1>6. disk' = disk => FilesTellTheRun'
    BY DEF FetchInv, FilesTellTheRun, NothingStale, ReportMatchesDisk
  <1> QED BY <1>1, <1>2, <1>3, <1>4, <1>5, <1>6

\* Outcomes and files agree after a step of worker w when they do for its item.
LEMMA OutcomesFrame ==
  ASSUME FetchInv, fb.pc = "work", fb' = fb, answer' = answer, run' = run, lanes' = lanes,
         NEW w \in Workers, worker[w].pc \in AtWork, NEW item, item = worker[w].item,
         \A j \in Indices : j # item => outcome'[j] = outcome[j] /\ FileOf(j)' = FileOf(j),
         \A v \in Workers : v # w => worker'[v] = worker[v],
         /\ outcome'[item] = "processed" => AnswerOf(item) = "items" /\ FileOf(item)' = Whole
         /\ outcome'[item] = "skipped" => AnswerOf(item) = "optional" /\ FileOf(item)' = Null
         /\ outcome'[item] = "failed" => AnswerOf(item) = "error" /\ FileOf(item)' = Null
         /\ outcome'[item] = "fatal" => AnswerOf(item) = "unwritable" /\ FileOf(item)' \in {Null, Torn},
         worker'[w].pc \in AtWork =>
            /\ worker'[w].item = item
            /\ worker'[w].pc \in {"fetching", "writing"} => FileOf(item)' = Null
            /\ worker'[w].pc = "opened" => FileOf(item)' = Torn
            /\ worker'[w].pc \in {"writing", "opened"} => AnswerOf(item) \in {"items", "unwritable"}
  PROVE  OutcomesTell'
  <1>1. /\ item \in Indices /\ Reachable(item) /\ ~Queued(item)
        /\ \A v \in Workers : worker[v].pc \in AtWork /\ v # w => worker[v].item # item
    BY HeldItem
  <1>2. \A j : (Queued(j)' <=> Queued(j)) /\ (Reachable(j)' <=> Reachable(j))
    BY DEF Queued, Reachable
  <1>3. \A j : AnswerOf(j)' = AnswerOf(j) /\ Whole' = Whole /\ Torn' = Torn
    BY DEF AnswerOf, Whole, Torn
  <1>4. \A j \in Indices : j # item =>
          /\ outcome[j] \in {Null, "processed", "skipped", "fatal"} => Reachable(j)
          /\ outcome[j] = "processed" => AnswerOf(j) = "items" /\ FileOf(j) = Whole
          /\ outcome[j] = "skipped" => AnswerOf(j) = "optional" /\ FileOf(j) = Null
          /\ outcome[j] = "failed" => (~Reachable(j) \/ AnswerOf(j) = "error") /\ FileOf(j) = Null
          /\ outcome[j] = "fatal" => AnswerOf(j) = "unwritable" /\ FileOf(j) \in {Null, Torn}
          /\ Queued(j) => FileOf(j) = Null
    BY DEF FetchInv, OutcomesTell
  <1>5. \A j \in Indices :
          /\ outcome'[j] \in {Null, "processed", "skipped", "fatal"} => Reachable(j)'
          /\ outcome'[j] = "processed" => AnswerOf(j)' = "items" /\ FileOf(j)' = Whole'
          /\ outcome'[j] = "skipped" => AnswerOf(j)' = "optional" /\ FileOf(j)' = Null
          /\ outcome'[j] = "failed" => (~Reachable(j)' \/ AnswerOf(j)' = "error") /\ FileOf(j)' = Null
          /\ outcome'[j] = "fatal" => AnswerOf(j)' = "unwritable" /\ FileOf(j)' \in {Null, Torn'}
          /\ Queued(j)' => FileOf(j)' = Null
    BY <1>1, <1>2, <1>3, <1>4
  <1>6. ASSUME NEW v \in Workers
        PROVE  /\ worker'[v].pc \in {"fetching", "writing"} => FileOf(worker[v].item)' = Null
               /\ worker'[v].pc = "opened" => FileOf(worker[v].item)' = Torn'
               /\ worker'[v].pc \in {"writing", "opened"} => AnswerOf(worker[v].item)' \in {"items", "unwritable"}
    <2>1. CASE v = w
      BY <1>3, <2>1 DEF AtWork
    <2>2. CASE v # w /\ worker[v].pc \in AtWork
      <3>1. worker[v].item \in Indices /\ worker[v].item # item /\ worker'[v] = worker[v]
        BY <2>2, HeldItem
      <3>2. /\ worker[v].pc \in {"fetching", "writing"} => FileOf(worker[v].item) = Null
            /\ worker[v].pc = "opened" => FileOf(worker[v].item) = Torn
            /\ worker[v].pc \in {"writing", "opened"} => AnswerOf(worker[v].item) \in {"items", "unwritable"}
        BY DEF FetchInv, OutcomesTell
      <3> QED BY <1>3, <3>1, <3>2
    <2>3. CASE v # w /\ worker[v].pc \notin AtWork
      BY <2>3 DEF AtWork
    <2> QED BY <2>1, <2>2, <2>3
  <1> QED BY <1>5, <1>6 DEF OutcomesTell


\* The least item of the lane whose turn it is goes to the worker: what waits behind a
\* single worker stays behind its item, and the lane just served is passed for the others.
LEMMA TakeKeeps ==
  ASSUME FetchInv, NEW w \in Workers, NEW n \in DOMAIN lanes, Take(w, n)
  PROVE  FetchInv'
  <1> PICK i \in lanes[n] : TakeItem(w, n, i)
    BY DEF Take
  <1>1. /\ fb.pc = "work" /\ worker[w].pc = "free" /\ Turn(n) /\ \A j \in lanes[n] : i <= j
        /\ lanes' = [lanes EXCEPT ![n] = @ \ {i}]
        /\ worker' = [worker EXCEPT ![w] = [pc |-> "fetching", item |-> i]]
        /\ waits' = [m \in DOMAIN lanes |-> IF m = n \/ lanes[m] = {} THEN 0 ELSE waits[m] + 1]
        /\ fb' = [fb EXCEPT !.requested = TRUE] /\ cursor' = n + 1
        /\ disk' = disk /\ run' = run /\ answer' = answer /\ noAuth' = noAuth /\ outcome' = outcome
    BY DEF Take, TakeItem, oracle
  <1>2. /\ fb' \in Batches /\ fb'.pc = "work" /\ fb'.requested = TRUE /\ fb'.concurrency = fb.concurrency
        /\ fb'.asked = fb.asked /\ fb'.authed = fb.authed /\ fb'.failedAuth = fb.failedAuth
        /\ fb'.products = fb.products
    BY <1>1 DEF FetchInv, FetchType, Batches
  <1>3. /\ DOMAIN lanes \subseteq 1..Len(Products) \cup {1} /\ lanes \in [DOMAIN lanes -> SUBSET Indices]
        /\ worker \in [Workers -> [pc : {"none", "free", "fetching", "writing", "opened", "ended"}, item : Nat]]
        /\ waits \in [DOMAIN lanes -> Nat] /\ cursor \in Nat
    BY DEF FetchInv, FetchType
  <1>4. i \in Indices /\ i \in Nat /\ n \in Nat /\ \A m \in DOMAIN lanes : m \in Nat
    BY <1>3, WantedIndices
  <1>5. DOMAIN lanes' = DOMAIN lanes
        /\ \A m \in DOMAIN lanes : lanes'[m] = IF m = n THEN lanes[n] \ {i} ELSE lanes[m]
    BY <1>1
  <1>6. \A v \in Workers : worker'[v] = IF v = w THEN [pc |-> "fetching", item |-> i] ELSE worker[v]
    BY <1>1, <1>3
  <1>7. /\ Queued(i) /\ outcome[i] = Null /\ \A v \in Workers : ~Holds(v, i)
        /\ \A m \in DOMAIN lanes : m # n => i \notin lanes[m]
    BY <1>1, <1>4 DEF FetchInv, InOnePlace, Queued
  <1>8. \A j : Queued(j)' <=> Queued(j) /\ j # i
    BY <1>5, <1>7 DEF Queued
  <1>9. \A v \in Workers : \A j : Holds(v, j)' <=> (v = w /\ j = i) \/ (v # w /\ Holds(v, j))
    BY <1>6 DEF Holds
  <1>10. \A j : ~Holds(w, j)
    BY <1>1 DEF Holds
  <1>11. FetchType'
    <2>1. lanes' \in [DOMAIN lanes' -> SUBSET Indices]
      BY <1>1, <1>3
    <2>2. worker' \in [Workers -> [pc : {"none", "free", "fetching", "writing", "opened", "ended"}, item : Nat]]
      BY <1>1, <1>3, <1>4
    <2>3. waits' \in [DOMAIN lanes' -> Nat]
      BY <1>1, <1>3
    <2>4. cursor' \in Nat
      BY <1>1, <1>4
    <2> QED BY <1>1, <1>2, <2>2, <2>4 DEF FetchInv, FetchType
  <1>12. Identified'
    BY <1>1 DEF FetchInv, Identified
  <1>13. AskedOnce'
    BY <1>2 DEF FetchInv, AskedOnce
  <1>14. Cleared'
    BY <1>1 DEF FetchInv, Cleared
  <1>15. InOnePlace'
    <2>1. /\ \A j \in Indices :
                /\ outcome[j] = Null => Queued(j) \/ \E v \in Workers : Holds(v, j)
                /\ Queued(j) => outcome[j] = Null /\ \A v \in Workers : ~Holds(v, j)
          /\ \A m, l \in DOMAIN lanes : m # l => lanes[m] \cap lanes[l] = {}
          /\ \A v \in Workers : worker[v].pc \in AtWork => worker[v].item \in Indices /\ outcome[worker[v].item] = Null
          /\ \A u, v \in Workers, j \in Indices : Holds(u, j) /\ Holds(v, j) => u = v
      BY <1>1 DEF FetchInv, InOnePlace, AtWork
    <2>2. \A j \in Indices :
             /\ outcome[j] = Null => Queued(j)' \/ \E v \in Workers : Holds(v, j)'
             /\ Queued(j)' => outcome[j] = Null /\ \A v \in Workers : ~Holds(v, j)'
      BY <1>8, <1>9, <1>10, <2>1
    <2>3. \A m, l \in DOMAIN lanes : m # l => lanes'[m] \cap lanes'[l] = {}
      BY <1>5, <2>1
    <2>4. \A v \in Workers : worker'[v].pc \in AtWork => worker'[v].item \in Indices /\ outcome[worker'[v].item] = Null
      BY <1>4, <1>6, <1>7, <2>1
    <2>5. \A u, v \in Workers, j \in Indices : Holds(u, j)' /\ Holds(v, j)' => u = v
      BY <1>7, <1>9, <2>1
    <2> QED BY <1>1, <2>2, <2>3, <2>4, <2>5 DEF InOnePlace, AtWork
  <1>16. OutcomesTell'
    <2>1. \A j : FileOf(j)' = FileOf(j) /\ AnswerOf(j)' = AnswerOf(j) /\ Whole' = Whole /\ Torn' = Torn
                 /\ (Reachable(j)' <=> Reachable(j))
      BY <1>1 DEF FileOf, AnswerOf, Whole, Torn, Reachable
    <2>2. FileOf(i) = Null
      BY <1>1, <1>4, <1>7 DEF FetchInv, OutcomesTell
    <2>3. ASSUME NEW v \in Workers
          PROVE  /\ worker'[v].pc \in {"fetching", "writing"} => FileOf(worker'[v].item) = Null
                 /\ worker'[v].pc = "opened" => FileOf(worker'[v].item) = Torn
                 /\ worker'[v].pc \in {"writing", "opened"} => AnswerOf(worker'[v].item) \in {"items", "unwritable"}
      <3>1. CASE v = w
        BY <1>6, <2>2, <3>1
      <3>2. CASE v # w
        BY <1>1, <3>2 DEF FetchInv, OutcomesTell
      <3> QED BY <3>1, <3>2
    <2>4. \A v \in Workers :
             /\ FileOf(worker'[v].item) = FileOf(worker[v].item)'
             /\ AnswerOf(worker'[v].item) = AnswerOf(worker[v].item)'
      BY <1>1 DEF FileOf, AnswerOf
    <2>5. \A j \in Indices :
            /\ outcome[j] \in {Null, "processed", "skipped", "fatal"} => Reachable(j)
            /\ outcome[j] = "processed" => AnswerOf(j) = "items" /\ FileOf(j) = Whole
            /\ outcome[j] = "skipped" => AnswerOf(j) = "optional" /\ FileOf(j) = Null
            /\ outcome[j] = "failed" => (~Reachable(j) \/ AnswerOf(j) = "error") /\ FileOf(j) = Null
            /\ outcome[j] = "fatal" => AnswerOf(j) = "unwritable" /\ FileOf(j) \in {Null, Torn}
            /\ Queued(j)' => FileOf(j) = Null
      BY <1>1, <1>8 DEF FetchInv, OutcomesTell
    <2> QED BY <1>1, <2>1, <2>3, <2>5 DEF OutcomesTell
  <1>17. InOrder'
    <2>1. /\ fb.concurrency = 1 =>
                /\ DOMAIN lanes = {1} /\ \A v \in Workers : v # 1 => worker[v].pc = "ended"
          /\ LanesEmpty \/ StoppedAtFatal \/ (1 \in Workers /\ worker[1].pc # "ended")
      BY <1>1 DEF FetchInv, InOrder
    <2>2. ~LanesEmpty /\ (StoppedAtFatal => StoppedAtFatal')
      BY <1>1 DEF LanesEmpty, StoppedAtFatal
    <2>3. StoppedAtFatal' \/ (1 \in Workers /\ worker'[1].pc # "ended")
      BY <1>6, <2>1, <2>2
    <2>4. ASSUME fb.concurrency = 1, NEW v \in Workers, worker'[v].pc \in AtWork, NEW j \in lanes'[1]
          PROVE  worker'[v].item < j
      <3>1. n = 1 /\ v = w /\ worker'[v].item = i
        BY <1>1, <2>1, <2>4 DEF AtWork
      <3>2. j \in lanes[1] /\ j # i /\ j \in Nat
        BY <1>3, <1>5, <3>1, WantedIndices
      <3> QED BY <1>1, <1>4, <3>1, <3>2
    <2> QED BY <1>1, <2>1, <2>3, <2>4 DEF InOrder, AtWork
  <1>18. Rotates'
    <2> DEFINE D == DOMAIN lanes
    <2>0. IsFiniteSet(D)
      <3>1. IsFiniteSet(1..Len(Products))
        BY FS_Interval
      <3>2. IsFiniteSet({1})
        BY FS_Singleton
      <3>3. IsFiniteSet(1..Len(Products) \cup {1})
        BY <3>1, <3>2, FS_Union
      <3> QED BY <1>3, <3>3, FS_Subset
    <2>1. ASSUME NEW m \in D PROVE waits'[m] <= Cardinality(PassedSince(m, D, n + 1))
      <3> DEFINE before == PassedSince(m, D, cursor)
                 after  == PassedSince(m, D, n + 1)
      <3>1. before \subseteq D /\ after \subseteq D
        BY DEF PassedSince
      <3>2. /\ IsFiniteSet(before) /\ IsFiniteSet(after)
            /\ Cardinality(before) \in Nat /\ Cardinality(after) \in Nat
        BY <2>0, <3>1, FS_Subset, FS_CardinalityType
      <3>3. CASE m = n \/ lanes[m] = {}
        <4>1. waits'[m] = 0
          BY <1>1, <3>3
        <4>2. Cardinality(PassedSince(m, D, n + 1)) \in Nat
          BY <3>2
        <4> QED BY <4>1, <4>2
      <3>4. CASE m # n /\ lanes[m] # {}
        <4>1. ~Before(m, n)
          BY <1>1, <3>4 DEF Turn
        <4>2. n \in after /\ n \notin before /\ before \subseteq after
          BY <1>3, <1>4, <3>4, <4>1 DEF PassedSince, Before
        <4>3. IsFiniteSet(before \cup {n}) /\ Cardinality(before \cup {n}) = Cardinality(before) + 1
          BY <3>2, <4>2, FS_AddElement
        <4>4. Cardinality(before \cup {n}) <= Cardinality(after)
          BY <3>2, <4>2, FS_Subset
        <4>5. waits[m] <= Cardinality(before) /\ waits'[m] = waits[m] + 1 /\ waits[m] \in Nat
          BY <1>1, <1>3, <3>4 DEF FetchInv, Rotates
        <4>6. waits'[m] <= Cardinality(after)
          <5> HIDE DEF before, after
          <5> QED BY <3>2, <4>3, <4>4, <4>5
        <4> QED BY <4>6
      <3> QED BY <3>3, <3>4
    <2> QED BY <1>1, <2>1 DEF Rotates
  <1>19. ReportTells'
    BY <1>2 DEF ReportTells
  <1>20. FilesTellTheRun'
    BY <1>1 DEF FetchInv, Cleared, FilesTellTheRun, NothingStale, ReportMatchesDisk
  <1> QED BY <1>11, <1>12, <1>13, <1>14, <1>15, <1>16, <1>17, <1>18, <1>19, <1>20 DEF FetchInv

LEMMA TakeNothingKeeps ==
  ASSUME FetchInv, NEW w \in Workers, TakeNothing(w)
  PROVE  FetchInv'
  <1>1. /\ fb.pc = "work" /\ worker[w].pc = "free" /\ LanesEmpty
        /\ worker' = [worker EXCEPT ![w].pc = "ended"]
        /\ fb' = fb /\ disk' = disk /\ run' = run /\ answer' = answer /\ noAuth' = noAuth /\ outcome' = outcome
        /\ lanes' = lanes /\ cursor' = cursor /\ waits' = waits
    BY DEF TakeNothing, oracle, LanesEmpty
  <1>2. worker \in [Workers -> [pc : {"none", "free", "fetching", "writing", "opened", "ended"}, item : Nat]]
    BY DEF FetchInv, FetchType
  <1>3. worker' \in [Workers -> [pc : {"none", "free", "fetching", "writing", "opened", "ended"}, item : Nat]]
    BY <1>1, <1>2
  <1>4. \A v \in Workers : IF v = w THEN worker'[v].pc = "ended" ELSE worker'[v] = worker[v]
    BY <1>1, <1>2
  <1>5. \A v \in Workers : \A j : Holds(v, j)' <=> Holds(v, j)
    BY <1>1 DEF Holds
  <1>6. \A j : Queued(j)' <=> Queued(j)
    BY <1>1 DEF Queued
  <1>7. FetchType'
    BY <1>1, <1>3 DEF FetchInv, FetchType
  <1>8. InOnePlace'
    <2>1. \A v \in Workers : worker'[v].pc \in AtWork => worker[v].pc \in AtWork /\ worker'[v] = worker[v]
      BY <1>4 DEF AtWork
    <2> QED BY <1>1, <1>5, <1>6 DEF FetchInv, InOnePlace
  <1>9. OutcomesTell'
    <2>1. \A j : FileOf(j)' = FileOf(j) /\ AnswerOf(j)' = AnswerOf(j) /\ Whole' = Whole /\ Torn' = Torn
                 /\ (Reachable(j)' <=> Reachable(j))
      BY <1>1 DEF FileOf, AnswerOf, Whole, Torn, Reachable
    <2>2. \A v \in Workers : worker'[v].pc \in AtWork => worker'[v] = worker[v]
      BY <1>4 DEF AtWork
    <2>3. \A v \in Workers : worker'[v].pc \in AtWork =>
             FileOf(worker[v].item)' = FileOf(worker[v].item) /\ AnswerOf(worker[v].item)' = AnswerOf(worker[v].item)
      BY <1>1 DEF FileOf, AnswerOf
    <2> QED BY <1>1, <1>6, <2>1 DEF FetchInv, OutcomesTell
  <1>10. InOrder'
    BY <1>1 DEF FetchInv, InOrder, LanesEmpty
  <1> QED BY <1>1, <1>7, <1>8, <1>9, <1>10, WorkerFrame DEF FetchInv

LEMMA RespondKeeps ==
  ASSUME FetchInv, NEW w \in Workers, Respond(w)
  PROVE  FetchInv'
  <1> DEFINE item == worker[w].item
             kind == AnswerOf(item)
  <1>1. /\ fb.pc = "work" /\ worker[w].pc = "fetching" /\ worker[w].pc \in AtWork
        /\ fb' = fb /\ disk' = disk /\ run' = run /\ answer' = answer /\ noAuth' = noAuth
        /\ lanes' = lanes /\ cursor' = cursor /\ waits' = waits
    BY DEF Respond, oracle, AtWork
  <1>2. /\ item \in Indices /\ outcome[item] = Null /\ FileOf(item) = Null
        /\ \A j : FileOf(j)' = FileOf(j)
    BY <1>1, HeldItem DEF FetchInv, OutcomesTell, FileOf
  <1>3. ASSUME NEW k \in {"skipped", "failed"}, Record(w, k),
               k = "skipped" => kind = "optional", k = "failed" => kind = "error"
        PROVE  FetchInv'
    <2>1. /\ outcome' \in [Indices -> {Null, "processed", "skipped", "failed", "fatal"}]
          /\ worker' \in [Workers -> [pc : {"none", "free", "fetching", "writing", "opened", "ended"}, item : Nat]]
          /\ \A j \in Indices : outcome'[j] = IF j = item THEN k ELSE outcome[j]
          /\ \A v \in Workers : IF v = w THEN worker'[v].pc \notin AtWork ELSE worker'[v] = worker[v]
          /\ InOnePlace' /\ InOrder'
      BY <1>1, <1>3, RecordStep
    <2>2. FetchType'
      BY <1>1, <2>1 DEF FetchInv, FetchType
    <2>3. OutcomesTell'
      BY <1>1, <1>2, <1>3, <2>1, OutcomesFrame
    <2> QED BY <1>1, <2>1, <2>2, <2>3, WorkerFrame DEF FetchInv
  <1>4. ASSUME kind \in {"items", "unwritable"}, worker' = [worker EXCEPT ![w].pc = "writing"], outcome' = outcome
        PROVE  FetchInv'
    <2>1. /\ worker' \in [Workers -> [pc : {"none", "free", "fetching", "writing", "opened", "ended"}, item : Nat]]
          /\ \A v \in Workers : worker'[v].item = worker[v].item
                                /\ worker'[v].pc = IF v = w THEN "writing" ELSE worker[v].pc
          /\ InOnePlace' /\ InOrder'
      BY <1>1, <1>4, AdvanceStep DEF AtWork
    <2>2. FetchType'
      BY <1>1, <1>4 DEF FetchInv, FetchType
    <2>3. \A v \in Workers : v # w => worker'[v] = worker[v]
      BY <1>4
    <2>4. outcome'[item] = Null
      BY <1>2, <1>4
    <2>5. OutcomesTell'
      BY <1>1, <1>2, <1>4, OutcomesFrame, FetchAssumption
    <2> QED BY <1>1, <2>1, <2>2, <2>5, WorkerFrame DEF FetchInv
  <1>5. kind \in {"items", "unwritable", "optional", "error"}
    BY <1>2, WantedIndices DEF FetchInv, FetchType, Kinds, AnswerOf
  <1> QED BY <1>3, <1>4, <1>5 DEF Respond, AnswerOf

LEMMA OpenFileKeeps ==
  ASSUME FetchInv, NEW w \in Workers, OpenFile(w)
  PROVE  FetchInv'
  <1> PICK item \in Indices : item = worker[w].item
    BY HeldItem DEF OpenFile, AtWork
  <1>1. /\ fb.pc = "work" /\ worker[w].pc = "writing" /\ worker[w].pc \in AtWork
        /\ fb' = fb /\ run' = run /\ answer' = answer /\ noAuth' = noAuth
        /\ lanes' = lanes /\ cursor' = cursor /\ waits' = waits
    BY DEF OpenFile, oracle, AtWork
  <1>2. item \in Indices /\ outcome[item] = Null /\ FileOf(item) = Null
        /\ AnswerOf(item) \in {"items", "unwritable"}
    BY <1>1, HeldItem DEF FetchInv, OutcomesTell
  <1>3. CASE AnswerOf(item) = "unwritable" /\ Record(w, "fatal") /\ UNCHANGED disk
    <2>1. /\ outcome' \in [Indices -> {Null, "processed", "skipped", "failed", "fatal"}]
          /\ worker' \in [Workers -> [pc : {"none", "free", "fetching", "writing", "opened", "ended"}, item : Nat]]
          /\ \A j \in Indices : outcome'[j] = IF j = item THEN "fatal" ELSE outcome[j]
          /\ \A v \in Workers : IF v = w THEN worker'[v].pc \notin AtWork ELSE worker'[v] = worker[v]
          /\ InOnePlace' /\ InOrder'
      BY <1>1, <1>3, RecordStep
    <2>2. FetchType'
      BY <1>1, <1>3, <2>1 DEF FetchInv, FetchType
    <2>3. \A j : FileOf(j)' = FileOf(j)
      BY <1>3 DEF FileOf
    <2>4. OutcomesTell'
      BY <1>1, <1>2, <1>3, <2>1, <2>3, OutcomesFrame
    <2> QED BY <1>1, <1>3, <2>1, <2>2, <2>4, WorkerFrame DEF FetchInv
  <1>4. CASE /\ disk' = [disk EXCEPT ![Wanted[item]] = [run |-> run, torn |-> TRUE]]
             /\ worker' = [worker EXCEPT ![w].pc = "opened"] /\ UNCHANGED outcome
    <2>1. /\ worker' \in [Workers -> [pc : {"none", "free", "fetching", "writing", "opened", "ended"}, item : Nat]]
          /\ \A v \in Workers : worker'[v].item = worker[v].item
                                /\ worker'[v].pc = IF v = w THEN "opened" ELSE worker[v].pc
          /\ InOnePlace' /\ InOrder'
      BY <1>1, <1>4, AdvanceStep DEF AtWork
    <2>2. /\ disk' \in [Resources -> {Null} \cup [run : Nat, torn : BOOLEAN]]
          /\ \A j \in Indices : FileOf(j)' = IF j = item THEN Torn ELSE FileOf(j)
          /\ Cleared' /\ FilesTellTheRun'
      BY <1>1, <1>4, WriteStep DEF Torn
    <2>3. FetchType'
      BY <1>1, <1>4, <2>2 DEF FetchInv, FetchType
    <2>4. \A v \in Workers : v # w => worker'[v] = worker[v]
      BY <1>4
    <2>5. outcome'[item] = Null /\ \A j : outcome'[j] = outcome[j]
      BY <1>2, <1>4
    <2>6. OutcomesTell'
      <3>1. \A j \in Indices : j # item => outcome'[j] = outcome[j] /\ FileOf(j)' = FileOf(j)
        BY <2>2, <2>5
      <3>2. FileOf(item)' = Torn
        BY <2>2
      <3> QED BY <1>1, <1>2, <2>1, <2>4, <2>5, <3>1, <3>2, OutcomesFrame, FetchAssumption
    <2> QED BY <1>1, <2>1, <2>2, <2>3, <2>6, WorkerFrame DEF FetchInv
  <1> QED BY <1>3, <1>4 DEF OpenFile, AnswerOf

LEMMA WriteFileKeeps ==
  ASSUME FetchInv, NEW w \in Workers, WriteFile(w)
  PROVE  FetchInv'
  <1> DEFINE item == worker[w].item
  <1>1. /\ fb.pc = "work" /\ worker[w].pc = "opened" /\ worker[w].pc \in AtWork
        /\ fb' = fb /\ run' = run /\ answer' = answer /\ noAuth' = noAuth
        /\ lanes' = lanes /\ cursor' = cursor /\ waits' = waits
    BY DEF WriteFile, oracle, AtWork
  <1>2. item \in Indices /\ outcome[item] = Null /\ FileOf(item) = Torn
    BY <1>1, HeldItem DEF FetchInv, OutcomesTell
  <1>3. ASSUME NEW kind \in {"processed", "fatal"}, Record(w, kind)
        PROVE  /\ outcome' \in [Indices -> {Null, "processed", "skipped", "failed", "fatal"}]
               /\ worker' \in [Workers -> [pc : {"none", "free", "fetching", "writing", "opened", "ended"}, item : Nat]]
               /\ \A j \in Indices : outcome'[j] = IF j = item THEN kind ELSE outcome[j]
               /\ \A v \in Workers : IF v = w THEN worker'[v].pc \notin AtWork ELSE worker'[v] = worker[v]
               /\ InOnePlace' /\ InOrder'
    BY <1>1, <1>3, RecordStep
  <1>4. CASE AnswerOf(item) = "unwritable" /\ Record(w, "fatal") /\ UNCHANGED disk
    <2>1. FetchType'
      BY <1>1, <1>3, <1>4 DEF FetchInv, FetchType
    <2>2. \A j : FileOf(j)' = FileOf(j)
      BY <1>4 DEF FileOf
    <2>3. OutcomesTell'
      BY <1>1, <1>2, <1>3, <1>4, <2>2, OutcomesFrame
    <2> QED BY <1>1, <1>3, <1>4, <2>1, <2>3, WorkerFrame DEF FetchInv
  <1>5. CASE /\ AnswerOf(item) = "items" /\ Record(w, "processed")
             /\ disk' = [disk EXCEPT ![Wanted[item]] = [run |-> run, torn |-> FALSE]]
    <2>1. /\ disk' \in [Resources -> {Null} \cup [run : Nat, torn : BOOLEAN]]
          /\ \A j \in Indices : FileOf(j)' = IF j = item THEN Whole ELSE FileOf(j)
          /\ Cleared' /\ FilesTellTheRun'
      BY <1>1, <1>2, <1>5, WriteStep DEF Whole
    <2>2. FetchType'
      BY <1>1, <1>3, <1>5 DEF FetchInv, FetchType
    <2>3. OutcomesTell'
      BY <1>1, <1>2, <1>3, <1>5, <2>1, OutcomesFrame
    <2> QED BY <1>1, <1>3, <1>5, <2>1, <2>2, <2>3, WorkerFrame DEF FetchInv
  <1> QED BY <1>4, <1>5 DEF WriteFile, AnswerOf



\* Nothing is left with a worker when all have ended.
LEMMA JoinKeeps ==
  ASSUME FetchInv, Join
  PROVE  FetchInv'
  <1>1. /\ fb.pc = "work" /\ \A w \in Workers : worker[w].pc = "ended"
        /\ disk' = disk /\ run' = run /\ answer' = answer /\ noAuth' = noAuth /\ outcome' = outcome
        /\ lanes' = lanes /\ cursor' = cursor /\ worker' = worker /\ waits' = waits
    BY DEF Join, oracle, queues
  <1>2. /\ fb' \in Batches /\ fb'.pc = "emit" /\ fb'.concurrency = fb.concurrency
        /\ fb'.asked = fb.asked /\ fb'.authed = fb.authed /\ fb'.failedAuth = fb.failedAuth
        /\ fb'.products = fb.products /\ fb'.requested = fb.requested
    BY DEF FetchInv, FetchType, Batches, Join
  <1>3. FetchType'
    BY <1>1, <1>2 DEF FetchInv, FetchType
  <1>4. Identified'
    BY <1>1, <1>2 DEF FetchInv, Identified, AfterAuth
  <1>5. AskedOnce'
    BY <1>2 DEF FetchInv, AskedOnce
  <1>6. Cleared'
    BY <1>1, <1>2 DEF FetchInv, Cleared
  <1>7. \A j : (Queued(j)' <=> Queued(j)) /\ \A w : (Holds(w, j)' <=> Holds(w, j))
    BY <1>1 DEF Queued, Holds
  <1>8. InOnePlace'
    BY <1>1, <1>7 DEF FetchInv, InOnePlace
  <1>9. OutcomesTell'
    <2>1. \A j : FileOf(j)' = FileOf(j) /\ AnswerOf(j)' = AnswerOf(j) /\ Whole' = Whole /\ Torn' = Torn
                 /\ (Reachable(j)' <=> Reachable(j))
      BY <1>1, <1>2 DEF FileOf, AnswerOf, Whole, Torn, Reachable
    <2> QED BY <1>1, <1>7, <2>1 DEF FetchInv, OutcomesTell
  <1>10. InOrder'
    <2>1. (LanesEmpty' <=> LanesEmpty) /\ (StoppedAtFatal' <=> StoppedAtFatal)
      BY <1>1, <1>2 DEF LanesEmpty, StoppedAtFatal
    <2> QED BY <1>1, <1>2, <2>1 DEF FetchInv, InOrder
  <1>11. Rotates'
    BY <1>1 DEF FetchInv, Rotates
  <1>12. ReportTells'
    BY <1>2 DEF ReportTells
  <1>13. FilesTellTheRun'
    BY <1>1, <1>2 DEF FetchInv, FilesTellTheRun, NothingStale, ReportMatchesDisk
  <1> QED BY <1>3, <1>4, <1>5, <1>6, <1>8, <1>9, <1>10, <1>11, <1>12, <1>13 DEF FetchInv

-----------------------------------------------------------------------------
(* The report *)

\* What was authenticated, product after product, is what the answers alone determine.
LEMMA ReachableIsAuthenticated ==
  ASSUME FetchInv, fb.pc \in AfterAuth
  PROVE  \A i \in Indices : Reachable(i) <=> Authenticated(ProductOf[Wanted[i]])
  <1>1. Decided(Len(Products) + 1, noAuth, fb.authed, fb.failedAuth, fb.products)
    BY DEF FetchInv, Identified
  <1>2. 1..(Len(Products) + 1 - 1) = 1..Len(Products)
    OBVIOUS
  <1> TAKE i \in Indices
  <1> DEFINE p == ProductOf[Wanted[i]]
  <1>3. p \in ProductSet /\ IdentityOf[p] \in Identities /\ Needed(p)
    BY WantedIndices DEF Needed
  <1>4. p \in fb.products <=> IdentityOf[p] \in fb.authed
    BY <1>1, <1>3, WantedIndices DEF Decided
  <1>5. IdentityOf[p] \in fb.authed <=>
           \E n \in 1..Len(Products) : First(n) /\ Accepted(n, noAuth) /\ IdentityOf[Products[n]] = IdentityOf[p]
    BY <1>1, <1>3 DEF Decided
  <1> QED BY <1>4, <1>5 DEF First, Accepted, Authenticated, Reachable

\* When the workers are gone, only the items behind a fatal one are without an outcome, and
\* the files are what the outcomes say.
LEMMA OutcomesAtTheEnd ==
  ASSUME FetchInv, fb.pc = "emit"
  PROVE  \A i \in Indices :
           /\ outcome[i] \in {Null, "processed", "skipped", "failed", "fatal"}
           /\ outcome[i] = Null =>
                FileOf(i) = Null /\ \E f \in Indices : f < i /\ outcome[f] = "fatal"
           /\ outcome[i] = "processed" => FileOf(i) = Whole
           /\ outcome[i] \in {"skipped", "failed"} => FileOf(i) = Null
           /\ Wanted[i] \in Answered({"items"}) => outcome[i] \in {Null, "processed"}
           /\ Wanted[i] \in Answered({"optional"}) => outcome[i] \in {Null, "skipped"}
           /\ Wanted[i] \in Answered({"unwritable"}) => outcome[i] \in {Null, "fatal"}
           /\ outcome[i] = "processed" => Wanted[i] \in Answered({"items"})
           /\ outcome[i] = "skipped" => Wanted[i] \in Answered({"optional"})
           /\ outcome[i] = "failed" => Wanted[i] \notin Answered({"items", "optional"})
           /\ outcome[i] = "fatal" => Wanted[i] \in Answered({"unwritable"})
  <1> TAKE i \in Indices
  <1>1. \A w \in Workers : worker[w].pc = "ended"
    BY DEF FetchInv, InOrder
  <1>2. outcome[i] \in {Null, "processed", "skipped", "failed", "fatal"}
    BY DEF FetchInv, FetchType
  <1>3. outcome[i] = Null => Queued(i)
    BY <1>1 DEF FetchInv, InOnePlace, Holds
  <1>4. outcome[i] = Null => FileOf(i) = Null /\ \E f \in Indices : f < i /\ outcome[f] = "fatal"
    BY <1>3 DEF FetchInv, InOrder, LanesEmpty, StoppedAtFatal, Queued, OutcomesTell
  <1>5. /\ outcome[i] \in {Null, "processed", "skipped", "fatal"} => Reachable(i)
        /\ outcome[i] = "processed" => AnswerOf(i) = "items" /\ FileOf(i) = Whole
        /\ outcome[i] = "skipped" => AnswerOf(i) = "optional" /\ FileOf(i) = Null
        /\ outcome[i] = "failed" => (~Reachable(i) \/ AnswerOf(i) = "error") /\ FileOf(i) = Null
        /\ outcome[i] = "fatal" => AnswerOf(i) = "unwritable"
    BY DEF FetchInv, OutcomesTell
  <1>6. \A kinds : Wanted[i] \in Answered(kinds) <=> Reachable(i) /\ AnswerOf(i) \in kinds
    BY ReachableIsAuthenticated, WantedIndices DEF AfterAuth, Answered, AnswerOf
  <1> QED BY <1>2, <1>4, <1>5, <1>6

\* The first fatal outcome is what the answers say it is: an item without an outcome is
\* never the first, and when there is none every outcome tells its answer and its file.
LEMMA EmitKeeps ==
  ASSUME FetchInv, Emit
  PROVE  FetchInv'
  <1>1. /\ fb.pc = "emit" /\ fb \in Batches
        /\ disk' = disk /\ run' = run /\ answer' = answer /\ noAuth' = noAuth /\ outcome' = outcome
        /\ lanes' = lanes /\ cursor' = cursor /\ worker' = worker /\ waits' = waits
    BY DEF FetchInv, FetchType, Emit, oracle, queues
  <1>2. ASSUME /\ fb' \in Batches /\ fb'.pc \in {"done", "failed"} /\ fb'.asked = fb.asked
               /\ fb'.requested = fb.requested /\ ReportTells' /\ FilesTellTheRun'
        PROVE  FetchInv'
    <2>1. FetchType'
      BY <1>1, <1>2 DEF FetchInv, FetchType
    <2>2. Identified' /\ AskedOnce'
      BY <1>2 DEF FetchInv, Identified, AfterAuth, AskedOnce
    <2>3. Cleared'
      BY <1>1, <1>2 DEF FetchInv, Cleared
    <2>4. (InOnePlace /\ OutcomesTell /\ InOrder)'
      BY <1>2 DEF InOnePlace, OutcomesTell, InOrder
    <2>5. Rotates'
      BY <1>1 DEF FetchInv, Rotates
    <2> QED BY <1>2, <2>1, <2>2, <2>3, <2>4, <2>5 DEF FetchInv
  <1>3. \A kinds : Answered(kinds)' = Answered(kinds)
    BY <1>1 DEF Answered, Authenticated
  <1>5. fb'.requested = fb.requested => NothingStale'
    BY <1>1 DEF FetchInv, FilesTellTheRun, NothingStale
  <1>6. ASSUME NEW i \in Indices, outcome[i] \in {"fatal", Null},
               \A j \in 1..(i - 1) : outcome[j] \notin {"fatal", Null}, BatchFails(i)
        PROVE  FetchInv'
    <2>1. /\ fb' \in Batches /\ fb'.pc = "failed" /\ fb'.err = i /\ fb'.asked = fb.asked
          /\ fb'.requested = fb.requested
      <3>1. i \in Nat
        BY WantedIndices
      <3> QED BY <1>1, <1>6, <3>1 DEF BatchFails, Batches
    <2>2. \A j \in 1..(i - 1) : j \in Indices
      BY WantedIndices
    <2>3. outcome[i] = "fatal"
      <3> SUFFICES ASSUME outcome[i] = Null PROVE FALSE
        BY <1>6
      <3> PICK f \in Indices : f < i /\ outcome[f] = "fatal"
        BY <1>1, OutcomesAtTheEnd
      <3>1. f \in 1..(i - 1)
        BY WantedIndices
      <3> QED BY <1>6, <3>1
    <2>4. ReportTells'
      <3>1. Wanted[i] \in Answered({"unwritable"})
        BY <1>1, <2>3, OutcomesAtTheEnd
      <3>2. \A j \in 1..(i - 1) : Wanted[j] \notin Answered({"unwritable"})
        BY <1>1, <1>6, <2>2, OutcomesAtTheEnd
      <3> QED BY <1>3, <2>1, <3>1, <3>2 DEF ReportTells
    <2>5. ReportMatchesDisk'
      <3>1. ASSUME NEW r \in Resources, disk[r] # Null, disk[r].torn PROVE answer[r] = "unwritable"
        <4> PICK j \in Indices : Wanted[j] = r
          BY WantedIndices
        <4>1. FileOf(j) # Null /\ FileOf(j) # Whole
          BY <3>1 DEF FileOf, Whole
        <4>2. outcome[j] = "fatal"
          BY <1>1, <4>1, OutcomesAtTheEnd
        <4> QED BY <1>1, <4>2 DEF FetchInv, OutcomesTell, AnswerOf
      <3> QED BY <1>1, <2>1, <3>1 DEF ReportMatchesDisk
    <2> QED BY <1>2, <1>5, <2>1, <2>4, <2>5 DEF FilesTellTheRun
  <1>7. ASSUME \A i \in Indices : outcome[i] \notin {"fatal", Null},
               fb' = [fb EXCEPT !.pc = "done", !.processed = Recorded("processed"),
                                !.skipped = Recorded("skipped"), !.failed = Recorded("failed")]
        PROVE  FetchInv'
    <2>1. \A kind : Recorded(kind) \subseteq Resources
      BY WantedIndices DEF Recorded
    <2>2. /\ fb' \in Batches /\ fb'.pc = "done" /\ fb'.asked = fb.asked /\ fb'.requested = fb.requested
          /\ fb'.processed = Recorded("processed") /\ fb'.skipped = Recorded("skipped")
          /\ fb'.failed = Recorded("failed")
      <3> DEFINE processed == Recorded("processed")
                 skipped == Recorded("skipped")
                 failed == Recorded("failed")
      <3>1. processed \in SUBSET Resources /\ skipped \in SUBSET Resources /\ failed \in SUBSET Resources
        BY <2>1
      <3>2. fb' = [fb EXCEPT !.pc = "done", !.processed = processed, !.skipped = skipped, !.failed = failed]
        BY <1>7
      <3> HIDE DEF processed, skipped, failed
      <3>3. /\ fb' \in Batches /\ fb'.pc = "done" /\ fb'.asked = fb.asked /\ fb'.requested = fb.requested
            /\ fb'.processed = processed /\ fb'.skipped = skipped /\ fb'.failed = failed
        BY <1>1, <3>1, <3>2 DEF Batches
      <3> QED BY <3>3 DEF processed, skipped, failed
    <2>3. \A i \in Indices : \A kind : Wanted[i] \in Recorded(kind) <=> outcome[i] = kind
      BY WantedIndices DEF Recorded
    <2>4. ReportTells'
      <3>1. \A kinds : Answered(kinds) \subseteq Resources
        BY DEF Answered
      <3>2. \A i \in Indices :
              /\ Wanted[i] \in Recorded("processed") <=> Wanted[i] \in Answered({"items"})
              /\ Wanted[i] \in Recorded("skipped") <=> Wanted[i] \in Answered({"optional"})
        BY <1>1, <1>7, <2>3, OutcomesAtTheEnd
      <3>3. \A i \in Indices : Wanted[i] \in Recorded("failed") <=> Wanted[i] \notin Answered({"items", "optional"})
        <4>1. \A i \in Indices : Wanted[i] \in Answered({"items", "optional"}) <=>
                 Wanted[i] \in Answered({"items"}) \/ Wanted[i] \in Answered({"optional"})
          BY DEF Answered
        <4> QED BY <1>1, <1>7, <2>3, <4>1, OutcomesAtTheEnd
      <3>4. /\ Recorded("processed") = Answered({"items"}) /\ Recorded("skipped") = Answered({"optional"})
            /\ Recorded("failed") = Resources \ Answered({"items", "optional"})
        <4>1. \A r \in Resources :
                 /\ r \in Recorded("processed") <=> r \in Answered({"items"})
                 /\ r \in Recorded("skipped") <=> r \in Answered({"optional"})
                 /\ r \in Recorded("failed") <=> r \notin Answered({"items", "optional"})
          BY <3>2, <3>3, WantedIndices
        <4>2. Recorded("processed") = Answered({"items"})
          BY <2>1, <3>1, <4>1
        <4>3. Recorded("skipped") = Answered({"optional"})
          BY <2>1, <3>1, <4>1
        <4>4. Recorded("failed") = Resources \ Answered({"items", "optional"})
          BY <2>1, <4>1
        <4> QED BY <4>2, <4>3, <4>4
      <3> QED BY <1>3, <2>2, <3>4 DEF ReportTells
    <2>5. ReportMatchesDisk'
      <3>1. ASSUME NEW r \in Resources
            PROVE  disk[r] = (IF r \in Recorded("processed") THEN [run |-> run, torn |-> FALSE] ELSE Null)
        <4> PICK i \in Indices : Wanted[i] = r
          BY WantedIndices
        <4>1. FileOf(i) = (IF outcome[i] = "processed" THEN Whole ELSE Null)
          BY <1>1, <1>7, OutcomesAtTheEnd
        <4> QED BY <2>3, <4>1 DEF FileOf, Whole
      <3> QED BY <1>1, <2>2, <3>1 DEF ReportMatchesDisk
    <2> QED BY <1>2, <1>5, <2>2, <2>4, <2>5 DEF FilesTellTheRun
  <1> QED BY <1>6, <1>7 DEF Emit

LEMMA FetchCrashKeeps ==
  ASSUME FetchInv, FetchCrash
  PROVE  FetchInv'
  <1>1. /\ disk' = disk /\ run' = run /\ answer' = answer /\ noAuth' = noAuth /\ outcome' = outcome
        /\ lanes' = lanes /\ cursor' = cursor /\ worker' = worker /\ waits' = waits
    BY DEF FetchCrash, oracle, queues
  <1>2. /\ fb' \in Batches /\ fb'.pc = "crashed" /\ fb'.asked = fb.asked /\ fb'.requested = fb.requested
    BY DEF FetchInv, FetchType, Batches, FetchCrash
  <1>3. FetchType'
    BY <1>1, <1>2 DEF FetchInv, FetchType
  <1>4. (Identified /\ AskedOnce)'
    BY <1>2 DEF FetchInv, Identified, AfterAuth, AskedOnce
  <1>5. Cleared'
    BY <1>1, <1>2 DEF FetchInv, Cleared
  <1>6. (InOnePlace /\ OutcomesTell /\ InOrder /\ ReportTells)'
    BY <1>2 DEF InOnePlace, OutcomesTell, InOrder, ReportTells
  <1>7. Rotates'
    BY <1>1 DEF FetchInv, Rotates
  <1>8. FilesTellTheRun'
    BY <1>1, <1>2 DEF FetchInv, FilesTellTheRun, NothingStale, ReportMatchesDisk
  <1> QED BY <1>3, <1>4, <1>5, <1>6, <1>7, <1>8 DEF FetchInv

-----------------------------------------------------------------------------
LEMMA StutterKeepsFetchInv ==
  ASSUME FetchInv, UNCHANGED vars
  PROVE  FetchInv'
  <1>1. /\ disk' = disk /\ run' = run /\ answer' = answer /\ noAuth' = noAuth /\ fb' = fb
        /\ outcome' = outcome /\ lanes' = lanes /\ cursor' = cursor /\ worker' = worker /\ waits' = waits
    BY DEF vars
  <1>2. (FetchType /\ Identified /\ AskedOnce /\ Cleared /\ Rotates /\ FilesTellTheRun)'
    BY <1>1 DEF FetchInv, FetchType, Identified, AskedOnce, Cleared, Rotates, FilesTellTheRun, NothingStale,
           ReportMatchesDisk
  <1>3. \A j : (Queued(j)' <=> Queued(j)) /\ (Reachable(j)' <=> Reachable(j)) /\ \A w : (Holds(w, j)' <=> Holds(w, j))
    BY <1>1 DEF Queued, Holds, Reachable
  <1>4. InOnePlace'
    BY <1>1, <1>3 DEF FetchInv, InOnePlace
  <1>5. OutcomesTell'
    <2>1. \A j : FileOf(j)' = FileOf(j) /\ AnswerOf(j)' = AnswerOf(j) /\ Whole' = Whole /\ Torn' = Torn
      BY <1>1 DEF FileOf, AnswerOf, Whole, Torn
    <2> QED BY <1>1, <1>3, <2>1 DEF FetchInv, OutcomesTell
  <1>6. InOrder'
    <2>1. (LanesEmpty' <=> LanesEmpty) /\ (StoppedAtFatal' <=> StoppedAtFatal)
      BY <1>1 DEF LanesEmpty, StoppedAtFatal
    <2> QED BY <1>1, <2>1 DEF FetchInv, InOrder
  <1>7. ReportTells'
    <2>1. \A kinds : Answered(kinds)' = Answered(kinds)
      BY <1>1 DEF Answered, Authenticated
    <2> QED BY <1>1, <2>1 DEF FetchInv, ReportTells
  <1> QED BY <1>2, <1>4, <1>5, <1>6, <1>7 DEF FetchInv

LEMMA NextKeepsFetchInv ==
  ASSUME FetchInv, [Next]_vars
  PROVE  FetchInv'
  BY StartFetchKeeps, AuthenticateKeeps, MakeDirectoryKeeps, InvalidateKeeps, AssignKeeps, TakeKeeps,
     TakeNothingKeeps, RespondKeeps, OpenFileKeeps, WriteFileKeeps, JoinKeeps, EmitKeeps, FetchCrashKeeps,
     StutterKeepsFetchInv DEF Next, BatchStep, WorkerStep

LEMMA FetchInvariant == Spec => []FetchInv
  <1>1. Init => FetchInv
    BY InitFetchInv
  <1>2. FetchInv /\ [Next]_vars => FetchInv'
    BY NextKeepsFetchInv
  <1> QED BY <1>1, <1>2, PTL DEF Spec

\* The lanes passed since one was served are other lanes.
LEMMA PassedAreOthers ==
  ASSUME FetchInv PROVE NoProductStarves
  <1> DEFINE D == DOMAIN lanes
  <1>1. D \subseteq 1..Len(Products) \cup {1} /\ waits \in [D -> Nat] /\ cursor \in Nat
    BY DEF FetchInv, FetchType
  <1>2. IsFiniteSet(D)
    <2>1. IsFiniteSet(1..Len(Products))
      BY FS_Interval
    <2>2. IsFiniteSet({1})
      BY FS_Singleton
    <2>3. IsFiniteSet(1..Len(Products) \cup {1})
      BY <2>1, <2>2, FS_Union
    <2> QED BY <1>1, <2>3, FS_Subset
  <1>3. ASSUME NEW n \in D PROVE waits[n] < Cardinality(D)
    <2>1. waits[n] <= Cardinality(PassedSince(n, D, cursor)) /\ waits[n] \in Nat
      BY <1>1 DEF FetchInv, Rotates
    <2>2. PassedSince(n, D, cursor) \subseteq D \ {n}
      BY <1>1 DEF PassedSince
    <2>3. IsFiniteSet(D \ {n}) /\ Cardinality(D \ {n}) = Cardinality(D) - 1
      BY <1>2, FS_RemoveElement
    <2>4. Cardinality(PassedSince(n, D, cursor)) <= Cardinality(D \ {n})
          /\ IsFiniteSet(PassedSince(n, D, cursor))
      BY <2>2, <2>3, FS_Subset
    <2>5. Cardinality(PassedSince(n, D, cursor)) \in Nat /\ Cardinality(D) \in Nat
      BY <1>2, <2>4, FS_CardinalityType
    <2> QED BY <2>1, <2>3, <2>4, <2>5
  <1> QED BY <1>3 DEF NoProductStarves

-----------------------------------------------------------------------------
\* The report of a run is a function of its answers, whatever the concurrency and the order
\* of the workers, and no identity is asked for twice (the collect-then-emit barrier of
\* fetchResourcesBatch and its loop over the products).
THEOREM ReportNeverDependsOnTheOrder == Spec => []ReportIsOrderFree
  <1>1. FetchInv => ReportIsOrderFree
    BY DEF FetchInv, ReportTells, AskedOnce, ReportIsOrderFree
  <1> QED BY <1>1, FetchInvariant, PTL

\* While a product has resources left, the takes that pass it over are fewer than the
\* products: its turn comes (the rotation of runFetchWorkers).
THEOREM ProductsTakeTurns == Spec => []NoProductStarves
  BY PassedAreOthers, FetchInvariant, PTL

\* Once a request is out no selected destination is older than the run, and what the run
\* reports is what the disk holds, through failed writes and kills (the barrier and the
\* writes of fetchResourcesBatch).
THEOREM FilesAlwaysTellTheRun == Spec => []FilesTellTheRun
  <1>1. FetchInv => FilesTellTheRun
    BY DEF FetchInv
  <1> QED BY <1>1, FetchInvariant, PTL
=============================================================================
