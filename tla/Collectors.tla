------------------------------ MODULE Collectors ------------------------------
(* What one registry resource is collected from: collectors/rest.go (paths, pages,      *)
(* merged and followed collections), zscaler_adapters.go (credentials and URLs of the   *)
(* products) and selection.go. The batch that calls this is FetchBatch, the transport   *)
(* under it HttpTransport. A path is a sequence: its template, and the value that fills *)
(* the placeholder, if it has one. site[path] is what the server answers: its pages.    *)
EXTENDS Values, Absent

CONSTANTS
    ZiaPageSize, ZiaMaxPages, ZccPageSize, ZccMaxPages,
    UnsafeSegments   \* values and templates that would change the path around them

ASSUME CollectorsAssumption ==
    {ZiaPageSize, ZiaMaxPages, ZccPageSize, ZccMaxPages} \subseteq Nat \ {0}

\* Fields and objects of answers.
Truthy(v) == v \notin {Nil, Bool(FALSE), Number(0), Text(""), List(<<>>), Object(<<>>)}
Items(v) == IF Is(v, "list") THEN [items |-> v[2]] ELSE Failed("not a list page")

\* What a server says of a page: nothing of a page or a path it does not have.
Answer(site, path, k) ==
    IF path \in DOMAIN site /\ k \in DOMAIN site[path] THEN site[path][k]
    ELSE [status |-> 404, payload |-> Null]
GetJSON(response) == IF response.status # 200 THEN Failed(response.status)
                     ELSE IF response.payload = Null THEN Failed("not JSON")
                     ELSE [value |-> response.payload]

----------------------------------------------------------------------------------
(* Results of requests made one after the other: the first that is refused refuses all. *)
Refusals(results) == {k \in DOMAIN results : HasFailed(results[k])}
InTurn(results) ==
    IF Refusals(results) # {} THEN results[Min(Refusals(results))]
    ELSE [items |-> FlattenSeq([k \in DOMAIN results |-> results[k].items])]
\* The pages up to the first that is refused or ends the collection.
UpTo(results, ends) ==
    LET stops == Refusals(results) \cup ends
    IN  IF stops = {} THEN Failed("max pages") ELSE InTurn([k \in 1..Min(stops) |-> results[k]])

----------------------------------------------------------------------------------
(* The four ways to page. A page that is refused refuses the whole resource.            *)
ZiaBatch(response, envelope) ==
    LET got == GetJSON(response) IN
    IF HasFailed(got) THEN got
    ELSE IF envelope = Null THEN Items(got.value)
    ELSE IF ~Is(got.value, "object") \/ envelope \notin DOMAIN got.value[2]
         THEN Failed("no envelope")
         ELSE Items(got.value[2][envelope])

PaginateZia(entry, site, path) ==
    LET batches == [k \in 1..ZiaMaxPages |-> ZiaBatch(Answer(site, path, k), entry.envelope)]
    IN  UpTo(batches, {k \in DOMAIN batches : /\ ~ HasFailed(batches[k])
                                             /\ Len(batches[k].items) < ZiaPageSize})

\* A count that the answer spells as a number, a text or a truth value.
CollectorInt(v) ==
    CASE Is(v, "number") -> [int |-> v[2]]
      [] Is(v, "text") -> IF v[2] \in DOMAIN IntegerOf THEN [int |-> IntegerOf[v[2]]]
                          ELSE Failed("totalPages")
      [] Is(v, "bool") -> [int |-> IF v[2] THEN 1 ELSE 0]
      [] OTHER -> Failed("totalPages")

OptionalList(object, f) ==
    IF Truthy(Member(object, f)) THEN Items(object[f]) ELSE [items |-> <<>>]

ZpaBatch(response) ==
    LET got == GetJSON(response) IN
    IF HasFailed(got) THEN got
    ELSE IF ~Is(got.value, "object") THEN Failed("not an object page")
    ELSE LET object == got.value[2]
             batch == OptionalList(object, "list")
             total == IF Truthy(Member(object, "totalPages"))
                      THEN CollectorInt(object["totalPages"]) ELSE [int |-> 1]
         IN  IF HasFailed(batch) THEN batch
             ELSE IF HasFailed(total) THEN total
             ELSE [items |-> batch.items, total |-> IF total.int = 0 THEN 1 ELSE total.int]

\* No bound of its own: it goes on until the server has no further page.
PaginateZpa(site, path) ==
    LET held == IF path \in DOMAIN site THEN Len(site[path]) ELSE 0
        batches == [k \in 1..(held + 1) |-> ZpaBatch(Answer(site, path, k))]
    IN  UpTo(batches, {k \in DOMAIN batches : ~ HasFailed(batches[k]) /\ k >= batches[k].total})

\* A list is the items, anything else is the one item.
PaginateSingle(response) ==
    LET got == GetJSON(response) IN
    IF HasFailed(got) THEN got
    ELSE IF Is(got.value, "list") THEN [items |-> got.value[2]] ELSE [items |-> <<got.value>>]

ZccNumeric(object, f, fallback) ==
    IF f \notin DOMAIN object THEN [int |-> fallback]
    ELSE IF Is(object[f], "number") THEN [int |-> object[f][2]] ELSE Failed("count")

ZccBatch(response) ==
    LET got == GetJSON(response) IN
    IF HasFailed(got) THEN got
    ELSE IF ~Is(got.value, "object") THEN Failed("not an object page")
    ELSE LET object == got.value[2]
             batch == OptionalList(object, "items")
             count == ZccNumeric(object, "count", 0)
             total == ZccNumeric(object, "total", 0)
             limit == ZccNumeric(object, "limit", ZccPageSize)
         IN  IF \E part \in {batch, count, total, limit} : HasFailed(part)
             THEN Failed("count or items")
             ELSE [items |-> batch.items, count |-> count.int, total |-> total.int,
                   limit |-> limit.int]

\* Mutant: a page that reports no total is taken for one that reached it.
StopsWithoutTotal(page, collected) ==
    \/ page.count = 0 \/ page.items = <<>>
    \/ page.limit > 0 /\ page.count < page.limit
    \/ collected >= page.total

IsLastZccPage(page, collected) ==
    \/ page.count = 0 \/ page.items = <<>>
    \/ page.limit > 0 /\ page.count < page.limit
    \/ page.total > 0 /\ collected >= page.total

PaginateZccV2(site, path) ==
    LET batches == [k \in 1..ZccMaxPages |-> ZccBatch(Answer(site, path, k))]
        Until(k) == InTurn([j \in 1..k |-> batches[j]])
    IN  UpTo(batches, {k \in DOMAIN batches : /\ ~ HasFailed(Until(k))
                                             /\ IsLastZccPage(batches[k], Len(Until(k).items))})

----------------------------------------------------------------------------------
FetchOnePath(entry, site, path) ==
    CASE entry.pagination = "zia" -> PaginateZia(entry, site, path)
      [] entry.pagination = "zpa" -> PaginateZpa(site, path)
      [] entry.pagination = "single" -> PaginateSingle(Answer(site, path, 1))
      [] entry.pagination = "zcc_v2" -> PaginateZccV2(site, path)

FetchPaths(entry, site, paths) == InTurn([i \in DOMAIN paths |-> FetchOnePath(entry, site, paths[i])])

\* braces: the placeholders of the template.
ExpandedPaths(entry) ==
    IF entry.path \in UnsafeSegments THEN Failed("path")
    ELSE IF DOMAIN entry.expand = {}
         THEN IF entry.braces # {} THEN Failed("braces") ELSE [paths |-> <<<<entry.path>>>>]
    ELSE IF Cardinality(DOMAIN entry.expand) # 1 \/ entry.braces # DOMAIN entry.expand
         THEN Failed("expand")
    ELSE LET values == entry.expand[CHOOSE k \in DOMAIN entry.expand : TRUE]
         IN  IF Range(values) \cap UnsafeSegments # {} THEN Failed("expansion")
             ELSE [paths |-> [i \in DOMAIN values |-> <<entry.path, values[i]>>]]

MergedFetchRefused(entry) ==
    LET paths == <<entry.path>> \o entry.mergePaths
    IN  \/ entry.pagination # "single" \/ DOMAIN entry.expand # {} \/ entry.braces # {}
        \/ Range(paths) \cap UnsafeSegments # {}
        \/ Cardinality(Range(paths)) # Len(paths)

FetchSingleObject(response) ==
    LET object == GetJSON(response) IN
    IF HasFailed(object) THEN object
    ELSE IF ~Is(object.value, "object") THEN Failed("not one settings object")
    ELSE [settings |-> object.value[2]]

\* Objects with a common member are not merged: neither value may silently win.
FetchMergedSingle(entry, site) ==
    LET paths == <<entry.path>> \o entry.mergePaths
        read == [i \in DOMAIN paths |-> FetchSingleObject(Answer(site, <<paths[i]>>, 1))]
        Of(i) == read[i].settings
    IN  IF MergedFetchRefused(entry) THEN Failed("merge paths")
        ELSE IF Refusals(read) # {} THEN read[Min(Refusals(read))]
        ELSE IF \E i, j \in DOMAIN read : i # j /\ DOMAIN Of(i) \cap DOMAIN Of(j) # {} THEN Failed("collision")
        ELSE [items |-> <<Object([f \in UNION {DOMAIN Of(i) : i \in DOMAIN read} |->
                                    Of(CHOOSE i \in DOMAIN read : f \in DOMAIN Of(i))[f]])>>]

\* An item that has nothing to follow is left out; a value that is no scalar is refused.
FollowItem(entry, site, follow, item) ==
    LET value == IF Is(item, "object") THEN Member(item[2], follow.fromField) ELSE Nil
    IN  IF value = Nil THEN [items |-> <<>>]
        ELSE IF ~Scalar(value) \/ value[2] \in UnsafeSegments THEN Failed("follow value")
        ELSE FetchOnePath(entry, site, <<follow.path, value[2]>>)

FollowRefused(entry) ==
    /\ entry.followPaths # <<>>
    /\ \/ entry.mergePaths # <<>> \/ DOMAIN entry.expand # {}
       \/ \E follow \in Range(entry.followPaths) : follow.path \in UnsafeSegments
       \/ \E i, j \in DOMAIN entry.followPaths :
             i # j /\ entry.followPaths[i].path = entry.followPaths[j].path

FollowPathItems(entry, site, base) ==
    InTurn([i \in DOMAIN entry.followPaths |->
        InTurn([j \in DOMAIN base |-> FollowItem(entry, site, entry.followPaths[i], base[j])])])

FetchResource(entry, site) ==
    IF FollowRefused(entry) THEN Failed("follow paths")
    ELSE IF entry.mergePaths # <<>> THEN FetchMergedSingle(entry, site)
    ELSE LET paths == ExpandedPaths(entry)
             base == IF HasFailed(paths) THEN paths ELSE FetchPaths(entry, site, paths.paths)
             followed == FollowPathItems(entry, site, base.items)
         IN  IF HasFailed(base) THEN base
             ELSE IF HasFailed(followed) THEN followed ELSE [items |-> base.items \o followed.items]

----------------------------------------------------------------------------------
(* The products. env is the set of variables that are set, with what they say; a cloud  *)
(* or base that is no host label is in UnsafeSegments.                                  *)
ModeOf(env) == IF "ZSCALER_USE_LEGACY_CLIENT" \in DOMAIN env THEN "legacy" ELSE "oneapi"
Variables(env, names) == [n \in names |-> IF n \in DOMAIN env THEN env[n] ELSE Null]
LegacyBaseRefused(base) == base \in UnsafeSegments

CollectorContext(env, products) ==
    LET v == Variables(env, {"ZSCALER_CLOUD", "ZIA_CLOUD", "ZPA_CLOUD", "ZPA_CUSTOMER_ID",
                             "ZIA_LEGACY_BASE_URL", "ZPA_LEGACY_BASE_URL"})
    IN  IF "zpa" \in products /\ v["ZPA_CUSTOMER_ID"] = Null THEN Failed("customer")
        ELSE IF ModeOf(env) = "oneapi"
             THEN [mode |-> "oneapi", cloud |-> v["ZSCALER_CLOUD"], ziaBase |-> Null,
                   zpaBase |-> Null, zpaCloud |-> Null]
        ELSE IF LegacyBaseRefused(v["ZIA_LEGACY_BASE_URL"])
                \/ LegacyBaseRefused(v["ZPA_LEGACY_BASE_URL"]) THEN Failed("base")
        ELSE [mode |-> "legacy",
              cloud |-> IF v["ZIA_CLOUD"] = Null THEN v["ZSCALER_CLOUD"] ELSE v["ZIA_CLOUD"],
              ziaBase |-> v["ZIA_LEGACY_BASE_URL"], zpaBase |-> v["ZPA_LEGACY_BASE_URL"],
              zpaCloud |-> v["ZPA_CLOUD"]]

OneAPIGateway(context) ==
    IF context.cloud \in UnsafeSegments THEN Failed("cloud")
    ELSE [host |-> <<"gateway", context.cloud>>]
ZiaLegacyBase(context) ==
    IF context.ziaBase # Null THEN [host |-> <<"base", context.ziaBase>>]
    ELSE IF context.cloud = Null \/ context.cloud \in UnsafeSegments THEN Failed("ZIA_CLOUD")
    ELSE [host |-> <<"zsapi", context.cloud>>]
ZpaLegacyBase(context) ==
    IF context.zpaBase # Null THEN [host |-> <<"base", context.zpaBase>>]
    ELSE IF context.zpaCloud \in UnsafeSegments THEN Failed("ZPA_CLOUD")
    ELSE [host |-> <<"config", context.zpaCloud>>]

LegacySessionHost(product, context) ==
    IF product = "zia" THEN ZiaLegacyBase(context) ELSE ZpaLegacyBase(context)

Credentials(mode, product) ==
    CASE mode = "oneapi" -> {"ZSCALER_VANITY_DOMAIN", "ZSCALER_CLIENT_ID", "ZSCALER_CLIENT_SECRET"}
      [] mode = "legacy" /\ product = "zia" -> {"ZIA_API_KEY", "ZIA_USERNAME", "ZIA_PASSWORD"}
      [] OTHER -> {"ZPA_CLIENT_ID", "ZPA_CLIENT_SECRET"}

\* The answer of a session request carries a cookie; of a token request, a token.
Acquire(product, context, env, response) ==
    IF context.mode = "legacy" /\ product \notin {"zia", "zpa"} THEN Failed("no legacy path")
    ELSE IF ~(Credentials(context.mode, product) \subseteq DOMAIN env) THEN Failed("credentials")
    ELSE LET at == IF context.mode = "oneapi" THEN OneAPIGateway(context)
                   ELSE LegacySessionHost(product, context)
             session == context.mode = "legacy" /\ product = "zia"
         IN  IF HasFailed(at) THEN at
             ELSE IF response.status # 200 THEN Failed(response.status)
             ELSE IF ~session /\ (response.payload = Null \/ ~Is(response.payload, "object")
                                  \/ ~Is(Member(response.payload[2], "access_token"), "text"))
                  THEN Failed("no token")
             ELSE [bearer |-> ~session, session |-> IF session THEN at.host ELSE Null]

ComposeURL(product, context) ==
    CASE context.mode = "oneapi" -> OneAPIGateway(context)
      [] context.mode = "legacy" /\ product = "zia" -> ZiaLegacyBase(context)
      [] context.mode = "legacy" /\ product = "zpa" -> ZpaLegacyBase(context)
      [] OTHER -> Failed("no legacy path")

----------------------------------------------------------------------------------
(* registry[t]: the product, what its fetch key says, and the type it derives from.     *)
Fetchable(registry) == {t \in DOMAIN registry : registry[t].fetch = "entry"}
FetchProducts(registry) == {registry[t].product : t \in Fetchable(registry)}

\* What a selector stands for: types, a source that cannot be fetched, or a declared skip.
SelectorMeaning(registry, s) ==
    IF s \in FetchProducts(registry)
    THEN [types |-> {t \in Fetchable(registry) : registry[t].product = s}]
    ELSE IF s \in Fetchable(registry) THEN [types |-> {s}]
    ELSE IF s \notin DOMAIN registry THEN [unknown |-> s]
    ELSE IF registry[s].derivesFrom # Null
         THEN IF registry[s].derivesFrom \in Fetchable(registry)
              THEN [types |-> {registry[s].derivesFrom}]
              ELSE [unknown |-> registry[s].derivesFrom]
    ELSE IF registry[s].fetch = "declared" THEN [skipped |-> s] ELSE [unknown |-> s]

SelectFetchResources(registry, selectors) ==
    LET meanings == {SelectorMeaning(registry, s) : s \in selectors}
    IN  IF selectors = {} THEN [types |-> Fetchable(registry), skipped |-> {}]
        ELSE IF \E m \in meanings : "unknown" \in DOMAIN m THEN Failed("unknown selectors")
        ELSE [types |-> UNION {m.types : m \in {m \in meanings : "types" \in DOMAIN m}},
              skipped |-> {m.skipped : m \in {m \in meanings : "skipped" \in DOMAIN m}}]

----------------------------------------------------------------------------------
(* A server that holds the items of a path and serves them in pages of the size asked   *)
(* for; fault is the page it fails to serve, 0 for none, silent leaves the totals out.  *)
PageOf(items, size, k) ==
    SubSeq(items, (k - 1) * size + 1, IF k * size < Len(items) THEN k * size ELSE Len(items))
Served(entry, items, pages, fault, silent) ==
    [k \in 1..pages |->
        LET batch == PageOf(items, IF entry.pagination = "zia" THEN ZiaPageSize ELSE ZccPageSize, k)
            last == Min({n \in 1..(Len(items) + 1) : n * ZccPageSize >= Len(items)})
            body ==
              CASE entry.mergePaths # <<>> -> items[1]
                [] entry.mergePaths = <<>> /\ entry.pagination = "zia" ->
                     IF entry.envelope = Null THEN List(batch)
                     ELSE Object(Entry1(entry.envelope, List(batch)))
                [] entry.mergePaths = <<>> /\ entry.pagination = "zpa" ->
                     Object([list |-> List(batch), totalPages |-> Number(last)])
                [] entry.mergePaths = <<>> /\ entry.pagination = "zcc_v2" ->
                     IF silent THEN Object([items |-> List(batch), count |-> Number(Len(batch))])
                     ELSE Object([items |-> List(batch), count |-> Number(Len(batch)),
                                  total |-> Number(Len(items))])
                [] OTHER -> List(items)
        IN  [status |-> IF k = fault THEN 500 ELSE 200, payload |-> body]]

SiteOf(entry, held, pages, fault, silent) ==
    [path \in DOMAIN held |-> Served(entry, held[path], pages, fault, silent)]

\* The items a resource has on such a server, in the order of its paths.
HeldAt(held, path) == IF path \in DOMAIN held THEN held[path] ELSE <<>>
Following(held, follow, item) ==
    IF Is(item, "object") /\ Member(item[2], follow.fromField) # Nil
    THEN HeldAt(held, <<follow.path, item[2][follow.fromField][2]>>) ELSE <<>>
Holdings(entry, held) ==
    LET values == entry.expand[CHOOSE k \in DOMAIN entry.expand : TRUE]
        base == IF DOMAIN entry.expand = {} THEN HeldAt(held, <<entry.path>>)
                ELSE FlattenSeq([i \in DOMAIN values |-> HeldAt(held, <<entry.path, values[i]>>)])
    IN  base \o FlattenSeq([i \in DOMAIN entry.followPaths |->
                   FlattenSeq([j \in DOMAIN base |-> Following(held, entry.followPaths[i], base[j])])])
\* Every member of every settings object, under its value.
HoldsSettings(entry, held, item) ==
    \A path \in Range(<<entry.path>> \o entry.mergePaths) :
        LET settings == held[<<path>>][1][2]
        IN  \A f \in DOMAIN settings : f \in DOMAIN item[2] /\ item[2][f] = settings[f]

(* A pull is all or nothing: what a resource is fetched as is every item the server      *)
(* holds, once, in the order of its paths and pages, whatever the way of paging, and what *)
(* is merged has every setting; a page that fails, a bound that is reached or an entry    *)
(* that is refused fails the resource and never shortens it (FetchResource, paginateZia, *)
(* paginateZpa, paginateZccV2, fetchMergedSingle).                                       *)
PullsAreComplete(entry, held, pages, fault, silent) ==
    LET got == FetchResource(entry, SiteOf(entry, held, pages, fault, silent))
    IN  \/ HasFailed(got)
        \/ entry.mergePaths = <<>> /\ got.items = Holdings(entry, held)
        \/ entry.mergePaths # <<>> /\ Len(got.items) = 1 /\ HoldsSettings(entry, held, got.items[1])

(* A product that authenticated can be asked: under the mode and the context of its      *)
(* sign-in every URL of it can be composed, and a session cookie was obtained from the   *)
(* host that the collections are then read from, the only one the jar sends it to        *)
(* (acquireZiaLegacy, composeProductURL, CollectorContext).                              *)
SignedInProductsAreReachable(env, products, product, response) ==
    LET context == CollectorContext(env, products)
        auth == Acquire(product, context, env, response)
        url == ComposeURL(product, context)
    IN  (~HasFailed(context) /\ ~HasFailed(auth)) =>
            /\ ~HasFailed(url)
            /\ auth.session # Null => auth.session = url.host
=============================================================================
