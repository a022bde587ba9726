--------------------------- MODULE TransformKernel ---------------------------
(***************************************************************************)
(* How one type's raw items become configuration                           *)
(* (go/internal/transform/kernel.go, overrides.go, projection.go,          *)
(* coerce.go, skip.go, data_referent.go).  An item is a function from      *)
(* member names to values; the schema of a type is a block of attributes   *)
(* and nested blocks.  Sets have scalar members here.                      *)
(***************************************************************************)
EXTENDS Values, Absent

CONSTANTS
    IdNames,         \* the member names that end in "id"
    WithoutPrefix,   \* WithoutPrefix[p][t]: what is left of a text that has the prefix
    Unescape,        \* Unescape[t]: one pass of HTML decoding, for the texts it changes
    Escape,          \* Escape[t]: the text with its five HTML entities
    Folded           \* Folded[t]: a text under Unicode case folding, when it is not its own

NoOverride ==
    [renames |-> <<>>, splitCsv |-> {}, sortLists |-> {}, drops |-> {}, references |-> {},
     divide |-> <<>>, invertBool |-> {}, valueMap |-> <<>>, stripPrefix |-> <<>>, defaults |-> <<>>,
     dropIfDefault |-> <<>>, keyFields |-> <<"name">>, keyReferences |-> <<>>, skipIf |-> <<>>,
     skipIfLte |-> <<>>, acknowledged |-> {}, mergeBlocks |-> {}, escapeFields |-> {}]

RECURSIVE SnakeKeys(_)
\* Of two members with one snake name the later in code point order stays.
SnakeKeys(v) ==
    CASE Is(v, "list") -> List([i \in DOMAIN v[2] |-> SnakeKeys(v[2][i])])
      [] Is(v, "object") ->
           Object(FoldLeft(LAMBDA o, n : Put(o, SnakeName(n), SnakeKeys(v[2][n])),
                           <<>>, Sorted(DOMAIN v[2])))
      [] OTHER -> v

-----------------------------------------------------------------------------
(* Skipping *)

\* A matcher names members that are there with exactly its scalar.
StrictMatches(item, matcher) ==
    \A f \in DOMAIN matcher :
        /\ SnakeName(f) \in DOMAIN item
        /\ Scalar(matcher[f]) \/ Is(matcher[f], "null")
        /\ item[SnakeName(f)] = matcher[f]
\* Numbers and the texts that spell one, no member above its threshold.
LteMatches(item, matcher) ==
    \A f \in DOMAIN matcher :
        \E n \in Spelled(Member(item, SnakeName(f))), t \in Spelled(matcher[f]) : n <= t
TransformSkipMatchReason(item, skipIf, skipIfLte) ==
    CASE \E k \in DOMAIN skipIf : StrictMatches(item, skipIf[k]) -> "skip_if"
      [] \E k \in DOMAIN skipIfLte : LteMatches(item, skipIfLte[k]) -> "skip_if_lte"
      [] OTHER -> "kept"
BadThreshold(skipIfLte) ==
    \E k \in DOMAIN skipIfLte : \E f \in DOMAIN skipIfLte[k] : Spelled(skipIfLte[k][f]) = {}

-----------------------------------------------------------------------------
(* The override vocabulary, in the one order it is applied *)

OnFields(item, fields, Change(_, _)) ==
    [f \in DOMAIN item |-> IF f \in fields THEN Change(f, item[f]) ELSE item[f]]
Each(v, Change(_)) == IF Is(v, "list") THEN List([i \in DOMAIN v[2] |-> Change(v[2][i])]) ELSE Change(v)
TextTable(table, t) == IF t \in DOMAIN table THEN table[t] ELSE t
OnText(v, table) == IF Is(v, "text") THEN Text(TextTable(table, v[2])) ELSE v

Renamed(item, renames) ==
    FoldLeft(LAMBDA it, old : IF old \in DOMAIN it THEN Put(Without(it, {old}), renames[old], it[old]) ELSE it,
             item, Sorted(DOMAIN renames))
SplitCsv(f, v) ==
    IF Is(v, "text") THEN List([i \in DOMAIN PartsOf[v[2]] |-> Text(PartsOf[v[2]][i])]) ELSE v
TextsSorted(s) == SortSeq(s, LAMBDA a, b : Before(a[2], b[2]))
SortList(f, v) ==
    IF Is(v, "list") /\ \A i \in DOMAIN v[2] : Is(v[2][i], "text") THEN List(TextsSorted(v[2])) ELSE v
InvertBool(f, v) == LET b == CoerceBoolean(v) IN IF Is(b, "bool") THEN Bool(~ b[2]) ELSE v
IsEmpty(v) == v \in {Nil, Text(""), List(<<>>)}

DefaultsFilled(item, defaults) ==
    [f \in DOMAIN item \cup DOMAIN defaults |->
        IF f \in DOMAIN defaults /\ IsEmpty(Member(item, f)) THEN defaults[f] ELSE item[f]]
DefaultsDropped(item, dropIfDefault) ==
    Without(item, {d[1] : d \in {p \in DOMAIN dropIfDefault :
        Len(p) = 1 /\ p[1] \in DOMAIN item /\ MatchesTransformDefault(item[p[1]], dropIfDefault[p])}})
ApplyReachableOverrides(item, o) ==
    LET split == OnFields(Renamed(item, o.renames), o.splitCsv, SplitCsv)
        kept == Without(OnFields(split, o.sortLists, SortList), {d[1] : d \in {p \in o.drops : Len(p) = 1}})
        unwrapped == OnFields(kept, o.references, LAMBDA f, v : Each(v, UnwrapReference))
        divided == OnFields(unwrapped, DOMAIN o.divide, LAMBDA f, v : DividedValue(v, o.divide[f]))
        inverted == OnFields(divided, o.invertBool, InvertBool)
        mapped == OnFields(inverted, DOMAIN o.valueMap, LAMBDA f, v :
                      IF Is(v, "text") /\ v[2] \in DOMAIN o.valueMap[f] THEN o.valueMap[f][v[2]] ELSE v)
        stripped == OnFields(mapped, DOMAIN o.stripPrefix, LAMBDA f, v :
                      Each(v, LAMBDA w : OnText(w, WithoutPrefix[o.stripPrefix[f]])))
    IN  DefaultsDropped(DefaultsFilled(stripped, o.defaults), o.dropIfDefault)

EscapeHtmlFields(item, fields) ==
    OnFields(item, fields, LAMBDA f, v : OnText(OnText(OnText(v, Unescape), Unescape), Escape))
UnescapeDisplayFields(item, unescapes) ==
    IF ~ unescapes THEN item
    ELSE OnFields(item, {"name", "description"}, LAMBDA f, v : OnText(OnText(v, Unescape), Unescape))

-----------------------------------------------------------------------------
(* The schema and what it keeps of an item *)

ClassOf(a) == IF a.required THEN "required" ELSE IF a.optional /\ ~ a.deprecated THEN "optional" ELSE "computed"
RECURSIVE HasInputs(_)
HasInputs(block) == \/ \E n \in DOMAIN block.attributes : ClassOf(block.attributes[n]) # "computed"
                    \/ \E n \in DOMAIN block.blocks : HasInputs(block.blocks[n].block)

RECURSIVE CompileProjection(_, _, _)
\* A computed id of the resource itself is no input, and is ignored without a drop.
CompileProjection(block, merges, top) ==
    LET computedId == top /\ "id" \in DOMAIN block.attributes /\ block.attributes["id"].computed
        inputs == {n \in DOMAIN block.attributes : ClassOf(block.attributes[n]) # "computed"}
        dropped == IF computedId /\ ClassOf(block.attributes["id"]) = "optional" THEN {"id"} ELSE {}
        nested == {n \in DOMAIN block.blocks : HasInputs(block.blocks[n].block)}
    IN  [attributes |-> [n \in inputs \ dropped |-> block.attributes[n].type],
         blocks |-> [n \in nested |-> [single |-> block.blocks[n].single, merge |-> top /\ n \in merges,
                                       projection |-> CompileProjection(block.blocks[n].block, {}, FALSE)]],
         known |-> DOMAIN block.attributes \cup DOMAIN block.blocks,
         ignored |-> IF computedId THEN {"id"} ELSE {}]

NullStub(v) == v \in {Nil, Text(""), Text("0"), List(<<>>), Number(0)}
\* An object that only names another by empty identifiers.
IsNullObject(v, projection, path, acknowledged) ==
    /\ DOMAIN v[2] # {}
    /\ "id" \in DOMAIN v[2] \/ DOMAIN v[2] \subseteq IdNames
    /\ \A n \in DOMAIN v[2] : n \in projection.known \cup {"id"} \/ Append(path, n) \in acknowledged
    /\ \A n \in DOMAIN v[2] : NullStub(v[2][n])

Collects(projection, n) ==
    n \in DOMAIN projection.attributes /\ projection.attributes[n][1] \in {"list", "set"}
MembersOf(v) == IF Is(v, "list") THEN v[2] ELSE IF v = Text("") THEN <<>> ELSE <<v>>
\* The elements, in order, that say something of a member.
Saying(elements, n) == SelectSeq(elements, LAMBDA e : Member(e[2], n) # Nil)
NamesIn(elements) == UNION {DOMAIN elements[i][2] : i \in DOMAIN elements}
\* Collections are concatenated; of the rest the first element to say something stays.
MergeSingleBlockElements(elements, projection) ==
    Object([n \in {m \in NamesIn(elements) : Saying(elements, m) # <<>>} |->
              LET said == Saying(elements, n)
              IN  IF Collects(projection, n)
                  THEN List(FlattenSeq([i \in DOMAIN said |-> MembersOf(said[i][2][n])]))
                  ELSE said[1][2][n]])
\* What a merge loses: nulls of unknown members, and values that disagree with the first.
MergeDrops(elements, projection, path, acknowledged) ==
    {Append(path, n) : n \in {m \in NamesIn(elements) :
        /\ m \notin projection.known \cup {"id"} /\ Append(path, m) \notin acknowledged
        /\ \E i \in DOMAIN elements : m \in DOMAIN elements[i][2] /\ elements[i][2][m] = Nil}}
    \cup {Append(path, n) \o <<"(kept first)">> :
            n \in {m \in DOMAIN projection.attributes :
                ~ Collects(projection, m) /\ \E i \in DOMAIN Saying(elements, m) :
                    Saying(elements, m)[i][2][m] # Saying(elements, m)[1][2][m]}}

Objects(v) == IF Is(v, "list") THEN SelectSeq(v[2], LAMBDA e : Is(e, "object"))
              ELSE IF Is(v, "object") THEN <<v>> ELSE <<>>
BlockPath(path, n, b) == IF b.single THEN Append(path, n) ELSE path \o <<n, "[]">>
Real(objects, b, path, acknowledged) ==
    SelectSeq(objects, LAMBDA e : ~ IsNullObject(e, b.projection, path, acknowledged))
Merged(v, b, path, acknowledged) ==
    IF b.single THEN Objects(v) ELSE Real(Objects(v), b, path, acknowledged)
Merges(b, elements) == (b.single \/ b.merge) /\ Len(elements) > 1
Shaped(b, elements) ==
    IF Merges(b, elements) THEN <<MergeSingleBlockElements(elements, b.projection)>> ELSE elements
\* The elements of a block that stay, merged where the block holds one.
ElementsOf(v, b, path, acknowledged) ==
    IF b.single THEN Real(Shaped(b, Objects(v)), b, path, acknowledged)
    ELSE Shaped(b, Merged(v, b, path, acknowledged))
\* A value that is no block at all: a scalar, or a list without one object for a single block.
NoBlock(v, b) == Objects(v) = <<>> /\ IF b.single THEN v # List(<<>>) ELSE ~ Is(v, "list")

Dotted(path) == SelectSeq(path, LAMBDA s : s # "[]")
OverrideRemoves(v, path, o) ==
    /\ Len(Dotted(path)) > 1
    /\ \/ Dotted(path) \in o.drops
       \/ Dotted(path) \in DOMAIN o.dropIfDefault /\ MatchesTransformDefault(v, o.dropIfDefault[Dotted(path)])

\* A single block without an element is left out.
KeptMembers(item, attributes, blocks, filtered) ==
    [n \in attributes \cup {b \in DOMAIN filtered : blocks[b].single => filtered[b] # <<>>} |->
        IF n \in attributes THEN item[n]
        ELSE IF blocks[n].single THEN filtered[n][1] ELSE List(filtered[n])]
RECURSIVE FilterItem(_, _, _, _)
FilterItem(item, projection, path, o) ==
    LET attributes == {n \in DOMAIN item \cap DOMAIN projection.attributes :
                          ~ OverrideRemoves(item[n], Append(path, n), o)}
        blocks == {n \in DOMAIN item \cap (DOMAIN projection.blocks \ DOMAIN projection.attributes) :
                      ~ NoBlock(item[n], projection.blocks[n])}
        below(n) == BlockPath(path, n, projection.blocks[n])
        filtered(elements, n) == [i \in DOMAIN elements |->
            Object(FilterItem(elements[i][2], projection.blocks[n].projection, below(n), o))]
    IN  KeptMembers(item, attributes, projection.blocks,
            [n \in blocks |-> filtered(ElementsOf(item[n], projection.blocks[n], below(n), o.acknowledged), n)])

DropsOfMerge(elements, b, path, acknowledged) ==
    IF Merges(b, elements) THEN MergeDrops(elements, b.projection, path, acknowledged) ELSE {}
\* The members whose loss a run reports, beside the acknowledged ones.
RECURSIVE DropsOf(_, _, _, _)
DropsOf(item, projection, path, o) ==
    UNION {LET b == projection.blocks[n]
               below == BlockPath(path, n, b)
           IN  (IF NoBlock(item[n], b) THEN {Append(path, n)} ELSE {})
               \cup DropsOfMerge(Merged(item[n], b, below, o.acknowledged), b, below, o.acknowledged)
               \cup UNION {DropsOf(e[2], b.projection, below, o) :
                              e \in Range(ElementsOf(item[n], b, below, o.acknowledged))} :
             n \in DOMAIN item \cap (DOMAIN projection.blocks \ DOMAIN projection.attributes)}
    \cup {Append(path, n) : n \in DOMAIN item \
             (DOMAIN projection.attributes \cup DOMAIN projection.blocks \cup projection.ignored)}

-----------------------------------------------------------------------------
(* Coercion to the types of the schema *)

CoercePrimitive(v, kind) ==
    CASE kind = "string" /\ Is(v, "bool") -> Text(IF v[2] THEN "true" ELSE "false")
      [] kind = "string" /\ Is(v, "number") -> Text(ToString(v[2]))
      [] kind = "number" /\ Is(v, "text") /\ Spelled(v) # {} -> Number(CHOOSE n \in Spelled(v) : TRUE)
      [] kind = "bool" -> CoerceBoolean(v)
      [] OTHER -> v
SetSortKey(v) == IF v = Nil THEN "" ELSE IdentityComponent(v)
\* A set is ordered by the texts of its members, those that are equal as they came.
CoerceSetValues(s) ==
    LET tagged == [i \in DOMAIN s |-> <<i, s[i]>>]
        sorted == SortSeq(tagged, LAMBDA a, b :
            \/ Before(SetSortKey(a[2]), SetSortKey(b[2]))
            \/ SetSortKey(a[2]) = SetSortKey(b[2]) /\ a[1] < b[1])
    IN  [i \in DOMAIN s |-> sorted[i][2]]

RECURSIVE CoerceValue(_, _)
CoerceValue(v, type) ==
    CASE type[1] = "object" -> IF Is(v, "object")
             THEN Object([n \in DOMAIN v[2] \cap DOMAIN type[2] |-> CoerceValue(v[2][n], type[2][n])]) ELSE v
      [] type[1] = "map" -> IF Is(v, "object")
             THEN Object([n \in DOMAIN v[2] |-> CoerceValue(v[2][n], type[2])]) ELSE v
      [] type[1] \in {"list", "set"} ->
             LET members == [i \in DOMAIN MembersOf(v) |-> CoerceValue(MembersOf(v)[i], type[2])]
             IN  IF v = Nil THEN v
                 ELSE List(IF type[1] = "set" THEN CoerceSetValues(members) ELSE members)
      [] OTHER -> CoercePrimitive(UnwrapReference(v), type[1])

RECURSIVE CoerceItem(_, _)
CoerceItem(item, projection) ==
    [n \in DOMAIN item |->
        IF n \in DOMAIN projection.blocks
        THEN Each(item[n], LAMBDA e : Object(CoerceItem(e[2], projection.blocks[n].projection)))
        ELSE CoerceValue(item[n], projection.attributes[n])]
ProjectLoadedRawField(block, target, raw) ==
    LET projection == CompileProjection(block, {}, TRUE)
    IN  Member(CoerceItem(FilterItem(Entry1(target, SnakeKeys(raw)), projection, <<>>, NoOverride), projection), target)

-----------------------------------------------------------------------------
(* Keys *)

\* The names of this type's own raw items by identity, of the skipped ones too.
KeyReferenceIndex(rawItems, reference) ==
    LET items == [i \in DOMAIN rawItems |-> SnakeKeys(rawItems[i])[2]]
    IN  FoldLeft(LAMBDA index, it :
                     IF Member(it, reference.idField) = Nil \/ Member(it, reference.nameField) = Nil THEN index
                     ELSE Put(index, IdentityComponent(it[reference.idField]), IdentityComponent(it[reference.nameField])),
                 <<>>, items)

\* What one key field contributes.
KeyPart(item, f, references, index) ==
    LET v == Member(item, f)
    IN  IF f \notin DOMAIN references THEN <<IdentityComponent(v)>>
        ELSE IF v # Nil /\ IdentityComponent(v) \in DOMAIN index[f] /\ index[f][IdentityComponent(v)] # ""
             THEN <<index[f][IdentityComponent(v)]>> ELSE <<>>
DeriveKey(item, o, index) ==
    LET parts == FlattenSeq([i \in DOMAIN o.keyFields |-> KeyPart(item, o.keyFields[i], o.keyReferences, index)])
        missing == {f \in Range(o.keyFields) : f \notin DOMAIN item /\ f \notin DOMAIN o.keyReferences}
    IN  IF missing # {} THEN Failed("key field missing")
        ELSE IF SlugOfParts(parts) # <<>> THEN [key |-> SlugOfParts(parts)]
        ELSE IF "id" \notin DOMAIN item THEN Failed("no id to fall back on")
        ELSE [key |-> <<"id">> \o Slug(IdentityComponent(item["id"]))]

-----------------------------------------------------------------------------
(* One type *)

\* The override is refused before any item: a zero divisor, a drop of a renamed name, a
\* dotted sort, a dotted path that names no attribute of an input block.
BlockAt(block, path) ==
    FoldLeft(LAMBDA found, n :
                 {b.blocks[n].block : b \in {c \in found : n \in DOMAIN c.blocks /\ HasInputs(c.blocks[n].block)}},
             {block}, path)
OverrideRefused(block, o) ==
    \/ \E f \in DOMAIN o.divide : o.divide[f] = 0
    \/ \E p \in o.drops : Len(p) = 1 /\ p[1] \in DOMAIN o.renames
    \/ \E p \in {q \in o.drops \cup DOMAIN o.dropIfDefault : Len(q) > 1} :
          ~ \E b \in BlockAt(block, Front(p)) : Last(p) \in DOMAIN b.attributes

\* One raw item: skipped, or its normalised members and its key.
Normalized(raw, o, unescapes) ==
    EscapeHtmlFields(ApplyReachableOverrides(UnescapeDisplayFields(SnakeKeys(raw)[2], unescapes), o), o.escapeFields)
SkippedItems(rawItems, o, unescapes) ==
    {i \in DOMAIN rawItems :
        TransformSkipMatchReason(UnescapeDisplayFields(SnakeKeys(rawItems[i])[2], unescapes),
                                 o.skipIf, o.skipIfLte) # "kept"}
\* Mutant: identifiers are indexed after the skips, as the adopt lane does.
IndexOfKeptItems(rawItems, o, unescapes) ==
    [f \in DOMAIN o.keyReferences |->
        KeyReferenceIndex(SelectSeq(rawItems, LAMBDA r : TransformSkipMatchReason(SnakeKeys(r)[2], o.skipIf, o.skipIfLte) = "kept"),
                          o.keyReferences[f])]
IndexOfItems(rawItems, o, unescapes) ==
    [f \in DOMAIN o.keyReferences |-> KeyReferenceIndex(rawItems, o.keyReferences[f])]

\* The kept items under their keys, by position.
ByKey(item, key) == [k \in Range(key) |-> item[CHOOSE i \in DOMAIN item : key[i] = k]]
Configuration(originals, projection, o) ==
    [items |-> [k \in DOMAIN originals |-> CoerceItem(FilterItem(originals[k], projection, <<>>, o), projection)],
     originals |-> originals,
     drops |-> UNION {DropsOf(originals[k], projection, <<>>, o) : k \in DOMAIN originals} \ o.acknowledged]
Configured(item, key, projection, o) ==
    IF \E i \in DOMAIN item : HasFailed(key[i]) THEN Failed("key")
    ELSE IF \E i, j \in DOMAIN item : i # j /\ key[i] = key[j] THEN Failed("duplicate key")
    ELSE Configuration(ByKey(item, [i \in DOMAIN item |-> key[i].key]), projection, o)
ConfiguredBy(item, index, projection, o) ==
    Configured(item, [i \in DOMAIN item |-> DeriveKey(item[i], o, index)], projection, o)

ExecuteTransform(rawItems, projection, o, unescapes) ==
    IF BadThreshold(o.skipIfLte) THEN Failed("threshold")
    ELSE ConfiguredBy([i \in DOMAIN rawItems \ SkippedItems(rawItems, o, unescapes) |-> Normalized(rawItems[i], o, unescapes)],
                      IndexOfItems(rawItems, o, unescapes), projection, o)

TransformLoadedItems(rawItems, block, o, unescapes) ==
    IF OverrideRefused(block, o) THEN Failed("override")
    ELSE ExecuteTransform(rawItems, CompileProjection(block, o.mergeBlocks, TRUE), o, unescapes)

\* A type whose objects only name things: unique names, ids and keys.
FoldOf(t) == TextTable(Folded, t)
TransformDataReferentItems(rawItems, nameField) ==
    LET item == [i \in DOMAIN rawItems |-> SnakeKeys(rawItems[i])[2]]
        name(i) == item[i][nameField][2]
        id(i) == IdentityComponent(item[i]["id"])
        key(i) == IF Slug(name(i)) # <<>> THEN Slug(name(i)) ELSE <<"id">> \o Slug(id(i))
        at(k) == CHOOSE i \in DOMAIN rawItems : key(i) = k
        differ(Of(_)) == \A i, j \in DOMAIN rawItems : i # j => Of(i) # Of(j)
    IN  IF \E i \in DOMAIN rawItems : ~ Is(Member(item[i], nameField), "text") \/ item[i][nameField] = Text("")
                                      \/ Member(item[i], "id") = Nil \/ id(i) = ""
        THEN Failed("name or id")
        ELSE IF ~ differ(LAMBDA i : FoldOf(name(i))) \/ ~ differ(id) \/ ~ differ(key) THEN Failed("ambiguous")
        ELSE [items |-> [k \in {key(i) : i \in DOMAIN rawItems} |-> Entry1(nameField, Text(name(at(k))))],
              originals |-> [k \in {key(i) : i \in DOMAIN rawItems} |->
                                Put(Entry1(nameField, Text(name(at(k)))), "id", item[at(k)]["id"])],
              drops |-> {}]

\* The reorder resource: the rules of the source type by order, integers first, ties by id.
RuleBefore(a, b) ==
    LET ia == Spelled(Text(a.order)) ib == Spelled(Text(b.order))
    IN  \/ \E n \in ia, m \in ib : n < m
        \/ ia # {} /\ ib = {}
        \/ ia = {} /\ ib = {} /\ Before(a.order, b.order)
        \/ (ia = ib /\ (ia # {} \/ a.order = b.order)) /\ Before(a.id, b.id)
DeriveReorderItems(rawItems, policyType) ==
    LET item == [i \in DOMAIN rawItems |-> SnakeKeys(rawItems[i])[2]]
        rules == [i \in DOMAIN rawItems |-> [id |-> IdentityComponent(item[i]["id"]),
                                             order |-> IdentityComponent(item[i]["rule_order"])]]
    IN  IF \E i \in DOMAIN rawItems : Member(item[i], "id") = Nil \/ Member(item[i], "rule_order") = Nil
        THEN Failed("partial reorder")
        ELSE IF rawItems = <<>> THEN [items |-> <<>>]
        ELSE [items |-> Entry1(policyType, SortSeq(rules, RuleBefore))]
=============================================================================
