---------------------------- MODULE AdoptIdentity ----------------------------
(***************************************************************************)
(* Which raw items the adopt lane takes, and under which key and import    *)
(* identity (go/internal/adopt/adoption_meta.go).  The same override feeds *)
(* the transform lane; the keys of the two lanes are derived by different  *)
(* code.                                                                   *)
(***************************************************************************)
EXTENDS TransformKernel

\* The adopt metadata of a resource without an adopt section, and its override's part of it.
AdoptionMetadataFor(explicit, o) ==
    LET of(f, default) == IF f \in DOMAIN explicit THEN explicit[f] ELSE default
        fields == of("identityFields", <<>>)
    IN  [constantKey |-> of("constantKey", Null), identityFields |-> fields,
         identityRenames |-> of("identityRenames", o.renames),
         importId |-> of("importId", IF "import_id" \in DOMAIN fields THEN <<"import_id">> ELSE <<"id">>),
         keyFields |-> of("keyFields", o.keyFields), keyReferences |-> o.keyReferences,
         skipIf |-> of("skipIf", o.skipIf), skipIfLte |-> of("skipIfLte", o.skipIfLte),
         unsupported |-> of("unsupported", <<>>)]

\* Two members of one object with one snake name are refused here.
RECURSIVE SnakeCollision(_)
SnakeCollision(v) ==
    CASE Is(v, "list") -> \E i \in DOMAIN v[2] : SnakeCollision(v[2][i])
      [] Is(v, "object") -> \/ \E m, n \in DOMAIN v[2] : m # n /\ SnakeName(m) = SnakeName(n)
                            \/ \E n \in DOMAIN v[2] : SnakeCollision(v[2][n])
      [] OTHER -> FALSE

\* A rule names members with exact scalars, or members one of which says something.
UnsupportedRuleMatches(item, rule) ==
    IF rule.nonempty = {} THEN StrictMatches(item, rule.match)
    ELSE \E f \in rule.nonempty : f \in DOMAIN item
            /\ item[f] \notin {Nil, Text(""), List(<<>>)} /\ ~ (Is(item[f], "object") /\ DOMAIN item[f][2] = {})

\* The skips first, then the first rule that says the provider cannot hold the item.
ClassOfRaw(raw, meta) ==
    LET item == SnakeKeys(raw)[2]
    IN  IF TransformSkipMatchReason(item, meta.skipIf, meta.skipIfLte) # "kept" THEN "skipped"
        ELSE IF \E k \in DOMAIN meta.unsupported : UnsupportedRuleMatches(item, meta.unsupported[k])
        THEN "unsupported" ELSE "eligible"
EligibleItems(rawItems, meta) == SelectSeq(rawItems, LAMBDA r : ClassOfRaw(r, meta) = "eligible")

\* An alias takes the member of its field, by its raw name or by its new one.
AliasValues(item, record, f) ==
    IF f \in DOMAIN record THEN {record[f]} ELSE IF f \in DOMAIN item THEN {item[f]} ELSE {}
Aliased(item, values) ==
    IF \E a \in DOMAIN values : values[a] = {} \/ (a \in DOMAIN item /\ values[a] # {item[a]})
    THEN Failed("identity field")
    ELSE [item |-> [f \in DOMAIN item \cup DOMAIN values |->
                       IF f \in DOMAIN values THEN CHOOSE v \in values[f] : TRUE ELSE item[f]]]
WithAliases(item, record, fields) ==
    Aliased(item, [a \in DOMAIN fields |-> AliasValues(item, record, fields[a])])
\* The members by which the item is known: the renamed ones, and aliases for others.
AdoptionIdentityItem(meta, raw) ==
    LET record == SnakeKeys(raw)[2]
    IN  WithAliases(Renamed(record, meta.identityRenames), record, meta.identityFields)

\* Names by identity of the items it is given, read by snake names from the raw members.
AdoptionKeyReferenceIndex(rawItems, reference) ==
    FoldLeft(LAMBDA index, raw :
                 LET it == raw[2] id == SnakeName(reference.idField) name == SnakeName(reference.nameField)
                 IN  IF id \notin DOMAIN it \/ name \notin DOMAIN it THEN index
                     ELSE Put(index, IdentityComponent(it[id]), IdentityComponent(it[name])),
             <<>>, rawItems)

\* A member that is not there adds nothing; a null one is "None" unless it has to resolve.
AdoptionKeyPart(item, f, meta, index) ==
    IF f \notin DOMAIN item THEN <<>>
    ELSE LET text == IdentityComponent(item[f])
         IN  IF f \notin DOMAIN meta.keyReferences THEN <<text>>
             ELSE IF text \in DOMAIN index[f] /\ index[f][text] # "" THEN <<index[f][text]>> ELSE <<>>
DeriveAdoptionKey(item, meta, index) ==
    LET parts == FlattenSeq([i \in DOMAIN meta.keyFields |-> AdoptionKeyPart(item, meta.keyFields[i], meta, index)])
    IN  IF meta.constantKey # Null THEN [key |-> <<meta.constantKey>>]
        ELSE IF SlugOfParts(parts) # <<>> THEN [key |-> SlugOfParts(parts)]
        ELSE IF Member(item, "id") = Nil THEN Failed("no id to fall back on")
        ELSE [key |-> <<"id">> \o Slug(IdentityComponent(item["id"]))]

\* The import identity is a template over the item's members.
ImportIdOf(meta, item) == [i \in DOMAIN meta.importId |-> IdentityComponent(item[meta.importId[i]])]

Repeats(f) == \E i, j \in DOMAIN f : i # j /\ f[i] = f[j]
Distinct(eligible, key, id) ==
    IF Repeats(key) \/ Repeats(id) THEN Failed("duplicate")
    ELSE [identities |-> {[key |-> key[i].key, id |-> id[i], raw |-> eligible[i]] : i \in DOMAIN eligible}]
WithIds(eligible, item, key, meta) ==
    IF \E i \in DOMAIN key : HasFailed(key[i]) THEN Failed("key")
    ELSE IF \E i \in DOMAIN item : \E f \in Range(meta.importId) : f \notin DOMAIN item[i].item THEN Failed("import id")
    ELSE Distinct(eligible, key, [i \in DOMAIN item |-> ImportIdOf(meta, item[i].item)])
WithKeys(eligible, item, index, meta) ==
    IF \E i \in DOMAIN item : HasFailed(item[i]) THEN Failed("identity field")
    ELSE IF meta.constantKey # Null /\ Len(eligible) > 1 THEN Failed("constant key")
    ELSE WithIds(eligible, item, [i \in DOMAIN item |-> DeriveAdoptionKey(item[i].item, meta, index)], meta)
IdentitiesAmong(rawItems, eligible, meta) ==
    WithKeys(eligible, [i \in DOMAIN eligible |-> AdoptionIdentityItem(meta, eligible[i])],
             [f \in DOMAIN meta.keyReferences |-> AdoptionKeyReferenceIndex(rawItems, meta.keyReferences[f])], meta)
\* One key and one import identity per eligible item, or none at all.
DeriveAdoptionIdentities(rawItems, meta) ==
    IF \E i \in DOMAIN rawItems : SnakeCollision(rawItems[i]) THEN Failed("snake collision")
    ELSE IF BadThreshold(meta.skipIfLte) THEN Failed("threshold")
    ELSE IF \E i \in DOMAIN rawItems : ClassOfRaw(rawItems[i], meta) = "unsupported" THEN Failed("unsupported")
    ELSE IdentitiesAmong(rawItems, EligibleItems(rawItems, meta), meta)

\* prepareAdoptionItems hands over the eligible items only: the index does not see the rest.
PreparedIdentities(rawItems, meta) ==
    IF \E i \in DOMAIN rawItems : SnakeCollision(rawItems[i]) THEN Failed("snake collision")
    ELSE IF \E i \in DOMAIN rawItems : ClassOfRaw(rawItems[i], meta) = "unsupported" THEN Failed("unsupported")
    ELSE DeriveAdoptionIdentities(EligibleItems(rawItems, meta), meta)

-----------------------------------------------------------------------------
(* What the two lanes promise *)

\* A member of an item that is not in its configuration is reported, was declared, or says
\* nothing.
LossIsTold(item, f, projection, o, drops) ==
    \/ \E d \in drops \cup o.acknowledged : d[1] = f
    \/ f \in projection.ignored
    \/ /\ f \in DOMAIN projection.blocks
       /\ \A i \in DOMAIN Objects(item[f]) :
             IsNullObject(Objects(item[f])[i], projection.blocks[f].projection,
                          BlockPath(<<>>, f, projection.blocks[f]), o.acknowledged)

\* The lanes take the same items and read the same of what keys are made of: no text that the
\* transform lane alone unescapes, and no rule that it alone has, changes a skip or such a member.
ReadAlike(rawItems, o, unescapes, skipped, meta) ==
    \A i \in DOMAIN rawItems :
        /\ i \in skipped <=> ClassOfRaw(rawItems[i], meta) = "skipped"
        /\ i \notin skipped => \A f \in Range(o.keyFields) \cup {"id"} :
              Member(Normalized(rawItems[i], o, unescapes), f) = Member(AdoptionIdentityItem(meta, rawItems[i]).item, f)
\* An item that stays asks for the name of one that is skipped: the transform lane finds it, the
\* adopt lane, whose index holds the eligible items only, does not.
AsksSkipped(rawItems, o, skipped) ==
    \E i \in DOMAIN rawItems \ skipped, j \in skipped, f \in DOMAIN o.keyReferences :
        LET asked == Member(SnakeKeys(rawItems[i])[2], f)
        IN  asked # Nil /\ IdentityComponent(asked)
                = IdentityComponent(Member(SnakeKeys(rawItems[j])[2], o.keyReferences[f].idField))
LanesShare(rawItems, o, unescapes, skipped, meta) ==
    ReadAlike(rawItems, o, unescapes, skipped, meta) /\ ~ AsksSkipped(rawItems, o, skipped)

\* Of the items of a pull, got are what a run configures, unskipped what it configures without
\* the skips, and adopted the identities of the adopt lane, where both lanes share the keys.
AccountsFor(got, unskipped, adopted, skipped, all, projection, o, share) ==
    ~ HasFailed(got) =>
        /\ Cardinality(DOMAIN got.items) + Cardinality(skipped) = all
        /\ ~ HasFailed(unskipped) => \A k \in DOMAIN got.items :
              k \in DOMAIN unskipped.items /\ unskipped.items[k] = got.items[k]
        /\ \A k \in DOMAIN got.items : \A f \in DOMAIN got.originals[k] \ DOMAIN got.items[k] :
              LossIsTold(got.originals[k], f, projection, o, got.drops)
        /\ ~ HasFailed(adopted) /\ share =>
              {identity.key : identity \in adopted.identities} = DOMAIN got.items
\* Every raw item is accounted for: it is skipped by a rule or has one configuration of its
\* own; a rule that skips items never renames or changes those that stay, although keys are
\* made of the names of others; what an item loses is told; and adopt imports exactly the keys
\* that transform writes, unless a skipped item is asked for its name or one lane alone changed
\* what it read (executeTransform, keyReferenceIndex, deriveAdoptionIdentities).
TransformAccounts(rawItems, block, o, unescapes) ==
    LET skipped == SkippedItems(rawItems, o, unescapes)
        meta == AdoptionMetadataFor(<<>>, o)
        adopted == PreparedIdentities(rawItems, meta)
    IN  AccountsFor(TransformLoadedItems(rawItems, block, o, unescapes),
                    TransformLoadedItems(rawItems, block, [o EXCEPT !.skipIf = <<>>, !.skipIfLte = <<>>], unescapes),
                    adopted, skipped, Len(rawItems), CompileProjection(block, o.mergeBlocks, TRUE), o,
                    HasFailed(adopted) \/ LanesShare(rawItems, o, unescapes, skipped, meta))
=============================================================================
