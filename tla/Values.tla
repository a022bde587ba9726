------------------------------- MODULE Values -------------------------------
(***************************************************************************)
(* JSON values as the transform and adopt lanes see them: decoded with     *)
(* numbers kept as written, object members without an order                *)
(* (go/internal/transform/transform.go, snake.go, coerce.go).  A value is  *)
(* tagged with its kind, so a text "1" and the number 1 stay different.    *)
(* Numbers are integers.  What is read out of a text (its slug, the        *)
(* integer it spells, its parts) are tables, given as constants.           *)
(***************************************************************************)
EXTENDS Integers, Sequences, FiniteSets, Functions, SequencesExt, TLC

CONSTANTS
    NameOrder,   \* every field name and text the code sorts, in code point order
    SnakeOf,     \* SnakeOf[n]: the snake_case of a name that is not its own
    SlugOf,      \* SlugOf[t]: the runs of letters and digits of a text that is not one run
    IntegerOf,   \* IntegerOf[t]: the integer a text spells, for the texts that spell one
    PartsOf      \* PartsOf[t]: the parts of a comma separated text, trimmed, none of them blank

ASSUME ValuesAssumption ==
    /\ NameOrder \in Seq(STRING) /\ Cardinality(Range(NameOrder)) = Len(NameOrder)
    /\ \A t \in DOMAIN IntegerOf : IntegerOf[t] \in Int
    /\ \A t \in DOMAIN SlugOf : SlugOf[t] \in Seq(STRING)
    /\ \A t \in DOMAIN PartsOf : PartsOf[t] \in Seq(STRING)

Nil == <<"null">>
Bool(b) == <<"bool", b>>
Number(n) == <<"number", n>>
Text(t) == <<"text", t>>
List(s) == <<"list", s>>
Object(f) == <<"object", f>>
KindOf(v) == v[1]
Is(v, kind) == KindOf(v) = kind
Scalar(v) == KindOf(v) \in {"bool", "number", "text"}

\* An operation that is refused.
Failed(why) == [failed |-> why]
HasFailed(result) == "failed" \in DOMAIN result

\* What reading a member that is not there gives, as for a member that is null.
Member(item, f) == IF f \in DOMAIN item THEN item[f] ELSE Nil
Without(item, fields) == [f \in DOMAIN item \ fields |-> item[f]]
Put(item, f, v) == [g \in DOMAIN item \cup {f} |-> IF g = f THEN v ELSE item[g]]
Entry1(f, v) == [g \in {f} |-> v]

\* Names and texts in code point order.
Sorted(S) == SelectSeq(NameOrder, LAMBDA n : n \in S)
Before(s, t) ==
    \E i, j \in DOMAIN NameOrder : i < j /\ NameOrder[i] = s /\ NameOrder[j] = t

\* The first of some names in that order.
Foremost(S) == CHOOSE s \in S : \A t \in S \ {s} : Before(s, t)
\* A step taken n times from a beginning.
Iterated(step, start) ==
    LET after[n \in Nat] == IF n = 0 THEN start ELSE step[after[n - 1]] IN after

SnakeName(n) == IF n \in DOMAIN SnakeOf THEN SnakeOf[n] ELSE n

\* The runs of letters and digits a key keeps of a text; keys join them with "_".
Slug(t) == IF t \in DOMAIN SlugOf THEN SlugOf[t] ELSE <<t>>
SlugOfParts(parts) == FlattenSeq([i \in DOMAIN parts |-> Slug(parts[i])])

\* The text of an identity component.
IdentityComponent(v) ==
    CASE Is(v, "text") -> v[2]
      [] Is(v, "bool") -> IF v[2] THEN "True" ELSE "False"
      [] Is(v, "number") -> ToString(v[2])
      [] OTHER -> "None"

\* The integer a number is or a text spells.
Spelled(v) == CASE Is(v, "number") -> {v[2]}
                [] Is(v, "text") /\ v[2] \in DOMAIN IntegerOf -> {IntegerOf[v[2]]}
                [] OTHER -> {}

CoerceBoolean(v) ==
    CASE Is(v, "text") /\ v[2] \in {"true", "1"} -> Bool(TRUE)
      [] Is(v, "text") /\ v[2] \in {"false", "0"} -> Bool(FALSE)
      [] Is(v, "number") -> Bool(v[2] # 0)
      [] OTHER -> v

\* A reference written as an object stands for its id.
UnwrapReference(v) == IF Is(v, "object") /\ "id" \in DOMAIN v[2] THEN v[2]["id"] ELSE v

\* A default that is an integer also matches the text that spells it.
MatchesTransformDefault(v, default) ==
    \/ v = default
    \/ Is(default, "number") /\ Is(v, "text") /\ Spelled(v) = {default[2]}

\* Division rounds down, as Python's; the divisor is not zero.
DivideInteger(n, d) == IF d > 0 THEN n \div d ELSE (-n) \div (-d)
DividedValue(v, d) ==
    IF Spelled(v) = {} THEN v
    ELSE Number(DivideInteger(CHOOSE n \in Spelled(v) : TRUE, d))
=============================================================================
