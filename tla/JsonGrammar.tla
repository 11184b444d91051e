---------------------------- MODULE JsonGrammar ----------------------------
(***************************************************************************)
(* JSON documents by their grammar: the reference the parser of module     *)
(* Json is compared with.  A text is a sequence of lexemes without white   *)
(* space; a document is a text together with the value it denotes.         *)
(***************************************************************************)
EXTENDS Integers, Sequences, SequencesExt

\* Strings are the empty one and two others, which serve as names; "v" is
\* true, false, null or a number; "x" begins nothing.
Names   == {"a", "b"}
Scalars == Names \cup {"", "v"}
Lexemes == {"{", "}", "[", "]", ",", ":", "x"} \cup Scalars

\* The type of a scalar is its lexeme, that of a container its bracket.
Plain(type) == [type |-> type, list |-> <<>>, members |-> {}]

WithElement(v, w) == [v EXCEPT !.list = Append(@, w)]

\* The last of several members of one name counts.
WithMember(v, key, w) ==
    [v EXCEPT !.members = {m \in @ : m.key # key} \cup {[key |-> key, value |-> w]}]

-----------------------------------------------------------------------------
(* A phrase is a value, or the inside of an array or of an object, which   *)
(* are built from the left.                                                *)

Phrase(t, v) == [text |-> t, value |-> v]

FirstElement(v)   == Phrase(v.text, WithElement(Plain("["), v.value))
NextElement(b, v) == Phrase(b.text \o <<",">> \o v.text, WithElement(b.value, v.value))

FirstMember(m, v)   == Phrase(<<m, ":">> \o v.text, WithMember(Plain("{"), m, v.value))
NextMember(b, m, v) ==
    Phrase(b.text \o <<",", m, ":">> \o v.text, WithMember(b.value, m, v.value))

Closed(open, b, closing) == Phrase(<<open>> \o b.text \o closing, b.value)

\* The phrases of length k, if there are any yet.
Of(levels, k) ==
    IF k \in 1 .. Len(levels) THEN levels[k]
    ELSE [values |-> {}, elements |-> {}, members |-> {}]

\* The values of length n, given the phrases of every smaller length.
ScalarValues(n) == IF n = 1 THEN {Phrase(<<s>>, Plain(s)) : s \in Scalars} ELSE {}

Arrays(shorter, n, trailingComma) ==
    (IF n = 2 THEN {Phrase(<<"[", "]">>, Plain("["))} ELSE {})
    \cup {Closed("[", b, <<"]">>) : b \in Of(shorter, n - 2).elements}
    \cup (IF trailingComma
          THEN {Closed("[", b, <<",", "]">>) : b \in Of(shorter, n - 3).elements}
          ELSE {})

Objects(shorter, n, trailingComma) ==
    (IF n = 2 THEN {Phrase(<<"{", "}">>, Plain("{"))} ELSE {})
    \cup {Closed("{", b, <<"}">>) : b \in Of(shorter, n - 2).members}
    \cup (IF trailingComma
          THEN {Closed("{", b, <<",", "}">>) : b \in Of(shorter, n - 3).members}
          ELSE {})

\* The insides of length n; values are those of length n.
Elements(shorter, n, values) ==
    {FirstElement(v) : v \in values}
    \cup UNION {{NextElement(b, v) :
                    b \in Of(shorter, n - k - 1).elements, v \in Of(shorter, k).values} :
                k \in 1 .. n - 2}

Members(shorter, n) ==
    {FirstMember(m, v) : m \in Names, v \in Of(shorter, n - 2).values}
    \cup UNION {{NextMember(b, m, v) :
                    b \in Of(shorter, n - k - 3).members, m \in Names,
                    v \in Of(shorter, k).values} :
                k \in 1 .. n - 4}

Level(shorter, n, trailingComma) ==
    LET values == ScalarValues(n) \cup Arrays(shorter, n, trailingComma)
                                  \cup Objects(shorter, n, trailingComma)
    IN  [values   |-> values,
         elements |-> Elements(shorter, n, values),
         members  |-> Members(shorter, n)]

\* The phrases of length 1 to n, by length.
Levels(trailingComma) ==
    LET upTo[n \in Nat] ==
            IF n = 0 THEN <<>>
            ELSE LET shorter == upTo[n - 1]
                 IN  Append(shorter, Level(shorter, n, trailingComma))
    IN  upTo

\* The documents of up to n lexemes: an object or an array.
Documents(n, trailingComma) ==
    LET levels == Levels(trailingComma)[n]
    IN  UNION {{d \in levels[k].values : d.value.type \in {"{", "["}} : k \in 1 .. n}

=============================================================================
