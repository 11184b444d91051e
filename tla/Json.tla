-------------------------------- MODULE Json --------------------------------
(***************************************************************************)
(* The parser of server/libjson.hpp, with which the server reads the body  *)
(* of every request: Value::fromString, parseObject, parseArray and        *)
(* parseValue, lexeme by lexeme.  The C++ calls are a stack of frames, a   *)
(* frame being a function that has been called, its local state and the    *)
(* Value it fills.  White space is skipped in each state and is left out,  *)
(* and parseString and parseNumber return one lexeme each.                 *)
(*                                                                         *)
(* The text is chosen as it is read, so that every text of at most         *)
(* MaxLength lexemes is read.                                              *)
(***************************************************************************)
EXTENDS JsonGrammar

CONSTANT MaxLength

ASSUME JsonAssumption == MaxLength \in Nat

VARIABLES
    text,      \* the lexemes read
    frames,    \* active calls, the innermost last
    status     \* reading, returned, thrown, or thrown at the end of the text

vars == <<text, frames, status>>

Frame(function, at, value) ==
    [function |-> function, at |-> at, key |-> "", value |-> value]

Init ==
    /\ text = <<>>
    /\ frames = <<Frame("fromString", "begin", Plain("null"))>>
    /\ status = "reading"

StartsValue(c) == c \in {"{", "["} \cup Scalars

\* The switch of each function: the state after lexeme c, or that the
\* function returns, or that it throws.
FromStringGoes(at, c) ==
    CASE at = "begin" /\ c = "{"     -> "objectEnd"
      [] at = "begin" /\ c = "["     -> "arrayEnd"
      [] at = "objectEnd" /\ c = "}" -> "end"
      [] at = "arrayEnd" /\ c = "]"  -> "end"
      [] OTHER                       -> "throws"

ParseObjectGoes(at, c) ==
    CASE at = "key" /\ c = "}"        -> "returns"
      [] at = "key" /\ c \in Names    -> "sep"
      [] at = "sep" /\ c = ":"        -> "val"
      [] at = "val" /\ StartsValue(c) -> "end"
      [] at = "end" /\ c = ","        -> "key"
      [] at = "end" /\ c = "}"        -> "returns"
      [] OTHER                        -> "throws"

ParseArrayGoes(at, c) ==
    CASE at = "val" /\ c = "]"        -> "returns"
      [] at = "val" /\ StartsValue(c) -> "sep"
      [] at = "sep" /\ c = ","        -> "val"
      [] at = "sep" /\ c = "]"        -> "returns"
      [] OTHER                        -> "throws"

Goes(f, c) ==
    CASE f.function = "fromString"  -> FromStringGoes(f.at, c)
      [] f.function = "parseObject" -> ParseObjectGoes(f.at, c)
      [] f.function = "parseArray"  -> ParseArrayGoes(f.at, c)

\* Mutant: the value of a repeated name is dropped.
FilledOnce(f, v) ==
    CASE f.function = "parseArray" -> [f EXCEPT !.value = WithElement(@, v)]
      [] f.function = "parseObject" ->
           IF \E m \in f.value.members : m.key = f.key THEN f
           ELSE [f EXCEPT !.value = WithMember(@, f.key, v)]
      [] f.function = "fromString" -> [f EXCEPT !.value = v]

\* A frame whose Value takes up the value v that was parsed for it.
Filled(f, v) ==
    CASE f.function = "parseArray"  -> [f EXCEPT !.value = WithElement(@, v)]
      [] f.function = "parseObject" -> [f EXCEPT !.value = WithMember(@, f.key, v)]
      [] f.function = "fromString"  -> [f EXCEPT !.value = v]

-----------------------------------------------------------------------------
Caller == Front(frames)
Callee == Last(frames)

\* A bracket calls parseObject or parseArray, directly or by parseValue.
Calls(c) ==
    /\ Callee.at \in {"begin", "val"}
    /\ c \in {"{", "["}
    /\ frames' = Append(Append(Caller, [Callee EXCEPT !.at = Goes(Callee, c)]),
                    IF c = "{" THEN Frame("parseObject", "key", Plain("{"))
                               ELSE Frame("parseArray", "val", Plain("[")))

\* A function that is done gives its value to the one that called it.
Returns(c) ==
    /\ Goes(Callee, c) = "returns"
    /\ frames' = Append(Front(Caller), Filled(Last(Caller), Callee.value))

\* Every other lexeme is taken by the innermost function.
Takes(c) ==
    LET f == [Callee EXCEPT !.at = Goes(Callee, c)] IN
    /\ Goes(Callee, c) \notin {"returns", "throws"}
    /\ c \notin {"{", "["}
    /\ frames' = Append(Caller,
                    CASE Callee.at = "key" -> [f EXCEPT !.key = c]
                      [] Callee.at = "val" -> Filled(f, Plain(c))
                      [] OTHER             -> f)

Throws(c) == Goes(Callee, c) = "throws" /\ UNCHANGED frames

Read(c) ==
    /\ status = "reading"
    /\ Len(text) < MaxLength
    /\ text' = Append(text, c)
    /\ \/ (Calls(c) \/ Returns(c) \/ Takes(c)) /\ status' = "reading"
       \/ Throws(c) /\ status' = "thrown"

\* Mutant: only the state of the innermost function is looked at.
EndInside == status' = "returned"

\* The text ends: fromString returns in every state, the others throw that
\* their value is not terminated.
AtEnd == status' = IF Len(frames) = 1 THEN "returned" ELSE "unterminated"

ReadEnd ==
    /\ status = "reading"
    /\ AtEnd
    /\ UNCHANGED <<text, frames>>

Next == (\E c \in Lexemes : Read(c)) \/ ReadEnd

Spec == Init /\ [][Next]_vars

-----------------------------------------------------------------------------
Strict  == Documents(MaxLength, FALSE)
Lenient == Documents(MaxLength, TRUE)
Texts   == {d.text : d \in Strict}
Beginnings == UNION {{SubSeq(t, 1, k) : k \in 1 .. Len(t)} : t \in Texts}

Parsed == frames[1].value

\* Every JSON document that is an object or an array and has no empty name
\* is parsed, to the value it denotes: the parser does not throw inside one,
\* nor at its end.
ParsesEveryDocument ==
    /\ status = "thrown" => text \notin Beginnings
    /\ status = "unterminated" => text \notin Texts
    /\ status = "returned" /\ text \in Texts =>
         [text |-> text, value |-> Parsed] \in Strict

\* What is accepted is a document, with the value it denotes, except that a
\* comma may precede a closing bracket, the last bracket may come twice, and
\* nothing at all is null.
AcceptsOnlyDocuments ==
    status = "returned" =>
        \/ text = <<>> /\ Parsed = Plain("null")
        \/ [text |-> text, value |-> Parsed] \in Lenient
        \/ /\ [text |-> Front(text), value |-> Parsed] \in Lenient
           /\ Last(text) = Last(Front(text))

=============================================================================
