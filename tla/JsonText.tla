-------------------------------- MODULE JsonText --------------------------------
(***************************************************************************)
(* json_value and its kinds (Json/*.cpp): writing a document as text and    *)
(* parsing it.  A text is a sequence of characters; true, false and null    *)
(* are one each.  Numbers are natural, printed without an exponent.         *)
(***************************************************************************)
EXTENDS Integers, Sequences, FiniteSets

CONSTANTS
  Precision,  \* digits10: how many digits of a number are printed
  Documents   \* the values that are written

Quote == "quote"
Backslash == "backslash"
Newline == "newline"
Space == "space"
Zero == "zero"  \* the character '\0'
Digits == <<"0", "1", "2", "3", "4", "5", "6", "7", "8", "9">>
Literals == {"null", "true", "false"}

VARIABLES
  document,  \* the value
  text,      \* what to_string() made of it
  parsed     \* what from_string() made of the text or of a part of it

jsonVars == <<document, text, parsed>>

Failed == [ok |-> FALSE, value |-> [literal |-> "nullptr"], rest |-> <<>>]
Parsed(value, rest) == [ok |-> TRUE, value |-> value, rest |-> rest]

JsonInit ==
  /\ document \in Documents
  /\ text = <<>> /\ parsed = [cut |-> -1, result |-> Failed]

Starts(rest, character) == rest # <<>> /\ Head(rest) = character

-------------------------------------------------------------------------------

\* Mutant: a backslash is written as it is.
EscapedQuotes(character) ==
  CASE character = Quote -> <<Backslash, Quote>>
    [] character = Newline -> <<Backslash, "n">>
    [] OTHER -> <<character>>

\* json_string::to_string(), its switch; a '\0' ends the string.
Escaped(character) ==
  CASE character = Quote -> <<Backslash, Quote>>
    [] character = Backslash -> <<Backslash, Backslash>>
    [] character = Newline -> <<Backslash, "n">>
    [] OTHER -> <<character>>

RECURSIVE Escape(_), Decimal(_), Text(_, _), Items(_, _), Entries(_, _)

Escape(characters) ==
  IF characters = <<>> \/ Starts(characters, Zero) THEN <<>>
  ELSE Escaped(Head(characters)) \o Escape(Tail(characters))

Decimal(number) ==
  IF number < 10 THEN <<Digits[number + 1]>>
  ELSE Append(Decimal(number \div 10), Digits[(number % 10) + 1])

\* json_number::to_string(): the digits after the first Precision ones are rounded away.
Rounded(number) ==
  LET unit == 10 ^ (Len(Decimal(number)) - Precision)
  IN  IF Len(Decimal(number)) <= Precision THEN number
      ELSE ((number + unit \div 2) \div unit) * unit

Quoted(characters) == <<Quote>> \o characters \o <<Quote>>

\* A sign of the syntax; another program may have put white space around it.
Sign(sign, space) == space \o <<sign>> \o space

\* The items of an array, with a comma between two.
Items(items, space) ==
  CASE Len(items) = 0 -> <<>>
    [] Len(items) = 1 -> Text(Head(items), space)
    [] OTHER -> Text(Head(items), space) \o Sign(",", space) \o Items(Tail(items), space)

\* The properties of an object, in the order of its unordered_map; a name is written as it is.
Entries(entries, space) ==
  LET first == Quoted(Head(entries)[1]) \o Sign(":", space) \o Text(Head(entries)[2], space)
  IN  CASE Len(entries) = 0 -> <<>>
        [] Len(entries) = 1 -> first
        [] OTHER -> first \o Sign(",", space) \o Entries(Tail(entries), space)

Text(value, space) ==
  CASE DOMAIN value = {"literal"} -> <<value.literal>>
    [] DOMAIN value = {"number"} -> Decimal(Rounded(value.number))
    [] DOMAIN value = {"string"} -> Quoted(Escape(value.string))
    [] DOMAIN value = {"array"} -> Sign("[", space) \o Items(value.array, space) \o Sign("]", space)
    [] DOMAIN value = {"object"} -> Sign("{", space) \o Entries(value.object, space) \o Sign("}", space)

-------------------------------------------------------------------------------

\* json_skip_whitespace() leaves a text that is nothing but white space.
Skipped(rest) ==
  LET ink == {i \in DOMAIN rest : rest[i] \notin {Space, Newline}}
  IN  IF ink = {} THEN rest
      ELSE SubSeq(rest, CHOOSE i \in ink : \A j \in ink : i <= j, Len(rest))

Unescaped(character) ==
  CASE character = "n" -> Newline
    [] character = "0" -> Zero
    [] OTHER -> character

\* No closing quote: nullptr.
Unclosed(characters) == Failed

RECURSIVE InString(_, _), ParseNumber(_, _), ParseItems(_, _), ParseEntries(_, _), Parse(_)

\* json_string::from_string() after the opening quote.
InString(rest, characters) ==
  IF rest = <<>> THEN Unclosed(characters)
  ELSE IF Head(rest) = Quote THEN Parsed([string |-> characters], Tail(rest))
  ELSE IF Head(rest) # Backslash THEN InString(Tail(rest), Append(characters, Head(rest)))
  ELSE IF Tail(rest) = <<>> THEN Unclosed(characters)
  ELSE InString(SubSeq(rest, 3, Len(rest)), Append(characters, Unescaped(rest[2])))

ParseString(rest) == IF Starts(rest, Quote) THEN InString(Tail(rest), <<>>) ELSE Failed

\* from_chars takes the digits that are there.
ParseNumber(rest, number) ==
  LET digit == {i \in DOMAIN Digits : Starts(rest, Digits[i])}
  IN  IF digit = {} THEN Parsed([number |-> number], rest)
      ELSE ParseNumber(Tail(rest), 10 * number + (CHOOSE i \in digit : TRUE) - 1)

AfterComma(rest) == IF Starts(Skipped(rest), ",") THEN Tail(Skipped(rest)) ELSE Skipped(rest)

\* json_array::from_string(): the comma between items may be missing.
ParseItems(rest, items) ==
  IF Starts(Skipped(rest), "]") THEN Parsed([array |-> items], Tail(Skipped(rest)))
  ELSE IF Skipped(rest) = <<>> THEN Failed
  ELSE LET item == Parse(Skipped(rest))
       IN  IF ~item.ok THEN Failed
           ELSE ParseItems(AfterComma(item.rest), Append(items, item.value))

\* items[key] = value: of two values of one name the last stays.
WithEntry(entries, name, value) ==
  Append(SelectSeq(entries, LAMBDA e : e[1] # name), <<name, value>>)

\* json_object::from_string()
ParseEntries(rest, entries) ==
  IF Starts(Skipped(rest), "}") THEN Parsed([object |-> entries], Tail(Skipped(rest)))
  ELSE LET key == ParseString(Skipped(rest))
       IN  IF ~key.ok \/ ~Starts(Skipped(key.rest), ":") THEN Failed
           ELSE LET value == Parse(Tail(Skipped(key.rest)))
                IN  IF ~value.ok THEN Failed
                    ELSE ParseEntries(AfterComma(value.rest),
                                      WithEntry(entries, key.value.string, value.value))

\* json_value::from_string(): the first character says what follows.
Parse(rest) ==
  LET begin == Skipped(rest)
  IN  CASE begin = <<>> -> Failed
        [] Starts(begin, Quote) -> ParseString(begin)
        [] Starts(begin, "[") -> ParseItems(Tail(begin), <<>>)
        [] Starts(begin, "{") -> ParseEntries(Tail(begin), <<>>)
        [] \E literal \in Literals : Starts(begin, literal) ->
             Parsed([literal |-> Head(begin)], Tail(begin))
        [] \E i \in DOMAIN Digits : Starts(begin, Digits[i]) -> ParseNumber(begin, 0)
        [] OTHER -> Failed

-------------------------------------------------------------------------------

\* to_string(), or the same document written by an editor.
ToString(space) ==
  /\ text = <<>> /\ text' = Text(document, space)
  /\ UNCHANGED <<document, parsed>>

\* from_string() of the text, or of what arrived of it.
FromString(length) ==
  /\ text # <<>> /\ parsed.cut = -1
  /\ length \in 0 .. Len(text)
  /\ parsed' = [cut |-> length, result |-> Parse(SubSeq(text, 1, length))]
  /\ UNCHANGED <<document, text>>

JsonNext ==
  \/ \E space \in {<<>>, <<Space>>, <<Newline, Space>>} : ToString(space)
  \/ \E length \in 0 .. Len(text) : FromString(length)

-------------------------------------------------------------------------------

RECURSIVE Same(_, _)
\* Equal documents: the order of an object's properties does not matter.
Same(a, b) ==
  /\ DOMAIN a = DOMAIN b
  /\ CASE DOMAIN a = {"array"} -> Len(a.array) = Len(b.array) /\ \A i \in DOMAIN a.array : Same(a.array[i], b.array[i])
       [] DOMAIN a = {"object"} ->
            /\ Len(a.object) = Len(b.object)
            /\ \A i \in DOMAIN a.object : \E j \in DOMAIN b.object :
                 a.object[i][1] = b.object[j][1] /\ Same(a.object[i][2], b.object[j][2])
       [] OTHER -> a = b

\* What a text keeps of a document: a string up to its first '\0', a number rounded.
RECURSIVE Kept(_)
Kept(value) ==
  CASE DOMAIN value = {"string"} ->
         LET cuts == {n \in 1 .. Len(value.string) : value.string[n] = Zero}
         IN  IF cuts = {} THEN value
             ELSE [string |-> SubSeq(value.string, 1, (CHOOSE n \in cuts : \A m \in cuts : n <= m) - 1)]
    [] DOMAIN value = {"number"} -> [number |-> Rounded(value.number)]
    [] DOMAIN value = {"array"} -> [array |-> [i \in DOMAIN value.array |-> Kept(value.array[i])]]
    [] DOMAIN value = {"object"} ->
         [object |-> [i \in DOMAIN value.object |-> <<value.object[i][1], Kept(value.object[i][2])>>]]
    [] OTHER -> value

\* No name has a character that means something between quotes.
RECURSIVE NamesArePlain(_)
NamesArePlain(value) ==
  CASE DOMAIN value = {"array"} -> \A i \in DOMAIN value.array : NamesArePlain(value.array[i])
    [] DOMAIN value = {"object"} ->
         \A i \in DOMAIN value.object :
           /\ \A n \in DOMAIN value.object[i][1] : value.object[i][1][n] \notin {Quote, Backslash}
           /\ NamesArePlain(value.object[i][2])
    [] OTHER -> TRUE

IsComplete == \/ parsed.cut = Len(text)
              \/ \A i \in parsed.cut + 1 .. Len(text) : text[i] \in {Space, Newline}

\* A text is parsed to the document it was made of, up to the first '\0' of its strings and the
\* last digits of its numbers, however it was formatted; one that was cut short is refused, a
\* lone number apart. This is so of names without quotes and backslashes only: of others the text
\* is another document or none.
ParsesWhatWasWritten ==
  parsed.cut >= 0 /\ NamesArePlain(document) =>
    IF IsComplete THEN parsed.result.ok /\ Same(Kept(document), parsed.result.value)
    ELSE parsed.result.ok => DOMAIN document = {"number"}
===============================================================================
