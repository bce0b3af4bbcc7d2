----------------------------- MODULE JsonParser -----------------------------
(***************************************************************************)
(* The recursive-descent parser of src/include/json.hpp as a function from *)
(* texts to results.  A text is a sequence of tokens: the punctuation of   *)
(* JSON, blanks, the words of strings, literals and numerals.  It ends in  *)
(* the zero byte that TypeArray puts behind the file.                      *)
(***************************************************************************)
EXTENDS Integers, Sequences, TLC

Quote == "\""
Tab == "\t"
Blank == {" ", Tab, "\n", "\r"}
Nul == "nul"

\* A numeral outside of these is too long for std::stoll, or has a sign or a
\* fraction: to parse_num it is a token like any other that is no digit.
Numerals == [n80 |-> 80, n9008 |-> 9008, n70000 |-> 70000]

\* What becomes of a call of parse_val: a value and where it ends, a
\* std::exception, a null pointer that is dereferenced, a loop without end, or
\* a scan that leaves the buffer.
Parsed(val, at) == [out |-> "value", val |-> val, at |-> at]
Broken(out) == [out |-> out, val |-> <<"none">>, at |-> 0]

At(text, i) == IF i <= Len(text) THEN text[i] ELSE Nul

Skip(text, i, over) ==
    LET stops == {j \in i..Len(text) + 1 : At(text, j) \notin over}
    IN  CHOOSE j \in stops : \A k \in stops : j <= k

\* parse_str takes what there is up to the next quote, escaped or not.
Str(text, i) ==
    LET quotes == {j \in i..Len(text) : text[j] = Quote}
    IN  IF quotes = {} THEN Broken("wild")
        ELSE LET end == CHOOSE j \in quotes : \A k \in quotes : j <= k
             IN  Parsed(<<"str", SubSeq(text, i, end - 1)>>, end + 1)

\* emplace: the first member of a name stays.
Emplace(obj, key, val) == IF key \in DOMAIN obj THEN obj ELSE obj @@ (key :> val)

RECURSIVE Value(_, _), Items(_, _, _), Members(_, _, _)

\* parse_val; at the end of the text it returns a value all the same.
Value(text, i) ==
    LET c == At(text, i)
    IN  CASE c \in Blank -> Value(text, i + 1)
          [] c = Nul -> Parsed(<<"num", 0>>, i)
          [] c = "[" -> Items(text, i + 1, <<>>)
          [] c = "{" -> Members(text, i + 1, <<>>)
          [] c = Quote -> Str(text, i + 1)
          [] c \in {"false", "true"} -> Parsed(<<"bool", c = "true">>, i + 1)
          [] c = "null" -> Parsed(<<"null">>, i + 1)
          [] c \in DOMAIN Numerals -> Parsed(<<"num", Numerals[c]>>, i + 1)
          [] OTHER -> Broken("invalid_argument")

\* Mutant of Separator: only commas and spaces separate.
SeparatorOnLine == {" ", ","}

Separator == Blank \cup {","}

\* parse_array: behind the end of the text parse_val goes on returning.
Items(text, i, arr) ==
    IF At(text, i) = "]" THEN Parsed(<<"arr", arr>>, i + 1)
    ELSE IF At(text, i) = Nul THEN Broken("hangs")
    ELSE LET v == Value(text, i)
         IN  IF v.out # "value" THEN v
             ELSE Items(text, Skip(text, v.at, Separator), Append(arr, v.val))

\* parse_kv: the name is taken for a string without a look.
Members(text, i, obj) ==
    IF At(text, i) = "}" THEN Parsed(<<"obj", obj>>, i + 1)
    ELSE LET k == Value(text, i)
         IN  IF k.out # "value" THEN k
             ELSE IF k.val[1] # "str" THEN Broken("faults")
             ELSE LET v == Value(text, Skip(text, k.at, {" ", ":"}))
                  IN  IF v.out # "value" THEN v
                      ELSE Members(text, Skip(text, v.at, Separator),
                                   Emplace(obj, k.val[2], v.val))

\* json_parser(File&).
Parse(text) == Value(text, 1)

RECURSIVE Find(_, _)

\* Val::find goes into members and items, in the order of a hash table: what it
\* may return.
Find(val, key) ==
    CASE val[1] = "arr" ->
            LET hits == {i \in DOMAIN val[2] : Find(val[2][i], key) # {}}
            IN  IF hits = {} THEN {}
                ELSE Find(val[2][CHOOSE i \in hits : \A j \in hits : i <= j], key)
      [] val[1] = "obj" ->
            (IF key \in DOMAIN val[2] THEN {val[2][key]} ELSE {})
              \cup UNION {Find(val[2][k], key) : k \in DOMAIN val[2] \ {key}}
      [] OTHER -> {}
==============================================================================
