----------------------------- MODULE Documents -----------------------------
(***************************************************************************)
(* The documents that a user may write into sft.json, and what json_parser *)
(* should make of them.  A document is a list of members, each a name and  *)
(* a value; every text that Render makes of it is legal JSON.  Of escapes  *)
(* there is the quote: any other is a word like the rest, which both the   *)
(* writer and json_parser leave as it is spelled.                          *)
(***************************************************************************)
EXTENDS JsonParser

(* Writing a document down.  A style has the blanks before a colon, between  *)
(* members, and in an array that is empty.                                   *)

RECURSIVE Render(_, _), Join(_, _)

Digits(n) ==
    IF n < 0 THEN <<"-", "n80">>
    ELSE <<CHOOSE d \in DOMAIN Numerals : Numerals[d] = n>>

Join(parts, between) ==
    IF parts = <<>> THEN <<>>
    ELSE IF Len(parts) = 1 THEN parts[1]
    ELSE parts[1] \o between \o Join(Tail(parts), between)

\* A quote within a string has its backslash.
EscapedQuote == "\\\""
Spelled(word) == IF word = EscapedQuote THEN <<"\\", Quote>> ELSE <<word>>

Quoted(s) == <<Quote>> \o Join([i \in DOMAIN s |-> Spelled(s[i])], <<>>) \o <<Quote>>

Member(m, s) == Quoted(m[1]) \o s.colon \o <<":">> \o Render(m[2], s)

Render(v, s) ==
    CASE v[1] = "str" -> Quoted(v[2])
      [] v[1] = "num" -> Digits(v[2])
      [] v[1] = "bool" -> <<IF v[2] THEN "true" ELSE "false">>
      [] v[1] = "null" -> <<"null">>
      [] v[1] = "arr" ->
            <<"[">> \o (IF v[2] = <<>> THEN s.empty
                        ELSE Join([i \in DOMAIN v[2] |-> Render(v[2][i], s)], <<",">>)) \o <<"]">>
      [] v[1] = "members" ->
            <<"{">> \o s.between
              \o Join([i \in DOMAIN v[2] |-> Member(v[2][i], s)], <<",">> \o s.between)
              \o (IF v[2] = <<>> THEN <<>> ELSE s.between) \o <<"}">>

RECURSIVE Flat(_)
Flat(v) == IF v[1] = "arr" THEN {v} \cup UNION {Flat(v[2][i]) : i \in DOMAIN v[2]}
           ELSE IF v[1] = "members" THEN UNION {Flat(v[2][i][2]) : i \in DOMAIN v[2]} ELSE {v}

RECURSIVE Strings(_)
Strings(v) == CASE v[1] = "str" -> {v[2]}
                [] v[1] = "arr" -> UNION {Strings(v[2][i]) : i \in DOMAIN v[2]}
                [] v[1] = "members" ->
                      UNION {{v[2][i][1]} \cup Strings(v[2][i][2]) : i \in DOMAIN v[2]}
                [] OTHER -> {}

\* A value or a name, however deep, holds a quote: parse_str ends there.
HasEscape(doc) ==
    \E s \in Strings(<<"members", doc>>) : \E i \in DOMAIN s : s[i] = EscapedQuote

\* The legal JSON that json_parser reads: no quote in a string, no tab or line
\* end before a colon, no blank inside an empty array or object, no negative number.
Legible(doc, style) ==
    LET values == Flat(<<"members", doc>>)
    IN  /\ ~HasEscape(doc)
        /\ \A i \in DOMAIN style.colon : style.colon[i] = " " \/ doc = <<>>
        /\ doc = <<>> => style.between = <<>>
        /\ style.empty = <<>> \/ <<"arr", <<>>>> \notin values
        /\ \A v \in values : v[1] = "num" => v[2] >= 0

RECURSIVE Meaning(_)

\* The value that is meant; of two members of one name, the first counts.
Meaning(v) ==
    CASE v[1] = "arr" -> <<"arr", [i \in DOMAIN v[2] |-> Meaning(v[2][i])]>>
      [] v[1] = "members" ->
            <<"obj", [k \in {v[2][i][1] : i \in DOMAIN v[2]} |->
                        Meaning(v[2][CHOOSE i \in DOMAIN v[2] : v[2][i][1] = k
                                       /\ \A j \in 1..i-1 : v[2][j][1] # k][2])]>>
      [] OTHER -> v
==============================================================================
