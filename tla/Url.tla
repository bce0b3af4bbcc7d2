-------------------------------- MODULE Url --------------------------------
(***************************************************************************)
(* decode_url of src/include/http.hpp, on texts whose escapes are whole    *)
(* (a text that ends within an escape makes it read past the end).         *)
(* Characters are their codes.                                             *)
(***************************************************************************)
EXTENDS Integers, Sequences

Percent == 37
Question == 63

\* _single_hex_to_char and hex_str_to_char: what is no decimal digit is taken
\* for an upper-case one, and the sum is cut to a char.
Hex(c) == IF c \in 48..57 THEN c - 48 ELSE c - 55
HexPair(c, d) == (Hex(c) * 16 + Hex(d)) % 256

Code == 0..255

\* The text from some character on, decoded; nothing if it ends within an escape.
Decoded[rest \in Seq(Code)] ==
    IF rest = <<>> \/ (rest[1] = Percent /\ Len(rest) < 3) THEN <<>>
    ELSE IF rest[1] = Percent
    THEN <<HexPair(rest[2], rest[3])>> \o Decoded[Tail(Tail(Tail(rest)))]
    ELSE <<rest[1]>> \o Decoded[Tail(rest)]

\* Mutant of DecodeUrl: the character behind an escape is copied unseen.
AdjacentUnseen[rest \in Seq(Code)] ==
    IF rest = <<>> THEN <<>>
    ELSE IF rest[1] = Percent
    THEN <<HexPair(rest[2], rest[3])>>
           \o (IF Len(rest) = 3 THEN <<>>
               ELSE <<rest[4]>> \o AdjacentUnseen[SubSeq(rest, 5, Len(rest))])
    ELSE <<rest[1]>> \o AdjacentUnseen[Tail(rest)]

DecodeUrlAdjacent(url) == AdjacentUnseen[url]

DecodeUrl(url) == Decoded[url]

\* handle_http: a `?' at the very end is dropped first.
Target(url) ==
    DecodeUrl(IF url[Len(url)] = Question THEN SubSeq(url, 1, Len(url) - 1) ELSE url)
==============================================================================
