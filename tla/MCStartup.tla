----------------------------- MODULE MCStartup -----------------------------
(***************************************************************************)
(* A small instance of Startup: each setting with an ordinary, an empty    *)
(* and a wrong value, duplicates, nesting and empty containers, and every  *)
(* way to write them that differs for the parser.                          *)
(***************************************************************************)
EXTENDS Startup

Doc == INSTANCE Documents

MCRender(members, layout) == Doc!Render(<<"members", members>>, layout)
MCLegible(members, layout) == Doc!Legible(members, layout)
MCEscaped(members) == Doc!HasEscape(members)
MCMeaning(value) == Doc!Meaning(value)
MCParse(file) == Doc!Parse(file)
MCFind(value, key) == Doc!Find(value, key)

Text(s) == <<"str", s>>
Num(n) == <<"num", n>>

Pages == {<<>>, <<<<<<"HttpPath">>, Text(<<"www">>)>>>>, <<<<<<"HttpPath">>, Text(<<>>)>>>>,
          <<<<<<"HttpPath">>, Text(<<"www", "/">>)>>, <<<<"HttpPath">>, Text(<<"other">>)>>>>,
          <<<<<<"DefaultPage">>, Text(<<"home">>)>>>>, <<<<<<"DefaultPage">>, <<"null">>>>>>}
Ports == {<<>>, <<<<<<"ListenPort">>, Num(80)>>>>, <<<<<<"ListenPort">>, Num(70000)>>>>,
          <<<<<<"ListenPort">>, Num(-80)>>>>, <<<<<<"ListenPort">>, Text(<<"n80">>)>>>>,
          <<<<<<"ListenPort">>, <<"arr", <<Num(80)>>>>>>>>,
          <<<<<<"ListenPort">>, <<"members", <<<<<<"n80">>, Num(80)>>>>>>>>>>}
Logs == {<<>>, <<<<<<"LogPath">>, Text(<<"logs">>)>>>>, <<<<<<"LogPath">>, Text(<<>>)>>>>}
Extras == {<<>>, <<<<<<"extra">>, <<"arr", <<>>>>>>>>,
           <<<<<<"extra">>, <<"arr", <<Num(80), <<"bool", TRUE>>, <<"arr", <<>>>>>>>>>>>>,
           <<<<<<"extra">>, <<"members", <<<<<<"LogPath">>, Text(<<"inner">>)>>>>>>>>>>}

MCDocuments == {p \o q \o r \o s : p \in Pages, q \in Ports, r \in Logs, s \in Extras}

MCStyles ==
    {[colon |-> c, between |-> b, empty |-> e] :
        c \in {<<>>, <<" ">>, <<Doc!Tab>>}, b \in {<<>>, <<"\n", Doc!Tab>>}, e \in {<<>>, <<" ">>}}

Input(lines, docs, styles, files) ==
    [args : lines, doc : docs, style : styles, file : files]

Plain == [colon |-> <<" ">>, between |-> <<"\n", Doc!Tab>>, empty |-> <<>>]
Compact == [colon |-> <<>>, between |-> <<>>, empty |-> <<>>]

\* Documents that are cut short: the usual one and the one that nests.
Usual == <<<<<<"HttpPath">>, Text(<<"www">>)>>, <<<<"LogPath">>, Text(<<"logs">>)>>,
           <<<<"ListenPort">>, Num(9008)>>>>
Nested == <<<<<<"extra">>, <<"arr", <<<<"bool", FALSE>>, <<"arr", <<>>>>, Num(80)>>>>>>>>

\* A quote within the last string, within one that others follow, in a name, and
\* deep down.
Quoting == Text(<<"a", Doc!EscapedQuote>>)
EscapedDocs ==
    {<<<<<<"LogPath">>, Quoting>>>>,
     <<<<<<"HttpPath">>, Quoting>>, <<<<"ListenPort">>, Num(9008)>>>>,
     <<<<<<"a", Doc!EscapedQuote>>, Text(<<"www">>)>>, <<<<"ListenPort">>, Num(9008)>>>>,
     <<<<<<"HttpPath">>, Text(<<"www">>)>>, <<<<"extra">>, <<"arr", <<Quoting>>>>>>>>}

Arguments == {"-m", "-f", "-g", "-h", "-v", "-n", "-c", "-x", "word", "ip:port"}
AllLines == UNION {[1..n -> Arguments] : n \in 0..3}

MCInputs ==
    Input({<<>>}, MCDocuments, MCStyles, {"whole"})
      \cup Input({<<>>, <<"-n">>}, {Usual, Nested}, {Plain, Compact}, {"whole", "cut"})
      \cup Input({<<>>, <<"-n">>}, EscapedDocs, {Plain, Compact}, {"whole", "cut"})
      \cup Input({<<>>, <<"-n">>}, {<<>>}, {Compact}, {"absent", "directory"})
      \cup Input(AllLines, {<<>>}, {Compact}, {"whole"})

MCNames == {<<65>>, <<Percent, 65>>, <<65, 200, Question>>}
==============================================================================
