------------------------------ MODULE Startup ------------------------------
(***************************************************************************)
(* From the command line to the first page: main (src/src/main.cpp),       *)
(* log::init_log (src/src/logger.hpp), the settings that                   *)
(* receive_loop::loop takes from sft.json (src/src/server.hpp), and the    *)
(* file that a GET names under them.  What may go wrong is which exception *)
(* meets which handler: file_exception and socket_exception are no         *)
(* std::exception (src/include/exception.hpp).                             *)
(*                                                                         *)
(* The settings are chosen as a list of members and a way to write them    *)
(* down; every such text is legal JSON unless it is cut short.             *)
(***************************************************************************)
EXTENDS Exceptions, Integers, Sequences, Url

CONSTANTS Inputs,          \* the arguments, the settings, how they are written down,
                           \* and what has become of the file
          Names,           \* what pages are called, as codes
          TextOf(_, _),    \* the text of a document in a style
          Readable(_, _),  \* whether json_parser copes with that text
          Escaped(_),      \* whether a string of a document holds a quote
          MeantBy(_),      \* the value of json_parser that a value stands for
          JsonParse(_),    \* json_parser(File&)
          FindIn(_, _)     \* Val::find

Word == STRING
Containers == {"arr", "obj"}

\* A document is a list of names and values, a value a kind and its payload.
ASSUME InputsAssumption ==
    \A input \in Inputs :
        /\ input.args \in Seq(Word)
        /\ input.file \in {"whole", "cut", "absent", "directory"}
        /\ TextOf(input.doc, input.style) \in Seq(Word) \ {<<>>}
        /\ Readable(input.doc, input.style) => ~Escaped(input.doc)
        /\ Len(input.doc) \in Nat /\ DOMAIN input.doc = 1..Len(input.doc)
        /\ \A i \in DOMAIN input.doc :
             LET v == input.doc[i][2]
             IN  /\ v[1] = "num" => v[2] \in Int
                 /\ IF v[1] \in {"arr", "members"} THEN MeantBy(v)[1] \in Containers
                    ELSE MeantBy(v) = v /\ v[1] \notin Containers

ASSUME NamesAssumption == \A name \in Names : name \in Seq(1..255) /\ name # <<>>

VARIABLES
    args,       \* argv
    doc, style, \* what the user wrote, and how
    text,       \* sft.json, or that it is absent, or a directory
    phase,      \* where main stands, or how it ended
    keepLog,    \* log::keep_log
    logDir,     \* path of init_log
    conf,       \* receive_loop::json_conf
    port,       \* of the listening socket
    todo,       \* members that loop() has still to look at
    asked,      \* the page of the first request
    target      \* target_http

inputVars == <<args, doc, style, text>>
vars == <<inputVars, phase, keepLog, logDir, conf, port, todo, asked, target>>

DefaultPort == 9007
PortNumbers == {n \in Nat : n < 65536}
Here == <<".", "/">>

Missing == {<<"absent">>, <<"directory">>}
Written == TextOf(doc, style)

------------------------------------------------------------------------------
Server == {"log", "settings", "apply", "listen", "serving", "answered"}
Client == {"send", "message", "fetch", "nothing"}
Ended == Client \cup {"usage", "version", "missing", "noport",
                      "aborted", "unlogged", "taken", "faulted", "stopped", "hung", "mute"}

TypeOK ==
    /\ \E input \in Inputs : <<args, doc, style>> = <<input.args, input.doc, input.style>>
    /\ text \in Missing \/ text = SubSeq(Written, 1, Len(text))
    /\ phase \in {"options"} \cup Server \cup Ended
    /\ keepLog \in BOOLEAN
    /\ port \in PortNumbers
    /\ DOMAIN todo = {} \/ phase \in {"apply", "stopped"}
    /\ DOMAIN conf = {} \/ {<<"HttpPath">>, <<"DefaultPage">>} \subseteq DOMAIN conf

Init ==
    /\ \E input \in Inputs :
         /\ args = input.args /\ doc = input.doc /\ style = input.style
         /\ CASE input.file = "whole" -> text = Written
              [] input.file = "cut" -> \E n \in 0..Len(Written) - 1 : text = SubSeq(Written, 1, n)
              [] OTHER -> text = <<input.file>>
    /\ phase = "options"
    /\ keepLog = TRUE
    /\ logDir = Here
    /\ conf = <<>>
    /\ port = DefaultPort
    /\ todo = <<>>
    /\ asked = <<>> /\ target = <<>>

------------------------------------------------------------------------------
(* main: getopt, then server or client. *)

TakesArgument == {"-m", "-f", "-g"}

WithOption(o, seen) == [out |-> seen.out, opts |-> seen.opts \cup {o}, left |-> seen.left]
WithArgument(arg, seen) == [out |-> seen.out, opts |-> seen.opts, left |-> <<arg>> \o seen.left]

\* getopt over the arguments that are left: how it ends, the options seen, and
\* the arguments that are none, which it moves behind the options.  `-c' is in
\* the option string and has no case.
GetOpt[line \in Seq(Word)] ==
    IF line = <<>> THEN [out |-> "done", opts |-> {}, left |-> <<>>]
    ELSE IF line[1] = "-h" THEN [out |-> "usage", opts |-> {}, left |-> <<>>]
    ELSE IF line[1] = "-v" THEN [out |-> "version", opts |-> {}, left |-> <<>>]
    ELSE IF line[1] \in {"-c", "-x"} \/ (line[1] \in TakesArgument /\ Len(line) = 1)
    THEN [out |-> "aborted", opts |-> {}, left |-> <<>>]
    ELSE IF line[1] \in TakesArgument THEN WithOption(line[1], GetOpt[Tail(Tail(line))])
    ELSE IF line[1] = "-n" THEN WithOption("-n", GetOpt[Tail(line)])
    ELSE WithArgument(line[1], GetOpt[Tail(line)])

\* What a client does with its connection; with none of the options it says
\* `Success on dealing' like the others.
ClientMode(opts) ==
    IF "-f" \in opts THEN "send" ELSE IF "-m" \in opts THEN "message"
    ELSE IF "-g" \in opts THEN "fetch" ELSE "nothing"

\* Mutant of Mode: -n is not looked at when there is no address.
ModeNoLog(opts, left) ==
    IF args # <<>> /\ left = <<>> THEN "missing"
    ELSE IF Len(args) <= 1 THEN "log"
    ELSE IF left = <<>> THEN "faulted"
    ELSE IF left[1] # "ip:port" THEN "noport"
    ELSE ClientMode(opts)

\* One argument or none is a server, whatever the argument is.
Mode(opts, left) ==
    IF args # <<>> /\ left = <<>> /\ "-n" \notin opts THEN "missing"
    ELSE IF Len(args) <= 1 THEN "log"
    ELSE IF left = <<>> THEN "faulted"
    ELSE IF left[1] # "ip:port" THEN "noport"
    ELSE ClientMode(opts)

ParseOptions ==
    /\ phase = "options"
    /\ LET seen == GetOpt[args] IN
         /\ phase' = IF seen.out # "done" THEN seen.out ELSE Mode(seen.opts, seen.left)
         /\ keepLog' = ("-n" \notin seen.opts)
    /\ UNCHANGED <<inputVars, logDir, conf, port, todo, asked, target>>

------------------------------------------------------------------------------
(* File, open_read_only and json_parser, as init_log and loop call them. *)

\* How the reading of sft.json may come out.  A scan that leaves the buffer
\* goes on in the heap.
Outcomes(file) ==
    IF file = <<"absent">> THEN {"file_exception"}
    ELSE IF file = <<"directory">> THEN {"invalid_argument"}
    ELSE LET out == JsonParse(file).out
         IN  IF out = "wild" THEN {"invalid_argument", "faults", "hangs"} ELSE {out}

\* Where main goes on behind a `catch (std::exception&)'.
Continued(out, read, caught, fault) ==
    CASE out = "value" -> read
      [] out = "faults" -> fault
      [] out = "hangs" -> "hung"
      [] OTHER -> IF Catches("exception", out) THEN caught ELSE "aborted"

\* A path gets its slash; nothing is tested before back().
Slashed(s) == IF s = <<>> \/ s[Len(s)] # "/" THEN Append(s, "/") ELSE s

LogPath == <<"LogPath">>

PathOf(v) == IF v[1] = "str" THEN Slashed(v[2]) ELSE Here

\* Mutant of LogPaths: the slash is forgotten.
LogPathsBare(file) ==
    LET found == FindIn(JsonParse(file).val, LogPath)
        Bare(v) == IF v[1] = "str" THEN v[2] ELSE Here
    IN  IF found = {} THEN {Here} ELSE {Bare(v) : v \in found}

LogPaths(file) ==
    LET found == FindIn(JsonParse(file).val, LogPath)
    IN  IF found = {} THEN {Here} ELSE {PathOf(v) : v \in found}

\* init_log: the log file that cannot be opened is a file_exception as well, and
\* ends the process ("unlogged").
InitLog ==
    /\ phase = "log"
    /\ \/ /\ ~keepLog
          /\ phase' = "settings"
          /\ UNCHANGED logDir
       \/ /\ keepLog
          /\ \E out \in Outcomes(text) :
               /\ logDir' \in IF out = "value" THEN LogPaths(text) ELSE {Here}
               /\ LET then == Continued(out, "settings", "settings", "faulted")
                  IN  phase' \in IF then = "settings" THEN {then, "unlogged"} ELSE {then}
    /\ UNCHANGED <<inputVars, keepLog, conf, port, todo, asked, target>>

\* process_and_submit: the first line of a day opens the log anew and reads
\* sft.json again, which may be gone by now.  What init_log throws then ends the
\* server, or only the answer if the line was a coroutine's, which swallows it.
NewDay ==
    /\ phase = "serving" /\ keepLog
    /\ \E file \in {text, <<"absent">>} : \E out \in Outcomes(file) :
         /\ text' = file
         /\ logDir' \in IF out = "value" THEN LogPaths(file) ELSE {Here}
         /\ LET then == Continued(out, "serving", "serving", "stopped")
            IN  phase' \in CASE then = "serving" -> {"serving", "unlogged", "mute"}
                             [] then = "aborted" -> {"aborted", "mute"}
                             [] OTHER -> {then}
    /\ UNCHANGED <<args, doc, style, keepLog, conf, port, todo, asked, target>>

Defaults ==
    [k \in {<<"HttpPath">>, <<"FileReceived">>, <<"FileToSend">>, <<"DefaultPage">>} |->
        IF k = <<"DefaultPage">> THEN <<"index.html">> ELSE Here]

\* get_obj: anything but an object has no members.
Obj(val) == IF val[1] = "obj" THEN val[2] ELSE <<>>

\* loop(), the parser: the defaults are set behind it.  SIGSEGV has a handler
\* by now, which ends the process with exit(0).
LoadSettings ==
    /\ phase = "settings"
    /\ \E out \in Outcomes(text) :
         /\ phase' = Continued(out, "apply", "listen", "stopped")
         /\ conf' = IF out = "value" THEN Defaults ELSE conf
         /\ todo' = IF out = "value" THEN Obj(JsonParse(text).val) ELSE <<>>
    /\ UNCHANGED <<inputVars, keepLog, logDir, port, asked, target>>

Done(k) == todo' = [n \in DOMAIN todo \ {k} |-> todo[n]]

\* Mutant of ApplyPort: the value is kept as it is.
ApplyPortWide ==
    /\ phase = "apply"
    /\ <<"ListenPort">> \in DOMAIN todo
    /\ LET v == todo[<<"ListenPort">>]
       IN  port' = IF v[1] = "num" THEN v[2] ELSE IF v[1] \in Containers THEN 0 ELSE port
    /\ Done(<<"ListenPort">>)
    /\ UNCHANGED <<inputVars, phase, keepLog, logDir, conf, asked, target>>

\* The port that a ListenPort asks for: a number is cut to 16 bits, and what has
\* no value of its own, an array or an object, is left with the 0 of a new Val.
PortOf(v) ==
    CASE v[1] = "num" -> v[2] % 65536
      [] v[1] \in {"members"} \cup Containers -> 0
      [] OTHER -> DefaultPort

\* One round of the for loop, in the order of a hash table.
ApplyPort ==
    /\ phase = "apply"
    /\ <<"ListenPort">> \in DOMAIN todo
    /\ LET v == todo[<<"ListenPort">>]
       IN  port' = IF v[1] \in {"num"} \cup Containers THEN PortOf(v) ELSE port
    /\ Done(<<"ListenPort">>)
    /\ UNCHANGED <<inputVars, phase, keepLog, logDir, conf, asked, target>>

\* Mutant of ApplyPath: an empty string is taken like any other.
ApplyPathEmpty ==
    /\ phase = "apply"
    /\ \E k \in DOMAIN todo \ {<<"ListenPort">>} :
         /\ todo[k][1] = "str"
         /\ conf' = [n \in DOMAIN conf \cup {k} |->
                       IF n # k THEN conf[n]
                       ELSE IF k = <<"DefaultPage">> THEN todo[k][2] ELSE Slashed(todo[k][2])]
         /\ Done(k)
    /\ UNCHANGED <<inputVars, phase, keepLog, logDir, port, asked, target>>

ApplyPath ==
    /\ phase = "apply"
    /\ \E k \in DOMAIN todo \ {<<"ListenPort">>} :
         /\ todo[k][1] = "str"
         /\ LET given == IF todo[k][2] # <<>> THEN todo[k][2]
                         ELSE IF k \in DOMAIN conf THEN conf[k] ELSE <<>>
            IN  conf' = [n \in DOMAIN conf \cup {k} |->
                           IF n # k THEN conf[n]
                           ELSE IF k = <<"DefaultPage">> THEN given ELSE Slashed(given)]
         /\ Done(k)
    /\ UNCHANGED <<inputVars, phase, keepLog, logDir, port, asked, target>>

\* Mutant of ApplyFaults: the string is looked at before the name.
ApplyFaultsAnyName ==
    /\ phase = "apply"
    /\ \E k \in DOMAIN todo : todo[k][1] # "str"
    /\ phase' = "stopped"
    /\ UNCHANGED <<inputVars, keepLog, logDir, conf, port, todo, asked, target>>

\* at<string>() of anything else is a null pointer.
ApplyFaults ==
    /\ phase = "apply"
    /\ \E k \in DOMAIN todo \ {<<"ListenPort">>} : todo[k][1] # "str"
    /\ phase' = "stopped"
    /\ UNCHANGED <<inputVars, keepLog, logDir, conf, port, todo, asked, target>>

Applied ==
    /\ phase = "apply" /\ DOMAIN todo = {}
    /\ phase' = "listen"
    /\ UNCHANGED <<inputVars, keepLog, logDir, conf, port, todo, asked, target>>

\* ServerSocket: socket_exception for a port that cannot be had, which main does
\* not catch.
Listen ==
    /\ phase = "listen"
    /\ phase' \in {"serving", "taken"}
    /\ UNCHANGED <<inputVars, keepLog, logDir, conf, port, todo, asked, target>>

------------------------------------------------------------------------------
(* The first GET.  A browser escapes what it must, and may escape anything. *)

Setting(k) == IF <<k>> \in DOMAIN conf THEN conf[<<k>>] ELSE <<>>

UpperHex(d) == IF d < 10 THEN d + 48 ELSE d + 55
Escape(c) == <<Percent, UpperHex(c \div 16), UpperHex(c % 16)>>

\* A letter is a code and whether it is escaped.
Encode[letters \in Seq(Code \X BOOLEAN)] ==
    IF letters = <<>> THEN <<>>
    ELSE (IF letters[1][2] THEN Escape(letters[1][1]) ELSE <<letters[1][1]>>)
           \o Encode[Tail(letters)]

MustEscape(c) == c \in {Percent, Question} \/ c > 126

DefaultPageAsked ==
    /\ phase = "serving"
    /\ target' = <<Setting("HttpPath"), Setting("DefaultPage")>>
    /\ phase' = "answered"
    /\ UNCHANGED <<inputVars, keepLog, logDir, conf, port, todo, asked>>

PageAsked ==
    /\ phase = "serving"
    /\ asked' \in Names
    /\ \E escaped \in [DOMAIN asked' -> BOOLEAN] :
         /\ \A i \in DOMAIN asked' : MustEscape(asked'[i]) => escaped[i]
         /\ target' = <<Setting("HttpPath"),
                       Target(Encode[[i \in DOMAIN asked' |-> <<asked'[i], escaped[i]>>]])>>
    /\ phase' = "answered"
    /\ UNCHANGED <<inputVars, keepLog, logDir, conf, port, todo>>

Next ==
    \/ ParseOptions
    \/ InitLog
    \/ NewDay
    \/ LoadSettings
    \/ ApplyPort
    \/ ApplyPath
    \/ ApplyFaults
    \/ Applied
    \/ Listen
    \/ DefaultPageAsked
    \/ PageAsked

Spec == Init /\ [][Next]_vars

------------------------------------------------------------------------------
(* Properties. *)

\* What the members of a document say, the first of a name taken.
IsFirst(d, i) == \A j \in 1..i-1 : d[j][1] # d[i][1]
Given(d, k) == {d[i][2] : i \in {j \in DOMAIN d : d[j][1] = <<k>> /\ IsFirst(d, j)}}

Named(d) == {d[i][1] : i \in DOMAIN d}
Meant(d) ==
    [k \in Named(d) |-> MeantBy(d[CHOOSE i \in DOMAIN d : d[i][1] = k /\ IsFirst(d, i)][2])]

Whole == text \notin Missing /\ text = Written

Results == {"value", "invalid_argument", "faults", "hangs", "wild"}

\* What json_parser owes to its callers.  A document is read back as it was
\* written, in exactly the styles that it copes with: members, nesting, items,
\* blanks, duplicate names; and find has the member of a name, or what is
\* nested in the others.  A text that is cut short is no value, unless nothing
\* is left of it, and only brackets and quotes can keep the parser from
\* returning at all.  Nothing is owed for a document with a quote in a string,
\* but that its numbers are numbers.
SettingsRead ==
    text \notin Missing =>
        LET read == JsonParse(text)
            meant == Meant(doc)
            nested == {k \in DOMAIN meant \ {LogPath} : meant[k][1] \in Containers}
        IN  /\ read.out \in Results
            /\ CASE text = Written /\ Readable(doc, style) ->
                      /\ read.out = "value" /\ read.val = <<"obj", meant>>
                      /\ FindIn(read.val, LogPath) =
                           {MeantBy(v) : v \in Given(doc, "LogPath")}
                             \cup UNION {FindIn(meant[k], LogPath) : k \in nested}
                 [] text = Written /\ ~Readable(doc, style) /\ ~Escaped(doc) ->
                      read.out = "invalid_argument"
                 [] Escaped(doc) ->
                      LET members == Obj(read.val)
                      IN  \A k \in DOMAIN members :
                            members[k][1] = "num" => members[k][2] \in Int
                 [] OTHER ->
                      /\ read.out = "value" <=> text = <<>>
                      /\ read.out = "value" => Obj(read.val) = <<>>
                      /\ read.out \in {"hangs", "wild"} =>
                           \E i \in DOMAIN text : text[i] \in {"[", "\""}

Paths == {"HttpPath", "FileReceived", "FileToSend", "DefaultPage"}

PathMeant(d, k) ==
    LET path == IF \E v \in Given(d, k) : v[2] # <<>>
                THEN (CHOOSE v \in Given(d, k) : TRUE)[2] ELSE Defaults[<<k>>]
    IN  IF k = "DefaultPage" THEN path ELSE Slashed(path)

PortMeant(d) ==
    LET given == Given(d, "ListenPort")
    IN  IF given = {} THEN DefaultPort ELSE PortOf(CHOOSE v \in given : TRUE)

\* A server that answers has all of its settings, an empty string standing for
\* the default; and from a file that is cut short or that the parser gives up
\* on it has none of them, be it with the defaults or without.
Configured ==
    phase \in {"serving", "answered"} /\ ~Escaped(doc) =>
        IF Whole /\ Readable(doc, style)
        THEN /\ \A k \in Paths : Setting(k) = PathMeant(doc, k)
             /\ port = PortMeant(doc)
        ELSE port = DefaultPort /\ (DOMAIN conf = {} \/ conf = Defaults)

\* The log is where the settings put it, read apart from the others, or where a
\* LogPath within some container of the settings puts it.
LogsWhereConfigured ==
    phase \in {"serving", "answered"} /\ keepLog /\ Whole /\ Readable(doc, style) =>
        \/ \E v \in Given(doc, "LogPath") : logDir = PathOf(v)
        \/ Given(doc, "LogPath") = {} /\ logDir = Here
        \/ \E i \in DOMAIN doc :
             /\ doc[i][2][1] \in {"arr", "members"}
             /\ \E v \in FindIn(MeantBy(doc[i][2]), LogPath) : logDir = PathOf(v)

\* With nothing wrong in sft.json a server comes as far as its socket: a file
\* that is whole, has no quote in a string, and whose members are strings, but
\* for ListenPort.  Then only a log file that cannot be opened, today or at a
\* new day, or a port that cannot be had keeps it from serving.  And it hangs
\* for nothing but a text that is cut short behind a bracket or a quote, and
\* aborts over its settings for nothing but a file that is not there.
Sound(d) ==
    ~Escaped(d) /\ \A i \in DOMAIN d : d[i][1] = <<"ListenPort">> \/ d[i][2][1] = "str"

StopsForCause ==
    /\ args \in {<<>>, <<"-n">>} /\ Whole /\ Sound(doc) =>
         \/ phase \in {"options", "taken"} \cup Server
         \/ keepLog /\ phase \in {"unlogged", "mute"}
    /\ phase = "hung" =>
         Escaped(doc) \/ (text # Written /\ \E i \in DOMAIN text : text[i] \in {"[", "\""})
    /\ phase = "aborted" => text = <<"absent">> \/ GetOpt[args].out = "aborted"

\* The usage text: nothing or -n starts a server, and if it ends it is not for
\* the command line: sft.json is not there ("aborted") or upsets the parser, the
\* log cannot be opened or the port cannot be had.  An option with its argument
\* and an address, in either order, starts that client.  A client without an
\* address is told so; with -n it may fault instead, but never becomes a server.
OptionsAsDocumented ==
    phase # "options" =>
        /\ args \in {<<>>, <<"-n">>} =>
             \/ phase \in Server \cup {"taken"}
             \/ phase \in {"unlogged", "mute"} /\ args = <<>>
             \/ phase = "aborted" /\ text = <<"absent">>
             \/ phase \in {"faulted", "stopped", "hung"} /\ text \notin Missing
        /\ \A o \in TakesArgument :
             /\ args \in {<<o, "word", "ip:port">>, <<"ip:port", o, "word">>} =>
                  phase = ClientMode({o})
             /\ args = <<o, "word">> => phase = "missing"
             /\ args \in {<<"-n", o, "word">>, <<o, "word", "-n">>} =>
                  phase \in {"missing", "faulted"}

\* The page of a request is the one whose name was encoded, below HttpPath, in
\* whichever way its characters were escaped (with upper-case digits).
PagesFound ==
    phase = "answered" =>
        /\ target[1] = Setting("HttpPath")
        /\ target[2] = IF asked = <<>> THEN Setting("DefaultPage") ELSE asked
==============================================================================
